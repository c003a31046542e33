------------------------- MODULE RunLifecycleProofs -------------------------
(***************************************************************************)
(* The meta of a run never contradicts its brief, whichever write a        *)
(* process dies or fails in and whatever an earlier run has left there.    *)
(*                                                                         *)
(* The property speaks of finished files. The invariant adds what the      *)
(* process relies on while it has not written them: neither file is of     *)
(* this life before its turn has come, and the result says which of them   *)
(* will be.                                                                *)
(*                                                                         *)
(* And the gate of preflight: nothing runs against an unproved endpoint.   *)
(*                                                                         *)
(* And the transcript, which every run of a directory appends to: only its *)
(* last line can be torn, and the next record that is appended to it is    *)
(* the one that is lost with it.                                           *)
(***************************************************************************)
EXTENDS RunLifecycle, SequenceTheorems, TLAPS

Mine(artifact) == disk[artifact].life = lives

WholeAndMine(artifact) == Mine(artifact) /\ disk[artifact].content = "whole"

\* Nothing of this life on the disk but, perhaps, its brief.
NoMetaYet == ~Mine("meta")

MetaDone == WholeAndMine("meta") /\ disk["meta"].says = result

BriefMatches == result = "DONE" <=> WholeAndMine("brief")

\* What the directory holds at each point of the process.
OnDisk ==
  /\ pc \in {"loading", "probing", "guiding", "investigating"}
       => NoMetaYet /\ ~Mine("brief") /\ result = "none"
  /\ pc = "refusing"
       => /\ ~WholeAndMine("meta") /\ ~Mine("brief") /\ result = "FAILED_PREFLIGHT"
  /\ pc = "closing"
       => /\ ~Mine("brief")
          /\ result = "FAILED_PREFLIGHT" => MetaDone
          /\ result # "FAILED_PREFLIGHT" => NoMetaYet
  /\ pc = "brief" => NoMetaYet /\ result = "DONE" /\ ~WholeAndMine("brief")
  /\ pc = "meta" => ~WholeAndMine("meta") /\ BriefMatches
  /\ pc \in {"pretty", "stats", "note", "returned"} => MetaDone /\ BriefMatches

File == [content : {"absent", "torn", "whole"}, life : Nat, says : Terminals \cup {"", "none"}]

\* The files are of lives that have been.
Lives ==
  /\ lives \in Nat
  /\ disk \in [Artifacts -> File]
  /\ result \in Terminals \cup {"none"}
  /\ \A a \in Artifacts : disk[a].life <= lives
  /\ Alive => lives # 0
  /\ lives = 0 => \A a \in Artifacts : disk[a].content = "absent"

MetaInv == Lives /\ OnDisk /\ MetaTellsTheTruth

LEMMA MetaInit == Init => MetaInv
<1> SUFFICES ASSUME Init PROVE MetaInv
  OBVIOUS
<1>1. pc = "idle" /\ lives = 0 /\ result = "none" /\ disk = [a \in Artifacts |-> NoFile]
  BY DEF Init
<1>2. NoFile \in File
  BY DEF NoFile, File
<1>3. Lives
  <2>1. \A a \in Artifacts : disk[a].life = 0 /\ disk[a].content = "absent"
    BY <1>1 DEF NoFile
  <2>2. ~Alive
    BY <1>1 DEF Alive
  <2>3. QED
    BY <1>1, <1>2, <2>1, <2>2 DEF Lives
<1>4. OnDisk
  BY <1>1 DEF OnDisk
<1>5. MetaTellsTheTruth
  BY <1>1 DEF MetaTellsTheTruth, NoFile, Artifacts
<1>6. QED
  BY <1>3, <1>4, <1>5 DEF MetaInv

\* Steps that write no artifact and open no new life.
LEMMA NothingWritten ==
  ASSUME MetaInv, UNCHANGED <<lives, disk>>, Alive' => Alive,
         result' \in Terminals \cup {"none"},
         OnDisk', pc' = "returned" => pc \in {"closing", "stats", "note"}
  PROVE  MetaInv'
<1>1. Lives'
  BY DEF MetaInv, Lives
<1>2. MetaTellsTheTruth'
  BY DEF MetaInv, MetaTellsTheTruth, OnDisk, MetaDone, WholeAndMine, Mine
<1>3. QED
  BY <1>1, <1>2 DEF MetaInv

-----------------------------------------------------------------------------
(***************************************************************************)
(* The steps that write.                                                   *)
(***************************************************************************)

\* A new life owns nothing on the disk.
LEMMA StartOwnsNothing ==
  ASSUME MetaInv, NEW kind, Start(kind)
  PROVE  MetaInv'
<1>1. /\ pc' = "loading" /\ lives' = lives + 1 /\ result' = "none" /\ disk' = disk
  BY DEF Start
<1>2. \A a \in Artifacts : disk[a].life \in Nat /\ disk[a].life <= lives /\ lives \in Nat
  BY DEF MetaInv, Lives, File
<1>3. \A a \in Artifacts : disk'[a].life < lives' /\ disk'[a].life # lives'
  BY <1>1, <1>2
<1>4. ~Mine("meta")' /\ ~Mine("brief")'
  BY <1>3 DEF Mine, Artifacts
<1>5. Lives'
  BY <1>1, <1>2, <1>3 DEF MetaInv, Lives
<1>6. OnDisk'
  BY <1>1, <1>4 DEF OnDisk, NoMetaYet, Mine
<1>7. MetaTellsTheTruth'
  BY <1>1, <1>4 DEF MetaTellsTheTruth, Mine
<1>8. QED
  BY <1>5, <1>6, <1>7 DEF MetaInv

LEMMA TruncateOwnsNothingWhole ==
  ASSUME MetaInv, Truncate
  PROVE  MetaInv'
<1> DEFINE a == ArtifactAt(pc)
           torn == [content |-> "torn", life |-> lives, says |-> ""]
<1>1. /\ pc \in Writing /\ pc' = pc /\ lives' = lives /\ result' = result
      /\ disk' = [disk EXCEPT ![a] = torn]
  BY DEF Truncate
<1>2. lives \in Nat /\ disk \in [Artifacts -> File] /\ lives # 0
  BY <1>1 DEF MetaInv, Lives, Alive, Writing, File
<1>3. a \in Artifacts /\ (a = "meta" <=> pc \in {"refusing", "meta"})
      /\ (a = "brief" <=> pc = "brief")
  BY <1>1 DEF ArtifactAt, Artifacts, Writing
<1>4. /\ disk'[a].content = "torn" /\ disk'[a].life = lives
      /\ \A b \in Artifacts : b # a => disk'[b] = disk[b]
  BY <1>1, <1>2, <1>3
<1>5. Lives'
  <2>1. torn \in File
    BY <1>2 DEF File
  <2>2. disk' \in [Artifacts -> File]
    BY <1>1, <1>2, <2>1
  <2>3. \A b \in Artifacts : disk'[b].life <= lives
    BY <1>2, <1>4 DEF MetaInv, Lives
  <2>4. result' \in Terminals \cup {"none"}
    BY <1>1 DEF MetaInv, Lives
  <2>5. QED
    BY <1>1, <1>2, <2>2, <2>3, <2>4 DEF Lives
<1>6. "meta" \in Artifacts /\ "brief" \in Artifacts
  BY DEF Artifacts
<1>7. OnDisk'
  BY <1>1, <1>3, <1>4, <1>6
     DEF MetaInv, OnDisk, NoMetaYet, MetaDone, BriefMatches, WholeAndMine, Mine, Writing
<1>8. MetaTellsTheTruth'
  BY <1>1, <1>3, <1>4, <1>6
     DEF MetaInv, MetaTellsTheTruth, OnDisk, NoMetaYet, MetaDone, WholeAndMine, Mine, Writing
<1>9. QED
  BY <1>5, <1>7, <1>8 DEF MetaInv

LEMMA FillTellsTheTruth ==
  ASSUME MetaInv, Fill
  PROVE  MetaInv'
<1> DEFINE a == ArtifactAt(pc)
           whole == [content |-> "whole", life |-> lives, says |-> Says(a)]
<1>1. /\ pc \in Writing /\ pc' = After(pc) /\ lives' = lives /\ result' = result
      /\ disk' = [disk EXCEPT ![a] = whole]
  BY DEF Fill
<1>2. lives \in Nat /\ disk \in [Artifacts -> File] /\ lives # 0
  BY <1>1 DEF MetaInv, Lives, Alive, Writing, File
<1>3. a \in Artifacts /\ (a = "meta" <=> pc \in {"refusing", "meta"})
      /\ (a = "brief" <=> pc = "brief")
  BY <1>1 DEF ArtifactAt, Artifacts, Writing
<1>4. /\ disk'[a].content = "whole" /\ disk'[a].life = lives /\ disk'[a].says = Says(a)
      /\ \A b \in Artifacts : b # a => disk'[b] = disk[b]
  BY <1>1, <1>2, <1>3
<1>5. Says(a) = (IF a = "meta" THEN result ELSE "") /\ Says(a) \in Terminals \cup {"", "none"}
  BY DEF Says, MetaInv, Lives
<1>6. Lives'
  <2>1. whole \in File
    BY <1>2, <1>5 DEF File
  <2>2. disk' \in [Artifacts -> File]
    BY <1>1, <1>2, <2>1
  <2>3. \A b \in Artifacts : disk'[b].life <= lives
    BY <1>2, <1>4 DEF MetaInv, Lives
  <2>4. result' \in Terminals \cup {"none"}
    BY <1>1 DEF MetaInv, Lives
  <2>5. QED
    BY <1>1, <1>2, <2>2, <2>3, <2>4 DEF Lives
<1>7. /\ pc = "refusing" => pc' = "closing"
      /\ pc = "brief" => pc' = "meta"
      /\ pc = "meta" => pc' = "pretty"
      /\ pc = "pretty" => pc' = "stats"
      /\ pc = "stats" => pc' = "returned"
  BY <1>1 DEF After
<1>8. "meta" \in Artifacts /\ "brief" \in Artifacts
  BY DEF Artifacts
<1>9. OnDisk'
  BY <1>1, <1>3, <1>4, <1>5, <1>7, <1>8
     DEF MetaInv, OnDisk, NoMetaYet, MetaDone, BriefMatches, WholeAndMine, Mine, Writing
<1>10. MetaTellsTheTruth'
  BY <1>1, <1>3, <1>4, <1>5, <1>7, <1>8
     DEF MetaInv, MetaTellsTheTruth, OnDisk, NoMetaYet, MetaDone, BriefMatches,
         WholeAndMine, Mine, Writing
<1>11. QED
  BY <1>6, <1>9, <1>10 DEF MetaInv

-----------------------------------------------------------------------------
(***************************************************************************)
(* The steps that do not.                                                  *)
(***************************************************************************)

LEMMA MetaNext == MetaInv /\ [Next]_vars => MetaInv'
<1> SUFFICES ASSUME MetaInv, [Next]_vars PROVE MetaInv'
  OBVIOUS
<1> USE DEF OnDisk, NoMetaYet, MetaDone, BriefMatches, WholeAndMine, Mine
<1>0. result \in Terminals \cup {"none"} /\ OnDisk
  BY DEF MetaInv, Lives
<1>1. CASE \E kind \in {"vllm", "stub"} : Start(kind)
  BY <1>1, StartOwnsNothing
<1>2. CASE LoadRaises \/ Load
  <2>1. UNCHANGED <<lives, disk, result>> /\ pc = "loading"
        /\ pc' \in {"raised", "probing", "investigating"}
    BY <1>2 DEF LoadRaises, Load
  <2>2. QED
    BY <2>1, <1>0, NothingWritten DEF Alive
<1>3. CASE \E e \in 1 .. Endpoints, reachable, healthy, serves \in BOOLEAN :
              ProbeHttp(e, reachable, healthy, serves)
  <2>1. UNCHANGED <<lives, disk, result>> /\ pc = "probing" /\ pc' \in {"guiding", "probing"}
    BY <1>3 DEF ProbeHttp
  <2>2. QED
    BY <2>1, <1>0, NothingWritten DEF Alive
<1>4. CASE \E e \in 1 .. Endpoints, conforms \in BOOLEAN : ProbeGuided(e, conforms)
  <2>1. UNCHANGED <<lives, disk, result>> /\ pc = "guiding" /\ pc' = "probing"
    BY <1>4 DEF ProbeGuided
  <2>2. QED
    BY <2>1, <1>0, NothingWritten DEF Alive
<1>5. CASE PreflightEnds
  <2>1. /\ UNCHANGED <<lives, disk>> /\ pc = "probing"
        /\ \/ pc' = "investigating" /\ result' = result
           \/ pc' = "refusing" /\ result' = "FAILED_PREFLIGHT"
    BY <1>5 DEF PreflightEnds
  <2>2. QED
    BY <2>1, <1>0, NothingWritten DEF Alive, Terminals
<1>6. CASE ModelCall
  <2>1. UNCHANGED <<lives, disk, result, pc>> /\ pc = "investigating"
    BY <1>6 DEF ModelCall
  <2>2. QED
    BY <2>1, <1>0, NothingWritten DEF Alive
<1>7. CASE \E terminal \in Terminals \ {"FAILED_PREFLIGHT"} : InvestigationEnds(terminal)
  <2>1. /\ UNCHANGED <<lives, disk>> /\ pc = "investigating" /\ pc' = "closing"
        /\ result' \in Terminals /\ result' # "FAILED_PREFLIGHT"
    BY <1>7 DEF InvestigationEnds
  <2>2. QED
    BY <2>1, <1>0, NothingWritten DEF Alive
<1>8. CASE RaisesInTry \/ CleanUpRaises
  <2>1. /\ UNCHANGED <<lives, disk, result>> /\ pc' \in {"unwinding", "raised"}
        /\ pc \in {"probing", "guiding", "investigating", "refusing", "closing", "unwinding"}
    BY <1>8 DEF RaisesInTry, CleanUpRaises
  <2>2. QED
    BY <2>1, <1>0, NothingWritten DEF Alive
<1>9. CASE CleanUp
  <2>1. /\ UNCHANGED <<lives, disk, result>>
        /\ \/ pc = "unwinding" /\ pc' = "raised"
           \/ pc = "closing" /\ result = "FAILED_PREFLIGHT" /\ pc' = "returned"
           \/ pc = "closing" /\ result = "DONE" /\ pc' = "brief"
           \/ pc = "closing" /\ result \notin {"DONE", "FAILED_PREFLIGHT"} /\ pc' = "meta"
    BY <1>9 DEF CleanUp
  <2>2. QED
    BY <2>1, <1>0, NothingWritten DEF Alive
<1>10. CASE Truncate
  BY <1>10, TruncateOwnsNothingWhole
<1>11. CASE Fill
  BY <1>11, FillTellsTheTruth
<1>12. CASE WriteRaises
  <2>1. /\ UNCHANGED <<lives, disk, result>>
        /\ \/ pc' = "raised" /\ pc \in {"brief", "meta"}
           \/ pc' \in {"stats", "note"} /\ pc \in {"pretty", "stats"}
    BY <1>12 DEF WriteRaises
  <2>2. QED
    BY <2>1, <1>0, NothingWritten DEF Alive
<1>13. CASE WriteNote
  <2>1. UNCHANGED <<lives, disk, result>> /\ pc = "note" /\ pc' \in {"returned", "raised"}
    BY <1>13 DEF WriteNote
  <2>2. QED
    BY <2>1, <1>0, NothingWritten DEF Alive
<1>14. CASE \E tears \in BOOLEAN : Die(tears)
  <2>1. UNCHANGED <<lives, disk, result>> /\ pc' = "died"
    BY <1>14 DEF Die
  <2>2. QED
    BY <2>1, <1>0, NothingWritten DEF Alive
<1>15. CASE UNCHANGED vars
  <2>1. UNCHANGED <<lives, disk, result, pc>>
    BY <1>15 DEF vars
  <2>2. QED
    BY <2>1, <1>0 DEF MetaInv, Lives, Alive, MetaTellsTheTruth
<1>16. QED
  BY <1>1, <1>2, <1>3, <1>4, <1>5, <1>6, <1>7, <1>8, <1>9, <1>10, <1>11, <1>12, <1>13,
     <1>14, <1>15 DEF Next

\* run_meta.json says DONE exactly when this run's brief is complete beside it, at every
\* instant, for any number of processes that use the directory and any endpoints.
THEOREM MetaIsTrue == Spec => []MetaTellsTheTruth
<1>1. MetaInv => MetaTellsTheTruth
  BY DEF MetaInv
<1>2. QED
  BY <1>1, MetaInit, MetaNext, PTL DEF Spec

-----------------------------------------------------------------------------
(***************************************************************************)
(* The gate. The checks of a run are of a prefix of the endpoints, and one *)
(* that made no check fail has passed all three; of the one in hand the    *)
(* round trip is still missing while it is being tried.                    *)
(***************************************************************************)

Names == {"server_health", "served_model_name", "guided_json_roundtrip"}

Proved(e) == \A name \in Names : Check(e, name, TRUE) \in checks

GateInv ==
  /\ pc = "loading" => checks = {}
  /\ pc = "probing" =>
       \E n \in 0 .. Endpoints :
         JustAsked(n) /\ (Passes(checks) => \A e \in 1 .. n : Proved(e))
  /\ pc = "guiding" =>
       \E n \in 1 .. Endpoints :
         /\ JustAsked(n)
         /\ Check(n, "server_health", TRUE) \in checks
         /\ Check(n, "served_model_name", TRUE) \in checks
         /\ Passes(checks) => \A e \in 1 .. n - 1 : Proved(e)
  /\ pc = "investigating" /\ backend = "vllm" => OnlyProvenEndpoints

\* What more checks leave of those that were made.
LEMMA MoreChecks ==
  ASSUME NEW e, NEW found, checks' = checks \cup found, \A c \in found : c.endpoint = e,
         found # {}
  PROVE  /\ Checked' = Checked \cup {e}
         /\ Passes(checks') => Passes(checks) /\ Passes(found)
         /\ \A d : Proved(d) => Proved(d)'
<1>1. Checked' = {c.endpoint : c \in checks'}
  BY DEF Checked
<1>2. {c.endpoint : c \in checks'} = {c.endpoint : c \in checks} \cup {e}
  OBVIOUS
<1>3. Passes(checks') => Passes(checks) /\ Passes(found)
  BY DEF Passes
<1>4. QED
  BY <1>1, <1>2, <1>3 DEF Proved, Checked

LEMMA HttpKeepsGate ==
  ASSUME GateInv, NEW e \in 1 .. Endpoints, NEW reachable \in BOOLEAN,
         NEW healthy \in BOOLEAN, NEW serves \in BOOLEAN,
         ProbeHttp(e, reachable, healthy, serves)
  PROVE  GateInv'
<1> DEFINE found == IF reachable
                    THEN {Check(e, "server_health", healthy), Check(e, "served_model_name", serves)}
                    ELSE {Check(e, "server_health", FALSE)}
<1>1. /\ pc = "probing" /\ Due(e) /\ checks' = checks \cup found
      /\ pc' = IF Passes(found) THEN "guiding" ELSE "probing"
  BY DEF ProbeHttp
<1>2. PICK n \in 0 .. Endpoints :
        JustAsked(n) /\ (Passes(checks) => \A d \in 1 .. n : Proved(d))
  BY <1>1 DEF GateInv
<1>3. Endpoints \in Nat
  BY LifecycleAssumption
<1>4. n = e - 1
  <2>1. 1 .. n = 1 .. e - 1
    BY <1>1, <1>2 DEF Due, JustAsked
  <2>2. QED
    BY <2>1, <1>3
<1>5. found # {} /\ \A c \in found : c.endpoint = e
  <2>1. \/ found = {Check(e, "server_health", healthy), Check(e, "served_model_name", serves)}
        \/ found = {Check(e, "server_health", FALSE)}
    OBVIOUS
  <2>2. \A name, ok : Check(e, name, ok).endpoint = e
    BY DEF Check
  <2>3. QED
    BY ONLY <2>1, <2>2
<1>6. /\ Checked' = Checked \cup {e}
      /\ Passes(checks') => Passes(checks) /\ Passes(found)
      /\ \A d : Proved(d) => Proved(d)'
  BY <1>1, <1>5, MoreChecks
<1>7. JustAsked(e)'
  <2>1. 1 .. e = (1 .. n) \cup {e}
    BY <1>3, <1>4
  <2>2. QED
    BY <2>1, <1>2, <1>6 DEF JustAsked
<1>8. CASE Passes(found)
  <2>1. /\ Check(e, "server_health", TRUE) \in checks'
        /\ Check(e, "served_model_name", TRUE) \in checks'
    BY <1>8, <1>1 DEF Passes, Check
  <2>2. Passes(checks') => \A d \in 1 .. e - 1 : Proved(d)'
    BY <1>2, <1>4, <1>6
  <2>3. QED
    BY <2>1, <2>2, <1>1, <1>7, <1>8 DEF GateInv
<1>9. CASE ~Passes(found)
  <2>1. ~Passes(checks')
    BY <1>6, <1>9
  <2>2. e \in 0 .. Endpoints
    BY <1>3
  <2>3. pc' = "probing"
    BY <1>1, <1>9
  <2>4. QED
    BY <2>1, <2>2, <2>3, <1>7 DEF GateInv
<1>10. QED
  BY <1>8, <1>9

LEMMA GuidedKeepsGate ==
  ASSUME GateInv, NEW e \in 1 .. Endpoints, NEW conforms \in BOOLEAN, ProbeGuided(e, conforms)
  PROVE  GateInv'
<1> DEFINE found == {Check(e, "guided_json_roundtrip", conforms)}
<1>1. pc = "guiding" /\ JustAsked(e) /\ checks' = checks \cup found /\ pc' = "probing"
  BY DEF ProbeGuided
<1>2. PICK n \in 1 .. Endpoints :
        /\ JustAsked(n)
        /\ Check(n, "server_health", TRUE) \in checks
        /\ Check(n, "served_model_name", TRUE) \in checks
        /\ Passes(checks) => \A d \in 1 .. n - 1 : Proved(d)
  BY <1>1 DEF GateInv
<1>3. Endpoints \in Nat
  BY LifecycleAssumption
<1>4. n = e
  <2>1. 1 .. n = 1 .. e
    BY <1>1, <1>2 DEF JustAsked
  <2>2. QED
    BY <2>1, <1>3
<1>5. found # {} /\ \A c \in found : c.endpoint = e
  BY DEF Check
<1>6. /\ Checked' = Checked \cup {e}
      /\ Passes(checks') => Passes(checks) /\ Passes(found)
      /\ \A d : Proved(d) => Proved(d)'
  BY <1>1, <1>5, MoreChecks
<1>7. JustAsked(e)'
  <2>1. e \in 1 .. e
    BY <1>3
  <2>2. QED
    BY <2>1, <1>1, <1>6 DEF JustAsked
<1>8. ASSUME Passes(checks') PROVE \A d \in 1 .. e : Proved(d)'
  <2>1. conforms
    BY <1>6, <1>8 DEF Passes, Check
  <2>2. Proved(e)'
    BY <2>1, <1>1, <1>2, <1>4 DEF Proved, Names
  <2>3. \A d \in 1 .. e - 1 : Proved(d)'
    BY <1>2, <1>4, <1>6, <1>8
  <2>4. \A d \in 1 .. e : d = e \/ d \in 1 .. e - 1
    BY <1>3
  <2>5. QED
    BY <2>2, <2>3, <2>4
<1>9. e \in 0 .. Endpoints
  BY <1>3
<1>10. QED
  BY <1>1, <1>7, <1>8, <1>9 DEF GateInv

LEMMA EndKeepsGate ==
  ASSUME GateInv, PreflightEnds
  PROVE  GateInv'
<1>1. /\ pc = "probing" /\ JustAsked(Endpoints) /\ checks' = checks
      /\ \/ Passes(checks) /\ pc' = "investigating"
         \/ pc' = "refusing"
  BY DEF PreflightEnds
<1>2. PICK n \in 0 .. Endpoints :
        JustAsked(n) /\ (Passes(checks) => \A d \in 1 .. n : Proved(d))
  BY <1>1 DEF GateInv
<1>3. n = Endpoints
  <2>1. 1 .. n = 1 .. Endpoints /\ Endpoints \in Nat
    BY <1>1, <1>2, LifecycleAssumption DEF JustAsked
  <2>2. QED
    BY <2>1
<1>4. ASSUME Passes(checks) PROVE OnlyProvenEndpoints'
  <2>1. \A d, name : Check(d, name, FALSE) \notin checks
    BY <1>4 DEF Passes, Check
  <2>2. QED
    BY <2>1, <1>1, <1>2, <1>3, <1>4 DEF OnlyProvenEndpoints, Proved, Names
<1>5. QED
  BY <1>1, <1>4 DEF GateInv

LEMMA GateNext == GateInv /\ [Next]_vars => GateInv'
<1> SUFFICES ASSUME GateInv, [Next]_vars PROVE GateInv'
  OBVIOUS
<1>1. CASE \E kind \in {"vllm", "stub"} : Start(kind)
  BY <1>1 DEF Start, GateInv
<1>2. CASE Load
  <2>1. /\ pc = "loading" /\ UNCHANGED <<backend, checks>>
        /\ \/ pc' = "probing"
           \/ pc' = "investigating" /\ backend # "vllm"
    BY <1>2 DEF Load
  <2>2. checks = {}
    BY <2>1 DEF GateInv
  <2>3. JustAsked(0)' /\ \A e \in 1 .. 0 : Proved(e)'
    BY <2>1, <2>2 DEF JustAsked, Checked
  <2>4. 0 \in 0 .. Endpoints
    BY LifecycleAssumption
  <2>5. QED
    BY <2>1, <2>3, <2>4 DEF GateInv
<1>3. CASE \E e \in 1 .. Endpoints, reachable, healthy, serves \in BOOLEAN :
              ProbeHttp(e, reachable, healthy, serves)
  BY <1>3, HttpKeepsGate
<1>4. CASE \E e \in 1 .. Endpoints, conforms \in BOOLEAN : ProbeGuided(e, conforms)
  BY <1>4, GuidedKeepsGate
<1>5. CASE PreflightEnds
  BY <1>5, EndKeepsGate
<1>6. CASE ModelCall \/ UNCHANGED vars
  <2>1. UNCHANGED <<pc, backend, checks>>
    BY <1>6 DEF ModelCall, vars
  <2>2. QED
    BY <2>1 DEF GateInv, OnlyProvenEndpoints, JustAsked, Checked, Proved
<1>7. CASE \/ LoadRaises \/ RaisesInTry \/ CleanUp \/ CleanUpRaises
           \/ Truncate \/ Fill \/ WriteRaises \/ WriteNote
           \/ \E terminal \in Terminals \ {"FAILED_PREFLIGHT"} : InvestigationEnds(terminal)
           \/ \E tears \in BOOLEAN : Die(tears)
  <2>1. pc' \notin {"loading", "probing", "guiding", "investigating"}
    BY <1>7 DEF LoadRaises, RaisesInTry, CleanUp, CleanUpRaises, Truncate, Fill, WriteRaises,
                WriteNote, InvestigationEnds, Die, Writing, After
  <2>2. QED
    BY <2>1 DEF GateInv
<1>8. QED
  BY <1>1, <1>2, <1>3, <1>4, <1>5, <1>6, <1>7 DEF Next

\* No investigation starts against an endpoint that has not passed every check in this
\* run, however many there are and whatever they answer.
THEOREM GateHolds == Spec => []OnlyProvenEndpoints
<1>1. Init => GateInv
  BY DEF Init, GateInv
<1>2. GateInv => OnlyProvenEndpoints
  BY DEF GateInv, OnlyProvenEndpoints
<1>3. QED
  BY <1>1, <1>2, GateNext, PTL DEF Spec

-----------------------------------------------------------------------------
(***************************************************************************)
(* The transcript. A record is appended behind whatever is there, so what  *)
(* has to be known is that only the last line can be torn, and only when   *)
(* nobody writes; and that the record is the latest of the latest life.    *)
(***************************************************************************)

LineSet == [life : Nat, id : Nat, text : {"whole", "torn", "garbled"}]

\* Nobody who writes finds a torn line: the start has repaired it.
TornIsLast ==
  \A n \in DOMAIN transcript :
    transcript[n].text = "torn" => n = Len(transcript) /\ ~Alive

\* A line is of a life that has been, and a whole one of a record it has written.
LinesAreWritten ==
  \A n \in DOMAIN transcript :
    /\ transcript[n].life \in 1 .. lives
    /\ transcript[n].text = "whole" => transcript[n].id \in 1 .. written[transcript[n].life]

LogInv ==
  /\ lives \in 0 .. MaxLives /\ (Alive => lives # 0)
  /\ written \in [1 .. MaxLives -> Nat]
  /\ transcript \in Seq(LineSet)
  /\ TornIsLast
  /\ LinesAreWritten
  /\ TranscriptSurvives

LEMMA LogInit == Init => LogInv
BY LifecycleAssumption DEF Init, LogInv, TornIsLast, LinesAreWritten, TranscriptSurvives, Alive

\* Steps that write no record and bring nobody to life.
LEMMA NothingLogged ==
  ASSUME LogInv, UNCHANGED <<lives, log>>, Alive' => Alive
  PROVE  LogInv'
BY DEF log, LogInv, TornIsLast, LinesAreWritten, TranscriptSurvives

\* What a record does to a file that ends in a torn line.
LEMMA AppendedToTorn ==
  ASSUME NEW lines \in Seq(LineSet), NEW l, NEW i, EndsTorn(lines)
  PROVE  /\ Appended(lines, l, i) \in Seq(LineSet)
         /\ Len(Appended(lines, l, i)) = Len(lines) /\ Len(lines) # 0
         /\ Appended(lines, l, i)[Len(lines)] = [lines[Len(lines)] EXCEPT !.text = "garbled"]
         /\ \A n \in 1 .. Len(lines) - 1 : Appended(lines, l, i)[n] = lines[n]
<1> DEFINE last == [lines[Len(lines)] EXCEPT !.text = "garbled"]
           front == SubSeq(lines, 1, Len(lines) - 1)
<1>1. Appended(lines, l, i) = Append(front, last)
  BY DEF Appended, Front, Last
<1>2. lines # <<>> /\ Len(lines) \in Nat /\ Len(lines) # 0
  BY DEF EndsTorn
<1>3. last \in LineSet
  <2>1. lines[Len(lines)] \in LineSet
    BY <1>2
  <2>2. QED
    BY <2>1 DEF LineSet
<1>4. /\ front \in Seq(LineSet) /\ Len(front) = Len(lines) - 1
      /\ \A n \in 1 .. Len(lines) - 1 : front[n] = lines[n]
  <2> DEFINE N == Len(lines) - 1
  <2>1. N \in Nat /\ \A n \in 1 .. N : lines[n] \in LineSet
    BY <1>2
  <2>2. /\ front \in Seq(LineSet)
        /\ Len(front) = IF 1 <= N THEN N - 1 + 1 ELSE 0
        /\ \A n \in 1 .. N - 1 + 1 : front[n] = lines[1 + n - 1]
    BY <2>1, SubSeqProperties
  <2> HIDE DEF front, N
  <2>3. 1 .. N - 1 + 1 = 1 .. N /\ \A n \in 1 .. N : 1 + n - 1 = n
    BY <2>1
  <2>4. Len(front) = N /\ \A n \in 1 .. N : front[n] = lines[n]
    BY <2>1, <2>2, <2>3
  <2>5. QED
    BY <2>2, <2>4 DEF N
<1> HIDE DEF last, front
<1>5. /\ Append(front, last) \in Seq(LineSet) /\ Len(Append(front, last)) = Len(lines)
      /\ Append(front, last)[Len(lines)] = last
      /\ \A n \in 1 .. Len(lines) - 1 : Append(front, last)[n] = lines[n]
  BY <1>2, <1>3, <1>4
<1>6. QED
  BY <1>1, <1>2, <1>5 DEF last

\* One more record behind whole lines: the next of this life, or the first of a new one.
LEMMA RecordKeeps ==
  ASSUME LogInv, ~EndsTorn(transcript), Alive',
         NEW l \in 1 .. MaxLives, NEW i \in Nat,
         \/ l = lives /\ i = written[lives] + 1
         \/ l = lives + 1 /\ i = 1,
         lives' = l, written' = [written EXCEPT ![l] = i],
         transcript' = Append(transcript, Line(l, i, "whole"))
  PROVE  LogInv'
<1> DEFINE new == Line(l, i, "whole")
           N == Len(transcript)
<1>1. /\ lives \in 0 .. MaxLives /\ lives \in Nat /\ l \in Nat /\ MaxLives \in Nat
      /\ lives <= l /\ transcript \in Seq(LineSet) /\ N \in Nat
      /\ written \in [1 .. MaxLives -> Nat]
  BY LifecycleAssumption DEF LogInv
<1>2. \A n \in 1 .. N : transcript[n].text # "torn"
  BY <1>1 DEF LogInv, TornIsLast, EndsTorn, Last
<1>3. /\ transcript' \in Seq(LineSet)
      /\ DOMAIN transcript = 1 .. N /\ DOMAIN transcript' = 1 .. N + 1
      /\ transcript'[N + 1] = new
      /\ \A n \in 1 .. N : transcript'[n] = transcript[n]
  <2>1. new \in LineSet
    BY <1>1 DEF Line, LineSet
  <2> HIDE DEF new
  <2>2. transcript' = Append(transcript, new)
    BY DEF new
  <2>3. QED
    BY <1>1, <2>1, <2>2
<1>4. /\ written' \in [1 .. MaxLives -> Nat] /\ written'[l] = i /\ i # 0
      /\ \A k \in 1 .. MaxLives : k # l => written'[k] = written[k]
      /\ l = lives => written[lives] < i
  BY <1>1
<1>5. new.life = l /\ new.id = i /\ new.text = "whole"
  BY DEF Line
<1>6. \A n \in 1 .. N :
        /\ transcript[n].life \in 1 .. lives /\ transcript[n].life \in 1 .. MaxLives
        /\ transcript[n].text = "whole" => transcript[n].id \in 1 .. written[transcript[n].life]
  <2>1. LinesAreWritten /\ \A k \in 1 .. lives : k \in 1 .. MaxLives
    BY <1>1 DEF LogInv
  <2>2. QED
    BY <1>3, <2>1 DEF LinesAreWritten
<1>7. \A n \in 1 .. N + 1 : n = N + 1 \/ n \in 1 .. N
  BY <1>1
<1>8. \A n \in 1 .. N : n \in 1 .. N + 1
  BY <1>1
<1> HIDE DEF new, N
<1>9. TornIsLast'
  BY <1>2, <1>3, <1>5, <1>7 DEF TornIsLast
<1>10. LinesAreWritten'
  <2> SUFFICES ASSUME NEW n \in DOMAIN transcript'
               PROVE  /\ transcript'[n].life \in 1 .. l
                      /\ transcript'[n].text = "whole"
                           => transcript'[n].id \in 1 .. written'[transcript'[n].life]
    BY DEF LinesAreWritten
  <2>1. CASE n \in 1 .. N
    <3> DEFINE k == transcript[n].life
    <3>1. /\ k \in 1 .. lives /\ k \in 1 .. MaxLives
          /\ transcript[n].text = "whole" => transcript[n].id \in 1 .. written[k]
      BY <2>1, <1>6
    <3>2. k \in 1 .. l /\ written[k] \in Nat /\ written'[k] \in Nat /\ written[k] <= written'[k]
      <4>1. k \in 1 .. l /\ written[k] \in Nat /\ written'[k] \in Nat
        BY <3>1, <1>1, <1>4
      <4>2. k = l => l = lives
        BY <3>1, <1>1
      <4>3. QED
        BY <4>1, <4>2, <3>1, <1>4
    <3> HIDE DEF k
    <3>3. transcript[n].text = "whole" => transcript[n].id \in 1 .. written'[k]
      BY <3>1, <3>2
    <3>4. QED
      BY <2>1, <3>2, <3>3, <1>3 DEF k
  <2>2. CASE n = N + 1
    BY <2>2, <1>1, <1>3, <1>4, <1>5
  <2>3. QED
    BY <2>1, <2>2, <1>3, <1>7
<1>11. TranscriptSurvives'
  <2>1. ASSUME NEW k \in 1 .. l, NEW j \in 1 .. written'[k]
        PROVE  \/ \E n \in DOMAIN transcript' : transcript'[n] = Line(k, j, "whole")
               \/ j = 1 /\ \E n \in DOMAIN transcript' :
                            transcript'[n].text = "garbled" /\ transcript'[n].life < k
    <3>1. k \in 1 .. MaxLives /\ written[k] \in Nat /\ written'[k] \in Nat
      BY <1>1, <1>4
    <3>2. CASE k \in 1 .. lives /\ j \in 1 .. written[k]
      <4>1. \/ \E n \in 1 .. N : transcript[n] = Line(k, j, "whole")
            \/ j = 1 /\ \E n \in 1 .. N : transcript[n].text = "garbled" /\ transcript[n].life < k
        BY <3>2, <1>3 DEF LogInv, TranscriptSurvives
      <4>2. QED
        BY <4>1, <1>3, <1>8
    <3>3. CASE ~(k \in 1 .. lives /\ j \in 1 .. written[k])
      <4>1. k = l
        BY <3>1, <3>3, <1>1, <1>4
      <4>2. j = i
        BY <3>1, <3>3, <4>1, <1>1, <1>4
      <4>3. QED
        BY <4>1, <4>2, <1>3 DEF new
    <3>4. QED
      BY <3>2, <3>3
  <2>2. ASSUME NEW m \in DOMAIN transcript', NEW n \in DOMAIN transcript',
               m < n, transcript'[m].text = "whole", transcript'[n].text = "whole"
        PROVE  \/ transcript'[m].life < transcript'[n].life
               \/ /\ transcript'[m].life = transcript'[n].life
                  /\ transcript'[m].id < transcript'[n].id
    <3>1. m \in 1 .. N /\ transcript[m].text = "whole" /\ transcript'[m] = transcript[m]
      BY <2>2, <1>1, <1>3
    <3>2. CASE n \in 1 .. N
      BY <2>2, <3>1, <3>2, <1>3 DEF LogInv, TranscriptSurvives
    <3>3. CASE n = N + 1
      <4>1. /\ transcript[m].life \in 1 .. lives /\ transcript[m].life \in 1 .. MaxLives
            /\ transcript[m].id \in 1 .. written[transcript[m].life]
        BY <3>1, <1>6
      <4>2. transcript'[n].life = l /\ transcript'[n].id = i
        BY <3>3, <1>3, <1>5
      <4>3. transcript[m].life = l => transcript[m].id < i
        BY <4>1, <1>1, <1>4
      <4>4. transcript[m].life = l \/ transcript[m].life < l
        BY <4>1, <1>1
      <4>5. QED
        BY <3>1, <4>2, <4>3, <4>4
    <3>4. QED
      BY <3>2, <3>3, <1>3, <1>7
  <2>3. QED
    BY <2>1, <2>2 DEF TranscriptSurvives
<1>12. QED
  BY <1>1, <1>3, <1>4, <1>9, <1>10, <1>11 DEF LogInv

\* The record of a running process.
LEMMA LogKeeps ==
  ASSUME LogInv, Alive, Alive', Log, UNCHANGED lives
  PROVE  LogInv'
<1>1. lives \in 1 .. MaxLives /\ written[lives] + 1 \in Nat
  BY LifecycleAssumption DEF LogInv
<1>2. ~EndsTorn(transcript)
  BY DEF LogInv, TornIsLast, EndsTorn, Last
<1>3. /\ transcript' = Append(transcript, Line(lives, written[lives] + 1, "whole"))
      /\ written' = [written EXCEPT ![lives] = written[lives] + 1]
  BY <1>2 DEF Log, Appended
<1>4. QED
  BY <1>1, <1>2, <1>3, RecordKeeps

\* The first record of a process that finds a torn line is lost to it.
LEMMA FirstRecordLost ==
  ASSUME LogInv, EndsTorn(transcript), lives < MaxLives, lives' = lives + 1,
         written' = [written EXCEPT ![lives + 1] = 1],
         transcript' = Appended(transcript, lives + 1, 1)
  PROVE  LogInv'
<1> DEFINE N == Len(transcript)
           l == lives + 1
<1>1. /\ lives \in 0 .. MaxLives /\ lives \in Nat /\ l \in 1 .. MaxLives /\ MaxLives \in Nat
      /\ transcript \in Seq(LineSet) /\ N \in Nat
      /\ written \in [1 .. MaxLives -> Nat]
  BY LifecycleAssumption DEF LogInv
<1>2. /\ transcript' \in Seq(LineSet) /\ N \in 1 .. N
      /\ DOMAIN transcript = 1 .. N /\ DOMAIN transcript' = 1 .. N
      /\ transcript'[N] = [transcript[N] EXCEPT !.text = "garbled"]
      /\ \A n \in 1 .. N - 1 : transcript'[n] = transcript[n]
  <2>1. /\ transcript' \in Seq(LineSet)
        /\ Len(transcript') = N /\ N # 0
        /\ transcript'[N] = [transcript[N] EXCEPT !.text = "garbled"]
        /\ \A n \in 1 .. N - 1 : transcript'[n] = transcript[n]
    BY <1>1, AppendedToTorn
  <2>2. QED
    BY <1>1, <2>1
<1>3. /\ \A n \in 1 .. N - 1 : transcript[n].text # "torn"
      /\ transcript[N].text = "torn"
      /\ \A n \in 1 .. N : transcript[n] \in LineSet
  BY <1>1, <1>2 DEF LogInv, TornIsLast, EndsTorn, Last
<1>4. transcript'[N].text = "garbled" /\ transcript'[N].life = transcript[N].life
  BY <1>2, <1>3 DEF LineSet
<1>5. \A n \in 1 .. N :
        /\ transcript[n].life \in 1 .. lives
        /\ transcript[n].text = "whole" => transcript[n].id \in 1 .. written[transcript[n].life]
  BY <1>2 DEF LogInv, LinesAreWritten
<1>6. /\ written' \in [1 .. MaxLives -> Nat] /\ written'[l] = 1
      /\ \A k \in 1 .. lives : written'[k] = written[k]
  BY <1>1
<1> HIDE DEF N, l
<1>7. \A n \in 1 .. N : n = N \/ n \in 1 .. N - 1
  BY <1>1
<1>8. TornIsLast'
  BY <1>2, <1>3, <1>4, <1>7 DEF TornIsLast
<1>9. LinesAreWritten'
  <2>1. \A n \in 1 .. N : transcript'[n].life = transcript[n].life
    BY <1>2, <1>4, <1>7
  <2>2. \A n \in 1 .. N : transcript'[n].text = "whole" =>
          transcript[n].text = "whole" /\ transcript'[n].id = transcript[n].id
    BY <1>2, <1>4, <1>7
  <2>3. \A k \in 1 .. lives : k \in 1 .. lives'
    BY <1>1
  <2>4. QED
    BY <2>1, <2>2, <2>3, <1>2, <1>5, <1>6 DEF LinesAreWritten
<1>10. TranscriptSurvives'
  <2>1. ASSUME NEW k \in 1 .. lives', NEW j \in 1 .. written'[k]
        PROVE  \/ \E n \in DOMAIN transcript' : transcript'[n] = Line(k, j, "whole")
               \/ j = 1 /\ \E n \in DOMAIN transcript' :
                            transcript'[n].text = "garbled" /\ transcript'[n].life < k
    <3>1. CASE k \in 1 .. lives
      <4>1. \/ \E n \in 1 .. N : transcript[n] = Line(k, j, "whole")
            \/ j = 1 /\ \E n \in 1 .. N : transcript[n].text = "garbled" /\ transcript[n].life < k
        BY <3>1, <1>2, <1>6 DEF LogInv, TranscriptSurvives
      <4>2. \A n \in 1 .. N : transcript[n] = Line(k, j, "whole") => n # N
        BY <1>3 DEF Line
      <4>3. \A n \in 1 .. N : transcript[n].text = "garbled" => n # N
        BY <1>3
      <4>4. QED
        BY <4>1, <4>2, <4>3, <1>2, <1>7
    <3>2. CASE k = l
      <4>1. j = 1
        BY <3>2, <1>6
      <4>2. transcript'[N].life < k
        BY <3>2, <1>1, <1>2, <1>4, <1>5 DEF l
      <4>3. QED
        BY <4>1, <4>2, <1>2, <1>4
    <3>3. QED
      BY <3>1, <3>2, <1>1 DEF l
  <2>2. ASSUME NEW m \in DOMAIN transcript', NEW n \in DOMAIN transcript',
               m < n, transcript'[m].text = "whole", transcript'[n].text = "whole"
        PROVE  \/ transcript'[m].life < transcript'[n].life
               \/ /\ transcript'[m].life = transcript'[n].life
                  /\ transcript'[m].id < transcript'[n].id
    <3>1. m \in 1 .. N - 1 /\ n \in 1 .. N - 1
      BY <2>2, <1>2, <1>4, <1>7
    <3>2. QED
      BY <2>2, <3>1, <1>2 DEF LogInv, TranscriptSurvives
  <2>3. QED
    BY <2>1, <2>2 DEF TranscriptSurvives
<1>11. QED
  BY <1>1, <1>2, <1>6, <1>8, <1>9, <1>10 DEF LogInv, l

LEMMA StartLogs ==
  ASSUME LogInv, NEW kind, Start(kind)
  PROVE  LogInv'
<1>1. /\ lives < MaxLives /\ lives' = lives + 1 /\ pc' = "loading"
      /\ transcript' = Appended(transcript, lives + 1, 1)
      /\ written' = [written EXCEPT ![lives + 1] = 1]
  BY DEF Start, Reopened
<1>2. CASE EndsTorn(transcript)
  BY <1>1, <1>2, FirstRecordLost
<1>3. CASE ~EndsTorn(transcript)
  <2>1. lives + 1 \in 1 .. MaxLives
    BY <1>1, LifecycleAssumption DEF LogInv
  <2>2. transcript' = Append(transcript, Line(lives + 1, 1, "whole"))
    BY <1>1, <1>3 DEF Appended
  <2>3. Alive'
    BY <1>1 DEF Alive
  <2>4. QED
    BY <1>1, <1>3, <2>1, <2>2, <2>3, RecordKeeps
<1>4. QED
  BY <1>2, <1>3

\* A process that dies may leave a torn line.
LEMMA TearKeeps ==
  ASSUME LogInv, NEW tears \in BOOLEAN, Die(tears)
  PROVE  LogInv'
<1>1. Alive /\ ~Alive' /\ UNCHANGED <<lives, written>>
  BY DEF Die, Alive
<1>2. CASE ~tears
  BY <1>1, <1>2, NothingLogged DEF Die, log
<1>3. CASE tears
  <2> DEFINE N == Len(transcript)
             torn == Line(lives, written[lives] + 1, "torn")
  <2>1. /\ lives \in 1 .. MaxLives /\ lives \in Nat /\ transcript \in Seq(LineSet) /\ N \in Nat
        /\ written \in [1 .. MaxLives -> Nat] /\ DOMAIN transcript = 1 .. N
    BY <1>1, LifecycleAssumption DEF LogInv
  <2>2. torn \in LineSet /\ torn.text = "torn" /\ torn.life = lives
    BY <2>1 DEF Line, LineSet
  <2> HIDE DEF torn
  <2>3. transcript' = Append(transcript, torn)
    BY <1>3 DEF Die, torn
  <2>4. /\ transcript' \in Seq(LineSet)
        /\ DOMAIN transcript' = 1 .. N + 1 /\ Len(transcript') = N + 1
        /\ transcript'[N + 1] = torn
        /\ \A n \in 1 .. N : transcript'[n] = transcript[n]
    BY <2>1, <2>2, <2>3
  <2> HIDE DEF N
  <2>5. \A n \in 1 .. N + 1 : n = N + 1 \/ n \in 1 .. N
    BY <2>1
  <2>6. TornIsLast'
    BY <1>1, <2>1, <2>4, <2>5 DEF LogInv, TornIsLast
  <2>7. LinesAreWritten'
    BY <1>1, <2>1, <2>2, <2>4, <2>5 DEF LogInv, LinesAreWritten
  <2>8. TranscriptSurvives'
    <3>1. \A n \in 1 .. N + 1 : transcript'[n].text = "whole" => n \in 1 .. N
      BY <2>2, <2>4, <2>5
    <3>2. \A n \in 1 .. N : n \in 1 .. N + 1
      BY <2>1
    <3>3. TranscriptSurvives /\ lives' = lives /\ written' = written
      BY <1>1 DEF LogInv
    <3>4. ASSUME NEW l \in 1 .. lives, NEW i \in 1 .. written[l]
          PROVE  \/ \E n \in DOMAIN transcript' : transcript'[n] = Line(l, i, "whole")
                 \/ i = 1 /\ \E n \in DOMAIN transcript' :
                              transcript'[n].text = "garbled" /\ transcript'[n].life < l
      <4>1. \/ \E n \in 1 .. N : transcript[n] = Line(l, i, "whole")
            \/ i = 1 /\ \E n \in 1 .. N : transcript[n].text = "garbled" /\ transcript[n].life < l
        BY <3>3, <2>1 DEF TranscriptSurvives
      <4>2. QED
        BY <4>1, <2>4, <3>2
    <3>5. QED
      BY <2>1, <2>4, <3>1, <3>3, <3>4 DEF TranscriptSurvives
  <2>9. QED
    BY <1>1, <2>1, <2>4, <2>6, <2>7, <2>8 DEF LogInv
<1>4. QED
  BY <1>2, <1>3

LEMMA LogNext == LogInv /\ [Next]_vars => LogInv'
<1> SUFFICES ASSUME LogInv, [Next]_vars PROVE LogInv'
  OBVIOUS
<1>1. CASE \E kind \in {"vllm", "stub"} : Start(kind)
  BY <1>1, StartLogs
<1>2. CASE \/ Load \/ PreflightEnds \/ ModelCall
           \/ \E e \in 1 .. Endpoints, conforms \in BOOLEAN : ProbeGuided(e, conforms)
           \/ \E terminal \in Terminals \ {"FAILED_PREFLIGHT"} : InvestigationEnds(terminal)
  <2>1. Alive /\ Alive' /\ Log /\ UNCHANGED lives
    BY <1>2 DEF Load, PreflightEnds, ModelCall, ProbeGuided, InvestigationEnds, Alive
  <2>2. QED
    BY <2>1, LogKeeps
<1>3. CASE \/ LoadRaises \/ RaisesInTry \/ CleanUp \/ CleanUpRaises
           \/ Truncate \/ Fill \/ WriteRaises \/ WriteNote
           \/ \E e \in 1 .. Endpoints, reachable, healthy, serves \in BOOLEAN :
                ProbeHttp(e, reachable, healthy, serves)
  <2>1. Alive /\ UNCHANGED <<lives, log>>
    BY <1>3 DEF LoadRaises, RaisesInTry, CleanUp, CleanUpRaises, Truncate, Fill, WriteRaises,
                WriteNote, ProbeHttp, Alive, Writing
  <2>2. QED
    BY <2>1, NothingLogged
<1>4. CASE \E tears \in BOOLEAN : Die(tears)
  BY <1>4, TearKeeps
<1>5. CASE UNCHANGED vars
  <2>1. UNCHANGED <<pc, lives, log>>
    BY <1>5 DEF vars, log
  <2>2. QED
    BY <2>1, NothingLogged DEF Alive
<1>6. QED
  BY <1>1, <1>2, <1>3, <1>4, <1>5 DEF Next

\* However many processes use the file after one another, and in the middle of whatever
\* line one of them is killed: each record that was written is a readable line, once, in
\* the order it was written, but for the first one of a process that finds a torn line.
THEOREM TranscriptIsKept == Spec => []TranscriptSurvives
<1>1. LogInv => TranscriptSurvives
  BY DEF LogInv
<1>2. QED
  BY <1>1, LogInit, LogNext, PTL DEF Spec

=============================================================================
