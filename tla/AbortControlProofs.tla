------------------------- MODULE AbortControlProofs -------------------------
(***************************************************************************)
(* Three promises of the control files, for every set of runs and clients: *)
(* a run at work can be found, an abort.py without a name never picks one  *)
(* of several, and one that is told which finds its request in place.      *)
(*                                                                         *)
(* The second needs the first, and two facts about a scan that takes its   *)
(* time: a run that has been at work all the while is in what the client   *)
(* has seen as soon as its directory has been looked at; and the set of    *)
(* such runs only shrinks, because a process that takes the id again is    *)
(* another life of it.                                                     *)
(*                                                                         *)
(* The third follows a run through its client: to be scanned, seen, to be  *)
(* read, being written, requested. What another client then writes over a  *)
(* request is still one, and lesser only if that client asked for less and *)
(* was not through when this one started.                                  *)
(***************************************************************************)
EXTENDS AbortControl, TLAPS, FiniteSetTheorems

\* The shape of what the proofs look into.
Shape ==
  /\ pc \in [Runs -> {"idle", "opening", "marking", "preflight", "investigating",
                      "stopping", "exited", "died"}]
  /\ lives \in [Runs -> Nat]
  /\ marker \in [Runs -> [content : {"absent", "torn", "written"}, life : Nat]]
  /\ DOMAIN client = Clients

\* The marker at each point of a run.
Marked ==
  \A r \in Runs :
    /\ pc[r] \in {"marking", "preflight", "investigating", "stopping"}
         => marker[r].life = lives[r]
    /\ AtWork(r) => marker[r].content = "written"
    /\ pc[r] = "exited" => marker[r].content = "absent"

VisibleInv == Shape /\ Marked

-----------------------------------------------------------------------------
(***************************************************************************)
(* A run at work can be found.                                             *)
(***************************************************************************)

LEMMA VisibleInit == Init => VisibleInv
  BY DEF Init, VisibleInv, Shape, Marked, AtWork, NoMarker

\* A step of a run changes its own entries only.
LEMMA VisibleRunStep ==
  ASSUME VisibleInv, NEW r \in Runs, RunStep(r)
  PROVE  VisibleInv'
<1> USE DEF VisibleInv, Shape, Marked, AtWork
<1>1. CASE Open(r)
  BY <1>1 DEF Open
<1>2. CASE TruncateMarker(r)
  BY <1>2 DEF TruncateMarker, Goes
<1>3. CASE FillMarker(r)
  BY <1>3 DEF FillMarker, Goes
<1>4. CASE PreflightOk(r)
  BY <1>4 DEF PreflightOk, Goes
<1>5. CASE PreflightFails(r)
  BY <1>5 DEF PreflightFails, Goes
<1>6. CASE Poll(r)
  BY <1>6 DEF Poll, Goes
<1>7. CASE LoopEnds(r)
  BY <1>7 DEF LoopEnds, Goes
<1>8. CASE ClearMarker(r)
  BY <1>8 DEF ClearMarker, Goes, NoMarker
<1>9. CASE Die(r)
  BY <1>9 DEF Die
<1>10. CASE PidRecycled(r)
  BY <1>10 DEF PidRecycled
<1>11. QED
  BY <1>1, <1>2, <1>3, <1>4, <1>5, <1>6, <1>7, <1>8, <1>9, <1>10 DEF RunStep

\* A client reads markers and writes none.
LEMMA ClientLeavesRunsAlone ==
  ASSUME NEW c \in Clients, ClientStep(c), DOMAIN client = Clients
  PROVE  UNCHANGED runVars /\ DOMAIN client' = Clients
  BY DEF ClientStep, Start, Scan, Read, Choose, TruncateSentinel, FillSentinel, Exit, ClientDies

LEMMA VisibleNext == VisibleInv /\ [Next]_vars => VisibleInv'
<1> SUFFICES ASSUME VisibleInv, [Next]_vars PROVE VisibleInv'
  OBVIOUS
<1>1. ASSUME NEW r \in Runs, RunStep(r) PROVE VisibleInv'
  BY <1>1, VisibleRunStep
<1>2. ASSUME NEW c \in Clients, ClientStep(c) PROVE VisibleInv'
  <2>1. UNCHANGED runVars /\ DOMAIN client' = Clients
    BY <1>2, ClientLeavesRunsAlone DEF VisibleInv, Shape
  <2>2. QED
    BY <2>1 DEF VisibleInv, Shape, Marked, AtWork, runVars
<1>3. CASE UNCHANGED vars
  BY <1>3 DEF vars, runVars, VisibleInv, Shape, Marked, AtWork
<1>4. QED
  BY <1>1, <1>2, <1>3 DEF Next

\* What active_runs would list of a run at work.
LEMMA AtWorkIsActive ==
  ASSUME VisibleInv, NEW r \in Runs, AtWork(r)
  PROVE  Active(r) /\ marker[r].life = lives[r]
  BY DEF VisibleInv, Marked, AtWork, Active, IsAlive, HasProcess

\* From before its preflight to the end of its finally clause a run can be found, and
\* one that went through that clause leaves no marker behind.
THEOREM RunsAreVisible == Spec => []RunningIsVisible
<1>1. VisibleInv => RunningIsVisible
  BY AtWorkIsActive DEF RunningIsVisible, VisibleInv, Marked
<1>2. QED
  BY <1>1, VisibleInit, VisibleNext, PTL DEF Spec

-----------------------------------------------------------------------------
(***************************************************************************)
(* abort.py refuses to guess.                                              *)
(***************************************************************************)

Process == [pc : {"idle", "scanning", "targets", "requesting", "filling", "done", "died"},
            mode : Modes \cup {"none"}, want : Wants \cup {"none"},
            unscanned : SUBSET Runs, seen : SUBSET Runs, todo : SUBSET Runs,
            current : Runs \cup {"none"}, acked : SUBSET Runs,
            present : SUBSET (Runs \X Nat), settled : SUBSET Clients]

Several(S) == \E a, b \in S : a # b

\* A life that was at work when the client started is over or still under way.
Remembers(c) ==
  \A r \in Runs : \A l \in Nat : <<r, l>> \in client[c].present =>
    /\ l <= lives[r]
    /\ l = lives[r] => pc[r] \notin {"idle", "opening", "marking"}

\* A scan that is under way has missed no run that was there all the while, and one that
\* is over has chosen nothing where there were several.
Careful(c) ==
  /\ client[c].pc = "idle" => client[c].want = "none"
  /\ client[c].pc \in {"requesting", "filling"} => client[c].current # "none"
  /\ (client[c].pc = "scanning" /\ client[c].want = "sole") =>
       /\ client[c].todo = {} /\ client[c].acked = {} /\ client[c].current = "none"
       /\ Throughout(c) \ client[c].unscanned \subseteq client[c].seen
  /\ (client[c].pc # "scanning" /\ client[c].want = "sole" /\ Several(Throughout(c))) =>
       client[c].todo = {} /\ client[c].acked = {} /\ client[c].current = "none"

CarefulInv ==
  /\ VisibleInv
  /\ client \in [Clients -> Process]
  /\ \A c \in Clients : Remembers(c) /\ Careful(c)

LEMMA SeveralIsMoreThanOne ==
  ASSUME NEW S, S \subseteq Runs
  PROVE  Cardinality(S) > 1 => Several(S)
<1> SUFFICES ASSUME Cardinality(S) > 1 PROVE Several(S)
  OBVIOUS
<1>1. IsFiniteSet(S) /\ Cardinality(S) \in Nat
  BY ControlAssumption, FS_Subset, FS_CardinalityType
<1>2. PICK a : a \in S
  BY <1>1, FS_EmptySet
<1>3. S # {a}
  BY FS_Singleton
<1>4. QED
  BY <1>2, <1>3 DEF Several

LEMMA SeveralIsNotOne ==
  ASSUME NEW S, S \subseteq Runs, Several(S)
  PROVE  Cardinality(S) # 1
<1>1. ~(\E x : S = {x})
  BY DEF Several
<1>2. IsFiniteSet(S)
  BY ControlAssumption, FS_Subset
<1>3. QED
  BY <1>1, <1>2, FS_Singleton

LEMMA CarefulInit == Init => CarefulInv
<1> SUFFICES ASSUME Init PROVE CarefulInv
  OBVIOUS
<1>1. VisibleInv
  BY VisibleInit
<1>2. client = [c \in Clients |-> Idle] /\ Idle \in Process
  BY DEF Init, Idle, Process
<1>3. \A c \in Clients : /\ client[c].pc = "idle" /\ client[c].want = "none"
                         /\ client[c].present = {}
  BY <1>2 DEF Idle
<1>4. \A c \in Clients : Remembers(c) /\ Careful(c)
  BY <1>3 DEF Remembers, Careful
<1>5. QED
  BY <1>1, <1>2, <1>4 DEF CarefulInv

\* Runs come, go and come back: the set of those that were there throughout shrinks.
LEMMA RunStepKeepsMemory ==
  ASSUME CarefulInv, NEW r \in Runs, RunStep(r), NEW c \in Clients
  PROVE  /\ client' = client
         /\ Remembers(c)'
         /\ Throughout(c)' \subseteq Throughout(c)
<1>1. client' = client
  BY DEF RunStep, Open, TruncateMarker, FillMarker, PreflightOk, PreflightFails, Poll,
         LoopEnds, ClearMarker, Die, PidRecycled
<1>2. DOMAIN pc = Runs /\ lives \in [Runs -> Nat] /\ Remembers(c)
  BY DEF CarefulInv, VisibleInv, Shape
<1>3. /\ \A q \in Runs : q # r => pc'[q] = pc[q] /\ lives'[q] = lives[q]
      /\ \/ lives'[r] = lives[r] + 1 /\ pc'[r] = "opening"
         \/ lives'[r] = lives[r] /\ pc[r] = "opening" /\ pc'[r] = "marking"
         \/ lives'[r] = lives[r] /\ pc[r] = "marking" /\ pc'[r] = "preflight"
         \/ /\ lives'[r] = lives[r]
            /\ pc'[r] \notin {"idle", "opening", "marking"}
            /\ AtWork(r)' => AtWork(r)
         \/ lives'[r] = lives[r] /\ pc'[r] = pc[r]
  <2>1. CASE Open(r)
    BY <2>1, <1>2 DEF Open
  <2>2. CASE TruncateMarker(r)
    BY <2>2, <1>2 DEF TruncateMarker, Goes
  <2>3. CASE FillMarker(r)
    BY <2>3, <1>2 DEF FillMarker, Goes
  <2>4. CASE PreflightOk(r) \/ PreflightFails(r) \/ Poll(r) \/ LoopEnds(r) \/ ClearMarker(r)
    BY <2>4, <1>2 DEF PreflightOk, PreflightFails, Poll, LoopEnds, ClearMarker, Goes, AtWork
  <2>5. CASE Die(r)
    BY <2>5, <1>2 DEF Die, AtWork
  <2>6. CASE PidRecycled(r)
    BY <2>6, <1>2 DEF PidRecycled
  <2>7. QED
    BY <2>1, <2>2, <2>3, <2>4, <2>5, <2>6 DEF RunStep
<1>4. Remembers(c)'
  BY <1>1, <1>2, <1>3 DEF Remembers
<1>5. ASSUME NEW q \in Throughout(c)'
      PROVE  q \in Throughout(c)
  <2>1. q \in Runs /\ <<q, lives'[q]>> \in client[c].present /\ AtWork(q)'
    BY <1>1 DEF Throughout
  <2>2. lives'[q] = lives[q]
    <3>1. lives'[q] \in Nat /\ lives[q] \in Nat
      BY <1>2, <1>3, <2>1
    <3>2. lives'[q] <= lives[q]
      BY <1>2, <2>1, <3>1 DEF Remembers
    <3>3. QED
      BY <1>3, <2>1, <3>1, <3>2
  <2>3. pc[q] \notin {"idle", "opening", "marking"}
    BY <1>2, <2>1, <2>2 DEF Remembers
  <2>4. AtWork(q)
    BY <1>2, <1>3, <2>1, <2>2, <2>3 DEF AtWork
  <2>5. QED
    BY <2>1, <2>2, <2>4 DEF Throughout
<1>6. QED
  BY <1>1, <1>4, <1>5

LEMMA RunStepStaysCareful ==
  ASSUME CarefulInv, NEW r \in Runs, RunStep(r)
  PROVE  CarefulInv'
<1>1. VisibleInv'
  BY VisibleRunStep DEF CarefulInv
<1>2. ASSUME NEW c \in Clients
      PROVE  client' = client /\ Remembers(c)' /\ Careful(c)'
  <2>1. client' = client /\ Remembers(c)' /\ Throughout(c)' \subseteq Throughout(c)
    BY RunStepKeepsMemory
  <2>2. Several(Throughout(c)') => Several(Throughout(c))
    BY <2>1 DEF Several
  <2>3. Careful(c)
    BY DEF CarefulInv
  <2>4. Careful(c)'
    BY <2>1, <2>2, <2>3 DEF Careful, Several
  <2>5. QED
    BY <2>1, <2>4
<1>3. client' \in [Clients -> Process]
  <2>1. CASE Clients = {}
    BY <2>1, VisibleRunStep DEF CarefulInv, RunStep, Open, TruncateMarker, FillMarker,
       PreflightOk, PreflightFails, Poll, LoopEnds, ClearMarker, Die, PidRecycled
  <2>2. CASE Clients # {}
    BY <2>2, <1>2 DEF CarefulInv
  <2>3. QED
    BY <2>1, <2>2
<1>4. QED
  BY <1>1, <1>2, <1>3 DEF CarefulInv

-----------------------------------------------------------------------------
(***************************************************************************)
(* The steps of a client.                                                  *)
(***************************************************************************)

\* A step of another process leaves a client as it was.
LEMMA OthersStayCareful ==
  ASSUME CarefulInv, UNCHANGED runVars, NEW d \in Clients, client'[d] = client[d]
  PROVE  Remembers(d)' /\ Careful(d)'
<1>1. Throughout(d)' = Throughout(d)
  BY DEF Throughout, AtWork, runVars
<1>2. QED
  BY <1>1 DEF CarefulInv, Remembers, Careful, Several, runVars

\* Choosing among several runs, without a name, is choosing none.
LEMMA SoleOfSeveralIsNone ==
  ASSUME NEW seen \in SUBSET Runs, Several(seen)
  PROVE  Targets("sole", seen) = {}
<1>1. "sole" \notin Runs /\ "sole" # "all"
  BY ControlAssumption
<1>2. Cardinality(seen) # 1
  BY SeveralIsNotOne
<1>3. QED
  BY <1>1, <1>2 DEF Targets

LEMMA ClientStepStaysCareful ==
  ASSUME CarefulInv, NEW c \in Clients, ClientStep(c)
  PROVE  CarefulInv'
<1> DEFINE p == client[c]
           q == client'[c]
<1>1. UNCHANGED runVars /\ VisibleInv'
  <2>1. UNCHANGED runVars /\ DOMAIN client' = Clients
    BY ClientLeavesRunsAlone DEF CarefulInv, VisibleInv, Shape
  <2>2. QED
    BY <2>1 DEF CarefulInv, VisibleInv, Shape, Marked, AtWork, runVars
<1>2. /\ client \in [Clients -> Process] /\ p \in Process
      /\ Remembers(c) /\ Careful(c) /\ Shape
  BY DEF CarefulInv, VisibleInv
<1>3. /\ \A r \in Runs : pc'[r] = pc[r] /\ lives'[r] = lives[r] /\ (AtWork(r)' <=> AtWork(r))
  BY <1>1 DEF runVars, AtWork
\* It is enough to look at what the client becomes.
<1>4. SUFFICES /\ client' = [client EXCEPT ![c] = q] /\ q \in Process
               /\ Remembers(c)' /\ Careful(c)'
  <2>1. SUFFICES ASSUME /\ client' = [client EXCEPT ![c] = q] /\ q \in Process
                        /\ Remembers(c)' /\ Careful(c)'
                 PROVE  CarefulInv'
    OBVIOUS
  <2>2. client' \in [Clients -> Process]
    BY <2>1, <1>2
  <2>3. ASSUME NEW d \in Clients PROVE Remembers(d)' /\ Careful(d)'
    <3>1. CASE d = c
      BY <3>1, <2>1
    <3>2. CASE d # c
      <4>1. client'[d] = client[d]
        BY <3>2, <2>1, <1>2
      <4>2. QED
        BY <4>1, <1>1, OthersStayCareful
    <3>3. QED
      BY <3>1, <3>2
  <2>4. QED
    BY <2>2, <2>3, <1>1 DEF CarefulInv
\* As long as it remembers the same, the runs that were there throughout are the same.
<1>5. q.present = p.present => Remembers(c)' /\ Throughout(c)' = Throughout(c)
  BY <1>2, <1>3 DEF Remembers, Throughout
<1>6. CASE \E mode \in Modes, want \in Wants : Start(c, mode, want)
  <2>1. PICK mode \in Modes, want \in Wants : Start(c, mode, want)
    BY <1>6
  <2> DEFINE there == {<<r, lives[r]>> : r \in {s \in Runs : AtWork(s)}}
             through == {o \in Clients : Through(o)}
  <2>2. /\ client' = [client EXCEPT ![c] = q]
        /\ q = [Idle EXCEPT !.pc = "scanning", !.mode = mode, !.want = want,
                            !.unscanned = Runs, !.present = there, !.settled = through]
    BY <2>1, <1>2 DEF Start
  <2>3. there \in SUBSET (Runs \X Nat) /\ through \in SUBSET Clients
    BY <1>2 DEF Shape
  <2>4. /\ q.pc = "scanning" /\ q.mode = mode /\ q.want = want /\ q.unscanned = Runs
        /\ q.present = there /\ q.todo = {} /\ q.acked = {} /\ q.current = "none" /\ q.seen = {}
        /\ q.settled = through
    BY <2>2 DEF Idle
  <2>5. q \in Process
    BY <2>2, <2>3 DEF Idle, Process
  <2>6. Remembers(c)'
    <3>1. ASSUME NEW r \in Runs, NEW l \in Nat, <<r, l>> \in there
          PROVE  l = lives[r] /\ AtWork(r)
      BY <3>1
    <3>2. QED
      BY <3>1, <2>4, <1>2, <1>3 DEF Remembers, AtWork, Shape
  <2>7. Careful(c)'
    BY <2>4 DEF Careful, Throughout
  <2>8. QED
    BY <2>2, <2>5, <2>6, <2>7
<1>7. CASE \E r \in Runs : Scan(c, r)
  <2>1. PICK r \in Runs : Scan(c, r)
    BY <1>7
  <2>2. /\ p.pc = "scanning"
        /\ client' = [client EXCEPT ![c] = q]
        /\ q = [p EXCEPT !.unscanned = @ \ {r},
                         !.seen = IF Active(r) THEN @ \cup {r} ELSE @]
    BY <2>1, <1>2 DEF Scan, Process
  <2>3. /\ q.pc = p.pc /\ q.want = p.want /\ q.present = p.present /\ q.todo = p.todo
        /\ q.acked = p.acked /\ q.current = p.current
        /\ q.unscanned = p.unscanned \ {r}
        /\ q.seen = IF Active(r) THEN p.seen \cup {r} ELSE p.seen
    BY <2>2, <1>2 DEF Process
  <2>4. q \in Process
    <3> DEFINE rest == p.unscanned \ {r}
               found == IF Active(r) THEN p.seen \cup {r} ELSE p.seen
    <3>1. q = [p EXCEPT !.unscanned = rest, !.seen = found]
      BY <2>2, <1>2 DEF Process
    <3>2. rest \in SUBSET Runs /\ found \in SUBSET Runs
      BY <1>2 DEF Process
    <3> HIDE DEF rest, found
    <3>3. QED
      BY <3>1, <3>2, <1>2 DEF Process
  <2>5. AtWork(r) => Active(r)
    BY AtWorkIsActive DEF CarefulInv
  <2>6. p.want = "sole" => Throughout(c) \ q.unscanned \subseteq q.seen
    <3> SUFFICES ASSUME p.want = "sole", NEW x \in Throughout(c), x \notin q.unscanned
                 PROVE  x \in q.seen
      OBVIOUS
    <3>1. CASE x = r
      BY <3>1, <2>3, <2>5 DEF Throughout
    <3>2. CASE x # r
      BY <3>2, <2>2, <2>3, <1>2 DEF Careful
    <3>3. QED
      BY <3>1, <3>2
  <2>7. Careful(c)'
    BY <2>2, <2>3, <2>6, <1>2, <1>5 DEF Careful
  <2>8. QED
    BY <2>2, <2>3, <2>4, <2>7, <1>5
<1>8. CASE Choose(c)
  <2>1. /\ p.pc = "scanning" /\ p.unscanned = {}
        /\ client' = [client EXCEPT ![c] = q]
        /\ q = [p EXCEPT !.todo = Targets(p.want, p.seen), !.seen = {}, !.pc = "targets"]
    BY <1>8, <1>2 DEF Choose, Process
  <2>2. /\ q.pc = "targets" /\ q.want = p.want /\ q.present = p.present
        /\ q.todo = Targets(p.want, p.seen) /\ q.acked = p.acked /\ q.current = p.current
    BY <2>1, <1>2 DEF Process
  <2>3. q \in Process
    <3>1. Targets(p.want, p.seen) \in SUBSET Runs
      BY <1>2 DEF Process, Targets
    <3>2. QED
      BY <2>1, <3>1, <1>2 DEF Process
  <2>4. ASSUME q.want = "sole", Several(Throughout(c))
        PROVE  q.todo = {} /\ q.acked = {} /\ q.current = "none"
    <3>1. Throughout(c) \subseteq p.seen /\ p.acked = {} /\ p.current = "none"
      BY <2>1, <2>2, <2>4, <1>2 DEF Careful
    <3>2. Several(p.seen) /\ p.seen \in SUBSET Runs
      BY <3>1, <2>4, <1>2 DEF Several, Process
    <3>3. QED
      BY <3>1, <3>2, <2>2, <2>4, SoleOfSeveralIsNone
  <2>5. Careful(c)'
    BY <2>2, <2>4, <1>5 DEF Careful, Several
  <2>6. QED
    BY <2>1, <2>2, <2>3, <2>5, <1>5
<1>9. CASE \E r \in Runs : Read(c, r)
  <2>1. PICK r \in Runs : Read(c, r)
    BY <1>9
  <2>2. PICK writes \in BOOLEAN :
          /\ p.pc = "targets" /\ r \in p.todo
          /\ client' = [client EXCEPT ![c] = q]
          /\ q = [p EXCEPT !.todo = @ \ {r}, !.pc = IF writes THEN "requesting" ELSE @,
                           !.current = IF writes THEN r ELSE "none"]
    BY <2>1, <1>2 DEF Read, Process, Overrides
  <2>3. /\ q.pc = (IF writes THEN "requesting" ELSE "targets") /\ q.want = p.want
        /\ q.present = p.present /\ q.acked = p.acked
        /\ q.current = IF writes THEN r ELSE "none"
    BY <2>2, <1>2 DEF Process
  <2>4. q \in Process
    <3> DEFINE rest == p.todo \ {r}
               next == IF writes THEN "requesting" ELSE p.pc
               current == IF writes THEN r ELSE "none"
    <3>1. q = [p EXCEPT !.todo = rest, !.pc = next, !.current = current]
      BY <2>2, <1>2 DEF Process
    <3>2. /\ rest \in SUBSET Runs /\ current \in Runs \cup {"none"}
          /\ next \in {"requesting", "targets"}
      BY <2>2, <1>2 DEF Process
    <3> HIDE DEF rest, next, current
    <3>3. QED
      BY <3>1, <3>2, <1>2 DEF Process
  <2>5. r # "none"
    BY ControlAssumption
  <2>6. ~(p.want = "sole" /\ Several(Throughout(c)))
    BY <2>2, <1>2 DEF Careful
  <2>7. Careful(c)'
    BY <2>3, <2>5, <2>6, <1>5 DEF Careful, Several
  <2>8. QED
    BY <2>2, <2>3, <2>4, <2>7, <1>5
<1>10. CASE TruncateSentinel(c)
  <2>1. /\ p.pc = "requesting"
        /\ client' = [client EXCEPT ![c] = q]
        /\ q = [p EXCEPT !.pc = "filling"]
    BY <1>10, <1>2 DEF TruncateSentinel, Process
  <2>2. /\ q.pc = "filling" /\ q.want = p.want /\ q.present = p.present /\ q.todo = p.todo
        /\ q.acked = p.acked /\ q.current = p.current
    BY <2>1, <1>2 DEF Process
  <2>3. q \in Process
    BY <2>1, <1>2 DEF Process
  <2>4. Careful(c)'
    BY <2>1, <2>2, <1>2, <1>5 DEF Careful, Several
  <2>5. QED
    BY <2>1, <2>2, <2>3, <2>4, <1>5
<1>11. CASE FillSentinel(c)
  <2>1. /\ p.pc = "filling"
        /\ client' = [client EXCEPT ![c] = q]
        /\ q = [p EXCEPT !.pc = "targets", !.current = "none", !.acked = @ \cup {p.current}]
    BY <1>11, <1>2 DEF FillSentinel, Process
  <2>2. p.current \in Runs /\ p.current # "none"
    BY <2>1, <1>2 DEF Careful, Process
  <2>3. q.pc = "targets" /\ q.want = p.want /\ q.present = p.present
    BY <2>1, <1>2 DEF Process
  <2>4. q \in Process
    <3> DEFINE acked == p.acked \cup {p.current}
    <3>1. q = [p EXCEPT !.pc = "targets", !.current = "none", !.acked = acked]
      BY <2>1, <1>2 DEF Process
    <3>2. acked \in SUBSET Runs
      BY <2>2, <1>2 DEF Process
    <3> HIDE DEF acked
    <3>3. QED
      BY <3>1, <3>2, <1>2 DEF Process
  <2>5. ~(p.want = "sole" /\ Several(Throughout(c)))
    BY <2>1, <2>2, <1>2 DEF Careful
  <2>6. Careful(c)'
    BY <2>3, <2>5, <1>5 DEF Careful, Several
  <2>7. QED
    BY <2>1, <2>3, <2>4, <2>6, <1>5
<1>12. CASE Exit(c)
  <2>1. /\ p.pc = "targets"
        /\ client' = [client EXCEPT ![c] = q]
        /\ q = [p EXCEPT !.pc = "done"]
    BY <1>12, <1>2 DEF Exit, Process
  <2>2. /\ q.pc = "done" /\ q.want = p.want /\ q.present = p.present /\ q.todo = p.todo
        /\ q.acked = p.acked /\ q.current = p.current
    BY <2>1, <1>2 DEF Process
  <2>3. q \in Process
    BY <2>1, <1>2 DEF Process
  <2>4. Careful(c)'
    BY <2>1, <2>2, <1>2, <1>5 DEF Careful, Several
  <2>5. QED
    BY <2>1, <2>2, <2>3, <2>4, <1>5
<1>13. CASE ClientDies(c)
  <2>1. /\ p.pc \in {"scanning", "targets", "requesting", "filling"}
        /\ client' = [client EXCEPT ![c] = q]
        /\ q = [p EXCEPT !.pc = "died", !.unscanned = {}, !.seen = {}, !.todo = {},
                         !.current = "none"]
    BY <1>13, <1>2 DEF ClientDies, Process
  <2>2. /\ q.pc = "died" /\ q.want = p.want /\ q.present = p.present /\ q.todo = {}
        /\ q.acked = p.acked /\ q.current = "none"
    BY <2>1, <1>2 DEF Process
  <2>3. q \in Process
    BY <2>1, <1>2 DEF Process
  <2>4. Careful(c)'
    BY <2>1, <2>2, <1>2, <1>5 DEF Careful, Several
  <2>5. QED
    BY <2>1, <2>2, <2>3, <2>4, <1>5
<1>14. QED
  BY <1>6, <1>7, <1>8, <1>9, <1>10, <1>11, <1>12, <1>13 DEF ClientStep

LEMMA CarefulNext == CarefulInv /\ [Next]_vars => CarefulInv'
<1> SUFFICES ASSUME CarefulInv, [Next]_vars PROVE CarefulInv'
  OBVIOUS
<1>1. ASSUME NEW r \in Runs, RunStep(r) PROVE CarefulInv'
  BY <1>1, RunStepStaysCareful
<1>2. ASSUME NEW c \in Clients, ClientStep(c) PROVE CarefulInv'
  BY <1>2, ClientStepStaysCareful
<1>3. CASE UNCHANGED vars
  <2>1. UNCHANGED runVars /\ client' = client
    BY <1>3 DEF vars
  <2>2. VisibleInv'
    BY <1>3, VisibleNext DEF CarefulInv
  <2>3. \A d \in Clients : Remembers(d)' /\ Careful(d)'
    BY <2>1, OthersStayCareful
  <2>4. QED
    BY <2>1, <2>2, <2>3 DEF CarefulInv
<1>4. QED
  BY <1>1, <1>2, <1>3 DEF Next

\* With two runs at work all the while, an abort.py that names none leaves all alone,
\* however its scan falls between their starts, ends and deaths.
THEOREM NeverGuesses == Spec => []RefusesToGuess
<1>1. CarefulInv => RefusesToGuess
  <2> SUFFICES ASSUME CarefulInv, NEW c \in Clients, client[c].want = "sole",
                      Cardinality(Throughout(c)) > 1
               PROVE  client[c].acked = {} /\ client[c].current = "none"
    BY DEF RefusesToGuess
  <2>1. Several(Throughout(c))
    BY SeveralIsMoreThanOne DEF Throughout
  <2>2. QED
    BY <2>1 DEF CarefulInv, Careful
<1>2. QED
  BY <1>1, CarefulInit, CarefulNext, PTL DEF Spec

-----------------------------------------------------------------------------
(***************************************************************************)
(* A request arrives. While abort.py is at work, a run that it is to stop  *)
(* and that was there all the while is still to be scanned, or seen, or to *)
(* be read, or being written, or there is a request in its directory that  *)
(* this client wrote or found good enough. What other clients write over   *)
(* that is a request too, and a lesser one only if they were not through   *)
(* when this one started.                                                  *)
(***************************************************************************)

\* The directory of r holds a request that is what c asked for, or what another client
\* that asked for less could write over it.
Heard(c, r) ==
  /\ sentinel[r] # "absent"
  /\ client[c].mode = "hard" /\ sentinel[r] = "graceful"
       => \E o \in Clients \ client[c].settled : client[o].mode = "graceful"

InHand(c, r) ==
  client[c].want \in {"all", r} =>
    /\ client[c].pc = "scanning" => r \in client[c].unscanned \cup client[c].seen
    /\ client[c].pc \in {"targets", "requesting", "filling"} =>
         \/ r \in client[c].todo
         \/ client[c].pc # "targets" /\ r = client[c].current
         \/ Heard(c, r)
    /\ client[c].pc = "done" => Heard(c, r)

\* What a client has asked for it asks for to its end, and those that were through when
\* it started still are.
Steadfast(c) ==
  /\ client[c].pc = "idle" => client[c].mode = "none"
  /\ client[c].pc # "idle" => client[c].mode \in Modes
  /\ \A o \in client[c].settled : Through(o)

ReachInv ==
  /\ CarefulInv
  /\ sentinel \in [Runs -> Modes \cup {"absent", "torn"}]
  /\ \A c \in Clients : Steadfast(c) /\ \A r \in Throughout(c) : InHand(c, r)

LEMMA ReachInit == Init => ReachInv
<1> SUFFICES ASSUME Init PROVE ReachInv
  OBVIOUS
<1>1. \A c \in Clients : /\ client[c].pc = "idle" /\ client[c].mode = "none"
                         /\ client[c].present = {} /\ client[c].settled = {}
  BY DEF Init, Idle
<1>2. \A c \in Clients : Steadfast(c) /\ Throughout(c) = {}
  BY <1>1 DEF Steadfast, Throughout
<1>3. sentinel \in [Runs -> Modes \cup {"absent", "torn"}]
  BY DEF Init
<1>4. QED
  BY <1>2, <1>3, CarefulInit DEF ReachInv

\* What a client writes takes no request away from another.
LEMMA StillHeard ==
  ASSUME ReachInv, NEW c \in Clients, NEW d \in Clients, NEW r \in Runs, Heard(d, r),
         \A o \in Clients : client[o].mode = "graceful" => client'[o].mode = "graceful",
         client'[d].mode = client[d].mode, client'[d].settled = client[d].settled,
         \/ sentinel'[r] = sentinel[r]
         \/ sentinel'[r] = "torn"
         \/ sentinel'[r] = client[c].mode /\ client[c].pc = "filling"
  PROVE  Heard(d, r)'
<1>1. CASE sentinel'[r] = sentinel[r]
  BY <1>1 DEF Heard
<1>2. CASE sentinel'[r] = "torn"
  BY <1>2 DEF Heard
<1>3. CASE sentinel'[r] = client[c].mode /\ client[c].pc = "filling"
  <2>1. client[c].mode \in Modes
    BY <1>3 DEF ReachInv, Steadfast
  <2>2. c \notin client[d].settled
    BY <1>3 DEF ReachInv, Steadfast, Through
  <2>3. QED
    BY <1>3, <2>1, <2>2 DEF Heard, Modes
<1>4. QED
  BY <1>1, <1>2, <1>3

\* A run that no longer is what it was asks for nothing.
LEMMA RunStepReaches ==
  ASSUME ReachInv, NEW r \in Runs, RunStep(r)
  PROVE  ReachInv'
<1>1. CarefulInv'
  BY RunStepStaysCareful DEF ReachInv
<1>2. UNCHANGED <<client, sentinel>>
  BY DEF RunStep, Open, TruncateMarker, FillMarker, PreflightOk, PreflightFails, Poll,
         LoopEnds, ClearMarker, Die, PidRecycled
<1>3. \A c \in Clients : Throughout(c)' \subseteq Throughout(c)
  BY RunStepKeepsMemory DEF ReachInv
<1>4. QED
  BY <1>1, <1>2, <1>3 DEF ReachInv, Steadfast, Through, InHand, Heard

\* What every step of a client has in common.
LEMMA ClientMoves ==
  ASSUME ReachInv, NEW c \in Clients, ClientStep(c)
  PROVE  /\ \A d \in Clients : d # c => client'[d] = client[d]
         /\ \/ /\ client[c].pc = "idle" /\ client'[c].pc = "scanning"
               /\ client'[c].mode \in Modes /\ client'[c].unscanned = Runs
               /\ client'[c].settled = {o \in Clients : Through(o)}
               /\ sentinel' = sentinel
            \/ /\ client[c].pc \notin {"idle", "done", "died"} /\ client'[c].pc # "idle"
               /\ client'[c].mode = client[c].mode /\ client'[c].want = client[c].want
               /\ client'[c].present = client[c].present
               /\ client'[c].settled = client[c].settled
         /\ \A r \in Runs :
              \/ sentinel'[r] = sentinel[r]
              \/ sentinel'[r] = "torn"
              \/ sentinel'[r] = client[c].mode /\ client[c].pc = "filling"
         /\ sentinel' \in [Runs -> Modes \cup {"absent", "torn"}]
<1>1. /\ client \in [Clients -> Process] /\ client[c] \in Process
      /\ sentinel \in [Runs -> Modes \cup {"absent", "torn"}]
      /\ client[c].pc # "idle" => client[c].mode \in Modes
  BY DEF ReachInv, CarefulInv, Steadfast
<1>2. CASE \E mode \in Modes, want \in Wants : Start(c, mode, want)
  BY <1>2, <1>1 DEF Start, Idle
<1>3. CASE \E r \in Runs : Scan(c, r)
  BY <1>3, <1>1 DEF Scan, Process
<1>4. CASE Choose(c)
  BY <1>4, <1>1 DEF Choose, Process
<1>5. CASE \E r \in Runs : Read(c, r)
  <2>1. PICK r \in Runs, writes \in BOOLEAN :
          /\ client[c].pc = "targets" /\ sentinel' = sentinel
          /\ client' = [client EXCEPT ![c].todo = @ \ {r},
                                      ![c].pc = IF writes THEN "requesting" ELSE @,
                                      ![c].current = IF writes THEN r ELSE "none"]
    BY <1>5 DEF Read, Overrides
  <2>2. QED
    BY <2>1, <1>1 DEF Process
<1>6. CASE TruncateSentinel(c)
  BY <1>6, <1>1 DEF TruncateSentinel, Process
<1>7. CASE FillSentinel(c)
  BY <1>7, <1>1 DEF FillSentinel, Process
<1>8. CASE Exit(c)
  BY <1>8, <1>1 DEF Exit, Process
<1>9. CASE ClientDies(c)
  BY <1>9, <1>1 DEF ClientDies, Process
<1>10. QED
  BY <1>2, <1>3, <1>4, <1>5, <1>6, <1>7, <1>8, <1>9 DEF ClientStep

\* Choosing among the runs that were seen is choosing those that were asked for.
LEMMA AskedForIsChosen ==
  ASSUME NEW want, NEW seen, NEW r \in seen, r \in Runs, want \in {"all", r}
  PROVE  r \in Targets(want, seen)
BY ControlAssumption DEF Targets

\* Finding a request good enough is finding one.
LEMMA FoundIsHeard ==
  ASSUME ReachInv, NEW c \in Clients, NEW r \in Runs, client[c].pc = "targets",
         ~Overrides(client[c].mode, ReadAbort(sentinel[r]))
  PROVE  Heard(c, r)
<1>1. sentinel[r] \in {"graceful", "hard", "absent", "torn"}
  BY DEF ReachInv, Modes
<1>2. QED
  BY <1>1 DEF Heard, Overrides, ReadAbort

LEMMA ClientStepReaches ==
  ASSUME ReachInv, NEW c \in Clients, ClientStep(c)
  PROVE  ReachInv'
<1> DEFINE p == client[c]
           q == client'[c]
<1>1. CarefulInv' /\ UNCHANGED runVars
  BY ClientStepStaysCareful, ClientLeavesRunsAlone DEF ReachInv, CarefulInv, VisibleInv, Shape
<1>2. /\ client \in [Clients -> Process] /\ p \in Process /\ Steadfast(c)
      /\ sentinel \in [Runs -> Modes \cup {"absent", "torn"}]
  BY DEF ReachInv, CarefulInv
<1>3. /\ \A d \in Clients : d # c => client'[d] = client[d]
      /\ \/ /\ p.pc = "idle" /\ q.pc = "scanning" /\ q.mode \in Modes /\ q.unscanned = Runs
            /\ q.settled = {o \in Clients : Through(o)} /\ sentinel' = sentinel
         \/ /\ p.pc \notin {"idle", "done", "died"} /\ q.pc # "idle" /\ q.mode = p.mode
            /\ q.want = p.want /\ q.present = p.present /\ q.settled = p.settled
      /\ \A r \in Runs : \/ sentinel'[r] = sentinel[r]
                         \/ sentinel'[r] = "torn"
                         \/ sentinel'[r] = p.mode /\ p.pc = "filling"
      /\ sentinel' \in [Runs -> Modes \cup {"absent", "torn"}]
  BY ClientMoves
<1>4. \A o \in Clients : Through(o) => Through(o)'
  BY <1>3 DEF Through
<1>5. \A o \in Clients : client[o].mode = "graceful" => client'[o].mode = "graceful"
  BY <1>2, <1>3 DEF Steadfast
<1>6. \A d \in Clients : Steadfast(d)'
  <2>1. Steadfast(c)'
    BY <1>2, <1>3, <1>4 DEF Steadfast, Process
  <2>2. ASSUME NEW d \in Clients, d # c PROVE Steadfast(d)'
    <3>1. client'[d] = client[d] /\ Steadfast(d) /\ client[d].settled \subseteq Clients
      BY <2>2, <1>2, <1>3 DEF ReachInv, Process
    <3>2. QED
      BY <3>1, <1>4 DEF Steadfast
  <2>3. QED
    BY <2>1, <2>2
<1>7. ASSUME NEW d \in Clients, NEW r \in Runs, Heard(d, r), client'[d].mode = client[d].mode,
             client'[d].settled = client[d].settled
      PROVE  Heard(d, r)'
  BY <1>3, <1>5, <1>7, StillHeard
<1>8. ASSUME NEW d \in Clients, d # c, NEW r \in Throughout(d)'
      PROVE  InHand(d, r)'
  <2>1. client'[d] = client[d]
    BY <1>3, <1>8
  <2>2. r \in Throughout(d) /\ r \in Runs
    BY <2>1, <1>1, <1>8 DEF Throughout, AtWork, runVars
  <2>3. InHand(d, r)
    BY <2>2 DEF ReachInv
  <2>4. Heard(d, r) => Heard(d, r)'
    BY <2>1, <2>2, <1>7
  <2>5. QED
    BY <2>1, <2>3, <2>4 DEF InHand
<1>9. ASSUME NEW r \in Throughout(c)', q.want \in {"all", r}
      PROVE  InHand(c, r)'
  <2>1. CASE p.pc = "idle"
    BY <2>1, <1>3, <1>9 DEF InHand, Throughout
  <2> SUFFICES ASSUME p.pc # "idle" PROVE InHand(c, r)'
    BY <2>1
  <2>2. /\ q.mode = p.mode /\ q.want = p.want /\ q.present = p.present
        /\ q.settled = p.settled
    BY <1>3
  <2>3. r \in Throughout(c) /\ r \in Runs /\ AtWork(r)
    BY <2>2, <1>1, <1>9 DEF Throughout, AtWork, runVars
  <2>4. InHand(c, r) /\ p.want \in {"all", r}
    BY <2>2, <2>3, <1>9 DEF ReachInv
  <2>5. Heard(c, r) => Heard(c, r)'
    BY <2>2, <2>3, <1>7
  <2>6. CASE \E mode \in Modes, want \in Wants : Start(c, mode, want)
    BY <2>6 DEF Start
  <2>7. CASE \E s \in Runs : Scan(c, s)
    <3>1. PICK s \in Runs : Scan(c, s)
      BY <2>7
    <3>2. /\ p.pc = "scanning" /\ q.pc = "scanning" /\ q.unscanned = p.unscanned \ {s}
          /\ q.seen = IF Active(s) THEN p.seen \cup {s} ELSE p.seen
      BY <3>1, <1>2 DEF Scan, Process
    <3>3. Active(r)
      BY <2>3, AtWorkIsActive DEF ReachInv, CarefulInv
    <3>4. r \in q.unscanned \cup q.seen
      BY <3>2, <3>3, <2>4 DEF InHand
    <3>5. QED
      BY <3>2, <3>4 DEF InHand
  <2>8. CASE Choose(c)
    <3>1. /\ p.pc = "scanning" /\ p.unscanned = {} /\ q.pc = "targets"
          /\ q.todo = Targets(p.want, p.seen)
      BY <2>8, <1>2 DEF Choose, Process
    <3>2. r \in p.seen
      BY <3>1, <2>4 DEF InHand
    <3>3. r \in q.todo
      BY <3>1, <3>2, <2>3, <2>4, AskedForIsChosen
    <3>4. QED
      BY <3>1, <3>3 DEF InHand
  <2>9. CASE \E s \in Runs : Read(c, s)
    <3>1. PICK s \in Runs : Read(c, s)
      BY <2>9
    <3> DEFINE writes == Overrides(p.mode, ReadAbort(sentinel[s]))
    <3>2. /\ p.pc = "targets" /\ q.todo = p.todo \ {s}
          /\ q.pc = IF writes THEN "requesting" ELSE "targets"
          /\ q.current = IF writes THEN s ELSE "none"
      BY <3>1, <1>2 DEF Read, Process
    <3>3. CASE r = s /\ ~writes
      <4>1. Heard(c, r)
        BY <3>2, <3>3, <2>3, FoundIsHeard
      <4>2. QED
        BY <4>1, <3>2, <3>3, <2>5 DEF InHand
    <3>4. CASE r = s /\ writes
      BY <3>2, <3>4 DEF InHand
    <3> HIDE DEF writes
    <3>5. CASE r # s
      BY <3>2, <3>5, <2>4, <2>5 DEF InHand
    <3>6. QED
      BY <3>3, <3>4, <3>5 DEF writes, Overrides
  <2>10. CASE TruncateSentinel(c)
    <3>1. /\ p.pc = "requesting" /\ q.pc = "filling" /\ q.todo = p.todo
          /\ q.current = p.current
      BY <2>10, <1>2 DEF TruncateSentinel, Process
    <3>2. QED
      BY <3>1, <2>4, <2>5 DEF InHand
  <2>11. CASE FillSentinel(c)
    <3>1. /\ p.pc = "filling" /\ q.pc = "targets" /\ q.todo = p.todo
          /\ sentinel' = [sentinel EXCEPT ![p.current] = p.mode]
      BY <2>11, <1>2 DEF FillSentinel, Process
    <3>2. p.mode \in Modes
      BY <3>1, <1>2 DEF Steadfast
    <3>3. CASE r = p.current
      <4>1. sentinel'[r] = p.mode
        BY <3>1, <3>3, <1>2, <2>3
      <4>2. Heard(c, r)'
        BY <4>1, <3>2, <2>2 DEF Heard, Modes
      <4>3. QED
        BY <4>2, <3>1 DEF InHand
    <3>4. CASE r # p.current
      BY <3>1, <3>4, <2>4, <2>5 DEF InHand
    <3>5. QED
      BY <3>3, <3>4
  <2>12. CASE Exit(c)
    <3>1. p.pc = "targets" /\ p.todo = {} /\ q.pc = "done"
      BY <2>12, <1>2 DEF Exit, Process
    <3>2. QED
      BY <3>1, <2>4, <2>5 DEF InHand
  <2>13. CASE ClientDies(c)
    <3>1. q.pc = "died"
      BY <2>13, <1>2 DEF ClientDies, Process
    <3>2. QED
      BY <3>1 DEF InHand
  <2>14. QED
    BY <2>6, <2>7, <2>8, <2>9, <2>10, <2>11, <2>12, <2>13 DEF ClientStep
<1>10. \A d \in Clients : \A r \in Throughout(d)' : InHand(d, r)'
  <2>1. \A r \in Throughout(c)' : InHand(c, r)'
    BY <1>9 DEF InHand
  <2>2. QED
    BY <2>1, <1>8
<1>11. QED
  BY <1>1, <1>3, <1>6, <1>10 DEF ReachInv

LEMMA ReachNext == ReachInv /\ [Next]_vars => ReachInv'
<1> SUFFICES ASSUME ReachInv, [Next]_vars PROVE ReachInv'
  OBVIOUS
<1>1. ASSUME NEW r \in Runs, RunStep(r) PROVE ReachInv'
  BY <1>1, RunStepReaches
<1>2. ASSUME NEW c \in Clients, ClientStep(c) PROVE ReachInv'
  BY <1>2, ClientStepReaches
<1>3. CASE UNCHANGED vars
  <2>1. CarefulInv'
    BY <1>3, CarefulNext DEF ReachInv
  <2>2. QED
    BY <2>1, <1>3 DEF ReachInv, Steadfast, Through, InHand, Heard, Throughout, AtWork, vars, runVars
<1>4. QED
  BY <1>1, <1>2, <1>3 DEF Next

\* By the time abort.py exits there is a request in the directory of every run it was to
\* stop that was at work throughout, and one as hard as it asked for, unless a client that
\* was not through when it started asked for less.
THEOREM RequestsArrive == Spec => []AbortReachesItsTargets
<1>1. ReachInv => AbortReachesItsTargets
  BY DEF ReachInv, AbortReachesItsTargets, InHand, Heard
<1>2. QED
  BY <1>1, ReachInit, ReachNext, PTL DEF Spec

=============================================================================
