----------------------------- MODULE AbortControl -----------------------------
(***************************************************************************)
(* How abort.py talks to running investigations: two files in each run's   *)
(* directory, RUNNING.json (the marker) and ABORT (the sentinel), read and *)
(* written by processes that share nothing else.                           *)
(*                                                                         *)
(* Every file is written in place: the file is truncated, then filled, and *)
(* another process may look, or the writer may die, between the two. The   *)
(* scan of the output directory looks at one run at a time.                *)
(*                                                                         *)
(* A definition D_Bug is a plausible mistake in D, used by nothing here.   *)
(*                                                                         *)
(* The investigation itself is reduced to what it does with the sentinel;  *)
(* Investigation.tla models the rest of it.                                *)
(***************************************************************************)
EXTENDS Naturals, FiniteSets

CONSTANTS
  Runs,         \* investigation ids, each with a directory of its own
  Clients,      \* invocations of abort.py
  MaxLives      \* bound: how many runs in a row are given one id (--id)

ASSUME ControlAssumption ==
  /\ IsFiniteSet(Runs)
  /\ {"sole", "all", "none"} \cap Runs = {}
  /\ MaxLives \in Nat \ {0}

VARIABLES
  pc,        \* where the process of each run is
  lives,     \* how many processes have used the run's id, this one included
  marker,    \* RUNNING.json: what is in it and which life of the run wrote it
  foreign,   \* the pid in the marker now belongs to an unrelated process
  sentinel,  \* ABORT: what is in it
  ending,    \* how the orchestrator's loop came to its end in this life
  client     \* the abort.py processes

runVars == <<pc, lives, marker, foreign, ending>>
vars == <<runVars, sentinel, client>>

Modes == {"graceful", "hard"}

(***************************************************************************)
(* Reading the files.                                                      *)
(***************************************************************************)

\* A sentinel that says nothing intelligible is no request.
ReadAbort_GarbageIsNothing(content) == IF content \in Modes THEN content ELSE "none"

\* read_abort: whatever is in the file, a file is an abort.
ReadAbort(content) ==
  CASE content = "absent" -> "none"
    [] content = "torn" -> "graceful"
    [] OTHER -> content

HasProcess(r) == pc[r] \in {"opening", "marking", "preflight", "investigating", "stopping"}

\* The marker is up and the process has not left the finally clause.
AtWork(r) == pc[r] \in {"preflight", "investigating", "stopping"}

\* RunMarker.is_alive: a pid is all there is to go by.
IsAlive(r) == foreign[r] \/ (HasProcess(r) /\ marker[r].life = lives[r])

\* The marker parses and its process is alive: active_runs lists the run.
Active(r) == marker[r].content = "written" /\ IsAlive(r)

(***************************************************************************)
(* The runs.                                                               *)
(***************************************************************************)

NoMarker == [content |-> "absent", life |-> 0]

Idle == [pc |-> "idle", mode |-> "none", want |-> "none", unscanned |-> {}, seen |-> {},
         todo |-> {}, current |-> "none", acked |-> {}, present |-> {}, settled |-> {}]

Init ==
  /\ pc = [r \in Runs |-> "idle"]
  /\ lives = [r \in Runs |-> 0]
  /\ marker = [r \in Runs |-> NoMarker]
  /\ foreign = [r \in Runs |-> FALSE]
  /\ sentinel = [r \in Runs |-> "absent"]
  /\ ending = [r \in Runs |-> "none"]
  /\ client = [c \in Clients |-> Idle]

Goes(r, from, to) == pc[r] = from /\ pc' = [pc EXCEPT ![r] = to]

\* A process takes the id, the first one or after another: the transcript is opened, the
\* inputs are loaded. That nobody passes an id while a process has it is an assumption on
\* the operator; nothing in the code prevents it.
Open(r) ==
  /\ pc[r] \in {"idle", "exited", "died"} /\ lives[r] < MaxLives
  /\ pc' = [pc EXCEPT ![r] = "opening"]
  /\ lives' = [lives EXCEPT ![r] = @ + 1]
  /\ ending' = [ending EXCEPT ![r] = "none"]
  /\ UNCHANGED <<marker, foreign, sentinel, client>>

\* write_marker, first half: the file is created or truncated.
TruncateMarker(r) ==
  /\ Goes(r, "opening", "marking")
  /\ marker' = [marker EXCEPT ![r] = [content |-> "torn", life |-> lives[r]]]
  /\ foreign' = [foreign EXCEPT ![r] = FALSE]
  /\ UNCHANGED <<lives, sentinel, ending, client>>

\* Leaving the marker in a buffer.
FillMarker_Unflushed(r) ==
  /\ Goes(r, "marking", "preflight")
  /\ UNCHANGED <<lives, marker, foreign, sentinel, ending, client>>

\* write_marker, second half.
FillMarker(r) ==
  /\ Goes(r, "marking", "preflight")
  /\ marker' = [marker EXCEPT ![r].content = "written"]
  /\ UNCHANGED <<lives, foreign, sentinel, ending, client>>

PreflightOk(r) ==
  /\ Goes(r, "preflight", "investigating")
  /\ UNCHANGED <<lives, marker, foreign, sentinel, ending, client>>

\* FAILED_PREFLIGHT, or preflight raised: on to the finally clause.
PreflightFails(r) ==
  /\ Goes(r, "preflight", "stopping")
  /\ UNCHANGED <<lives, marker, foreign, sentinel, ending, client>>

\* A poll that finds a sentinel; one that finds none changes nothing.
Poll(r) ==
  LET mode == ReadAbort(sentinel[r]) IN
  /\ mode # "none"
  /\ Goes(r, "investigating", "stopping")
  /\ ending' = [ending EXCEPT ![r] = mode]
  /\ UNCHANGED <<lives, marker, foreign, sentinel, client>>

\* The loop ends for a reason of its own, or raises.
LoopEnds(r) ==
  /\ Goes(r, "investigating", "stopping")
  /\ ending' = [ending EXCEPT ![r] = "finished"]
  /\ UNCHANGED <<lives, marker, foreign, sentinel, client>>

\* clear_marker, the last thing the finally clause does.
ClearMarker(r) ==
  /\ Goes(r, "stopping", "exited")
  /\ marker' = [marker EXCEPT ![r] = NoMarker]
  /\ UNCHANGED <<lives, foreign, sentinel, ending, client>>

\* SIGKILL; loading that raised before the marker; or, in the finally clause, an
\* aclose() that raised before the marker was reached.
Die(r) ==
  /\ HasProcess(r)
  /\ pc' = [pc EXCEPT ![r] = "died"]
  /\ UNCHANGED <<lives, marker, foreign, sentinel, ending, client>>

\* The system gives the pid of a process that is gone to another one, or takes it back.
PidRecycled(r) ==
  /\ marker[r].content = "written"
  /\ ~(HasProcess(r) /\ marker[r].life = lives[r])
  /\ foreign' = [foreign EXCEPT ![r] = ~@]
  /\ UNCHANGED <<pc, lives, marker, sentinel, ending, client>>

(***************************************************************************)
(* abort.py.                                                               *)
(***************************************************************************)

Through(c) == client[c].pc \in {"done", "died"}

\* What the operator may ask for: the only run there is, all of them, or one by name.
Wants == {"sole", "all"} \cup Runs

\* abort.py starts. Two fields are history: the runs at work and the clients that are
\* through at this moment.
Start(c, mode, want) ==
  /\ client[c].pc = "idle"
  /\ client' = [client EXCEPT ![c] =
                  [Idle EXCEPT !.pc = "scanning", !.mode = mode, !.want = want,
                               !.unscanned = Runs,
                               !.present = {<<r, lives[r]>> : r \in {q \in Runs : AtWork(q)}},
                               !.settled = {o \in Clients : Through(o)}]]
  /\ UNCHANGED <<runVars, sentinel>>

\* active_runs comes to one run directory.
Scan(c, r) ==
  /\ client[c].pc = "scanning"
  /\ r \in client[c].unscanned
  /\ client' = [client EXCEPT ![c].unscanned = @ \ {r},
                              ![c].seen = IF Active(r) THEN @ \cup {r} ELSE @]
  /\ UNCHANGED <<runVars, sentinel>>

\* Guessing when there are several.
Targets_Guesses(want, running) ==
  IF want \in Runs THEN running \cap {want}
  ELSE IF want = "all" THEN running
  ELSE {r \in running : r = CHOOSE first \in running : TRUE}

\* The runs to abort: with several running and none named, none.
Targets(want, running) ==
  IF want \in Runs THEN running \cap {want}
  ELSE IF want = "all" \/ Cardinality(running) = 1 THEN running
  ELSE {}

\* The scan is over: choose, or say why not and exit.
Choose(c) ==
  /\ client[c].pc = "scanning"
  /\ client[c].unscanned = {}
  /\ client' = [client EXCEPT ![c].todo = Targets(client[c].want, client[c].seen),
                              ![c].seen = {}, ![c].pc = "targets"]
  /\ UNCHANGED <<runVars, sentinel>>

\* Only an abort that is not there yet is written.
Overrides_NeverEscalates(mode, existing) == existing = "none"

\* A request is written when there is none, or when it escalates the one there is.
Overrides(mode, existing) ==
  existing = "none" \/ (mode = "hard" /\ existing = "graceful")

\* The client looks for an earlier request and decides whether to write its own.
Read(c, r) ==
  /\ client[c].pc = "targets"
  /\ r \in client[c].todo
  /\ LET writes == Overrides(client[c].mode, ReadAbort(sentinel[r])) IN
     client' = [client EXCEPT ![c].todo = @ \ {r},
                              ![c].pc = IF writes THEN "requesting" ELSE @,
                              ![c].current = IF writes THEN r ELSE "none"]
  /\ UNCHANGED <<runVars, sentinel>>

\* request_abort, first half.
TruncateSentinel(c) ==
  /\ client[c].pc = "requesting"
  /\ sentinel' = [sentinel EXCEPT ![client[c].current] = "torn"]
  /\ client' = [client EXCEPT ![c].pc = "filling"]
  /\ UNCHANGED runVars

\* request_abort, second half; the client tells the operator what will happen.
FillSentinel(c) ==
  /\ client[c].pc = "filling"
  /\ sentinel' = [sentinel EXCEPT ![client[c].current] = client[c].mode]
  /\ client' = [client EXCEPT ![c].pc = "targets", ![c].current = "none",
                              ![c].acked = @ \cup {client[c].current}]
  /\ UNCHANGED runVars

Exit(c) ==
  /\ client[c].pc = "targets"
  /\ client[c].todo = {}
  /\ client' = [client EXCEPT ![c].pc = "done"]
  /\ UNCHANGED <<runVars, sentinel>>

\* Ctrl-C, or a directory that cannot be written.
ClientDies(c) ==
  /\ client[c].pc \in {"scanning", "targets", "requesting", "filling"}
  /\ client' = [client EXCEPT ![c] = [@ EXCEPT !.pc = "died", !.unscanned = {}, !.seen = {},
                                               !.todo = {}, !.current = "none"]]
  /\ UNCHANGED <<runVars, sentinel>>

RunStep(r) ==
  \/ Open(r) \/ TruncateMarker(r) \/ FillMarker(r)
  \/ PreflightOk(r) \/ PreflightFails(r)
  \/ Poll(r) \/ LoopEnds(r) \/ ClearMarker(r)
  \/ Die(r) \/ PidRecycled(r)

ClientStep(c) ==
  \/ \E mode \in Modes, want \in Wants : Start(c, mode, want)
  \/ \E r \in Runs : Scan(c, r) \/ Read(c, r)
  \/ Choose(c) \/ TruncateSentinel(c) \/ FillSentinel(c) \/ Exit(c) \/ ClientDies(c)

Next == (\E r \in Runs : RunStep(r)) \/ (\E c \in Clients : ClientStep(c))

Spec == Init /\ [][Next]_vars

\* The loop polls before every state it enters and after every action, and every await
\* between two polls is bounded by a timeout, so it polls again and again while it runs.
FairSpec == Spec /\ \A r \in Runs : WF_vars(Poll(r))

-----------------------------------------------------------------------------
(***************************************************************************)
(* Properties.                                                             *)
(***************************************************************************)

\* A run that is at work can be found: from before its preflight until its finally
\* clause is over, its marker is whole and names its process; and a run that went
\* through that clause leaves no marker behind.
RunningIsVisible ==
  \A r \in Runs :
    /\ AtWork(r) => Active(r) /\ marker[r].life = lives[r]
    /\ pc[r] = "exited" => marker[r].content = "absent"

\* The runs that have been at work ever since the client started.
Throughout(c) == {r \in Runs : <<r, lives[r]>> \in client[c].present /\ AtWork(r)}

\* "Refuse to guess. Aborting the wrong hour-long run is not recoverable": with two runs
\* at work all the while, abort.py without a name leaves both of them alone, however the
\* scan falls between their starts and ends.
RefusesToGuess ==
  \A c \in Clients :
    client[c].want = "sole" /\ Cardinality(Throughout(c)) > 1
      => client[c].acked = {} /\ client[c].current = "none"

\* An abort.py that names a run at work, or all of them, does not miss it: by the time it
\* exits there is a request in the run's directory, its own or an earlier one; and where
\* it asked for hard it is not a graceful one, unless a client that was not through when
\* this one started may have overwritten it.
AbortReachesItsTargets ==
  \A c \in Clients : \A r \in Throughout(c) :
    (client[c].pc = "done" /\ client[c].want \in {"all", r})
      => /\ sentinel[r] # "absent"
         /\ client[c].mode = "hard" /\ sentinel[r] = "graceful"
              => \E o \in Clients \ client[c].settled : client[o].mode = "graceful"

\* Where there is a sentinel, whole or torn, even by a client that died writing it, the
\* run stops: "Refusing to stop because the stop request was misspelt would be the wrong
\* failure".
SentinelStopsTheRun ==
  \A r \in Runs :
    (pc[r] = "investigating" /\ sentinel[r] # "absent") ~> (pc[r] # "investigating")

(***************************************************************************)
(* What the repository says of the program and the program does not do.    *)
(***************************************************************************)

\* abort.py, to an operator who asked for --hard: "it will stop without a brief". Where
\* nobody asked for anything else, no run is stopped gracefully.
HardIsNeverReadAsGraceful ==
  \A r \in Runs :
    ending[r] = "graceful" => \E c \in Clients : client[c].mode = "graceful"

=============================================================================
