# A TLA+ model of the SOC investigation runner

The program takes an alert and a folder of logs and lets a *commander* model ask one
question at a time about the logs. Code answers each question, or, for `close_read`, a
*worker* model that is handed a range of lines. A second, final prompt turns what was
gathered into a brief for the analyst. A run may last an hour, so an operator can stop it
from another process (`abort.py`). The program persists almost nothing and has no
database; what is hard in it are the seams: an abort, an exception or a timeout that falls
into the middle of something, files that two processes share without a lock, and a chain
of abridgements (cap, budget, collapse, salvage) between a log line and the brief.

Paths below are relative to `src/src/soc_poc/` unless they say otherwise.

Reading order: `RunContract` (what a run promises), `Investigation` (the loop that keeps
the promise), `AbortControl` (two kinds of process and the two files between them),
`CloseRead` with `GruntReports` (the worker), `CommanderTurn` (one question),
`EvidenceLedger` (what becomes of the answers), `CaseFiles` (how the logs get in),
`CaseQueries` with `CaseCorpus`, `Aggregates`, `CaseProfile` and `Reproduce` (what code
answers of them by itself), `RunLifecycle` (what surrounds it all). The `*Proofs` modules
hold the theorems, the `MC*` modules and `.cfg` files the instances for TLC, and
`PROJECT.json` the map from every definition to the lines it stands for.

## 1. The system

| Component | State it keeps | Operations | Module |
|---|---|---|---|
| Orchestrator (`orchestrator.py`, `states.py`) | `InvestigationContext`, the ledger, the registry of workers | one handler per state, the abort poll, `_crash_context` | `Investigation` |
| Control files (`control.py`, `src/abort.py`) | `RUNNING.json`, `ABORT` in each run directory | write, clear, scan markers; request, read an abort | `AbortControl` |
| Worker (`grunt.py`, `_close_read`) | the attempt under way | call, check, retry, salvage, backstop | `CloseRead`, `GruntReports` |
| Citation checks (`validation/citations.py`) | none | problems of a report, problems of a brief | `GruntReports`, `EvidenceLedger` |
| Commander (`commander.py`, `coercion.py`, `parsing.py`, `schemas/action.py`) | the attempt under way | call, rescue, parse, validate, retry; write the brief | `CommanderTurn` |
| Ledger (`evidence.py`, `prompting/investigate.py`) | the steps | append, render, "on the record", `shown_refs` | `EvidenceLedger` |
| Actions, corpus, aggregation (`actions.py`, `corpus.py`, `aggregation.py`) | none (files read once) | the nine read-only verbs, their hints, their printed commands | `CaseQueries`, `CaseCorpus`, `Aggregates`, `Reproduce` |
| Profiling (`profiling.py`, part of `corpus.py`) | the profile, built once | rare shapes, scope, families, bursts | `CaseProfile` |
| Chunking and loading (`chunking.py`, `loader.py`) | the catalog of slices | pack, file under an id, scan for injection | `CaseFiles` |
| Runner (`runner.py`), preflight, transcript | the run directory: transcript, brief, meta, readable view, stats | start, gate, run, clean up, write artifacts | `RunLifecycle` |
| LLM clients (`llm/`) | an HTTP connection | a call | a choice in `CloseRead`, `CommanderTurn`, `RunLifecycle` |
| Brief, prompts, stats, progress, CLI, configuration | none that anything reads back | text and counters | section 7 |

**How they interact.** `runner.run_investigation` opens the transcript, loads the case,
raises the marker, runs preflight and awaits `Orchestrator.run`. That is a single asyncio
task: a `while` over states, with a poll of the `ABORT` file before each handler that can
honour one, and another inside EXECUTING after the step has been recorded. The handler of
INVESTIGATING awaits the commander; that of EXECUTING runs a verb in code, or creates a task
for the worker and awaits it under a timeout, entered in a registry meanwhile (which nothing
reads, so that no worker is cancelled through it). Any exception in a handler goes to
`_crash_context`, which decides whether there is enough to write up. `abort.py` shares
nothing with the run but the two files. After the loop the artifacts are written one by one,
and a later process given the same `--id` uses the same directory.

**What is hard to test in it**, component by component (each with its line under "hazards"
in `PROJECT.json`):

* *Orchestrator*: an abort between a poll and the end of a handler; two reasons to stop in
  one instant; an exception before, or after, the step was recorded; budget that must
  be spent on every way round the loop.
* *Control files*: files truncated then filled; a scan that looks at one directory at a
  time while runs come, go and come back under their id; recycled pids; two clients.
* *Worker*: a backstop that spans every attempt; salvage by index; a hit that salvage
  could lose with its finding.
* *Commander*: a rescue that reorders and completes arguments; a validator and an executor
  that must agree; one retry, which needs a refusal that can be acted on.
* *Ledger*: three cuts one after the other (listing cap, budget of characters, age), each
  of which must add to one honest count; citations of what only an old prompt showed.
* *Files*: window and budget boundaries; two files whose slices share ids.
* *Verbs*: nine verbs that each filter, select and count in their own way and are read side
  by side; a profile with a walk of its own; a shell command beside every answer that is a
  second implementation of it; caps that fall in the middle of what is being counted.
* *Lifecycle*: a kill or a failing write between any two artifacts, over what an earlier
  life left; a torn transcript line that something is appended to.

## 2. Modules and the code

In every module a name `D_Bug` is a plausible mistake in definition `D`. Nothing uses it;
`PROJECT.json` ("mutants") pairs it with the property that TLC finds violated when it
takes the place of `D`.

### RunContract
The abstract specification, with nothing in it of states, aborts, crashes or models:
evidence only accumulates, and only while gathering; writing begins once, over evidence; a
brief comes of writing alone, at most one, and counts exactly the evidence gathered.

### Investigation, InvestigationImplements
`Orchestrator.run`. One variable per field of the context, plus the ledger, the registry,
the sentinel as `read_abort` returns it, and the result. Each turn of the loop has two
instants other processes can fall between, `phase = "boundary"` (about to poll) and
`"handler"` (past the poll, perhaps minutes inside an await). `PollAborts` and
`PollPasses` are lines 200-207; `OnReceived`, `OnProfiling`, `DecideAction` /
`DecideConclude` / `DecideFails` (what `decide_action` can come back with),
`DispatchCloseRead`, `OnExecuting` (record the step, then the second poll, then the cap),
`OnCapReached`, `OnAborting`, `OnSynthesizing` are the handlers; `HandlerCrash`,
`ExecutionCrash`, `CrashAfterRecording` are `_crash_context` by where the exception
fell, and `LoopRaises` is everything it cannot catch. `RequestAbort` is the other
process: since a client may have looked at the sentinel before another wrote it, any
request can replace any other, and `requested_at` stays that of the first.
What an action returned is abstracted to error or answer and whether it was a repeat; what
it asks to its identity. `InvestigationImplements` maps the state machine to `RunContract`
(`StageOf`); `ImplementsContract` is the refinement.

### AbortControl
The two files and the processes around them. `pc[r]` is where run *r*'s process is, from
opening its directory to the end of its finally clause; `lives[r]` counts the processes
that have been given the id, because `--id` may reuse it. Writing a file is two actions,
truncate and fill, for both files, and the writer may die between them. A client
(`abort.py`) scans directories in any order, one `Scan` each; chooses (`Choose`, with
`Targets`); looks for an earlier request (`Read`, with `Overrides`); and writes.
`PidRecycled` hands the pid in a marker to a stranger. Two fields of a client are
history, recorded at its start for the properties.

### GruntReports, CloseRead
`GruntReports` has no state: it is `validate_report_citations`, `_salvageable`,
`_drop_failed_findings`, the classification of a rejection and what `_close_read` makes of
an accepted report, over abstract references (a line of the slice, a line elsewhere, prose,
empty). `CloseRead` is `run_grunt_task` and the part of `_close_read` that awaits it: the
attempts, the clock, the backstop that covers all of them, and the ways a call ends
(parses, does not parse, with or without a complaint that names the reference field, was
cut off, fails in transport, raises, never returns).

### CommanderTurn
`decide_action` from the call to the executed verb. A reply is an action (arguments as the
few values the code distinguishes: a regex that compiles, does not, or makes `re` raise
something else; a file that exists or not; a reference that is whole, bare, beyond the
file, elsewhere) in a *shape* (nested, positional, aliased, with unknown keys).
`Understood` is `coercion.py`, `Problems` is `validate_action` as the set of fields it
complains about, `Outcome` is `execute_readonly` as how it succeeds or fails.
No shape gives one argument twice or has its arguments as the text of a JSON object.
`synthesize_brief` shares the loop: `purpose` says which of the two calls it is, and a brief
is a reply that parses or does not.

### EvidenceLedger
What `Evidence` holds and what each prompt shows of it. A line is its number and its width;
a pattern is the set of lines it matches, a range the numbers from its start to its end,
which the file may not have. `Search`, `Count`, `Extremes`, `Decode`, `Context`, `ReadLines`
are the verbs by what their results carry; of a close_read (`CloseReads`) the result is a
choice: it fails, or lists what its worker chose to cite. Of `decode` a line may yield
several texts. `FullView`, `CollapsedView`, `Render` are `Evidence.render`; `OnRecord` is
the uncollapsed listing of the last prompt; `ShownRefs` is what a brief may cite.
`Synthesize` is the brief and its audit: `NormaliseRef` what becomes of a reference with
something stuck to it, or to a file whose name a citation cannot hold (`plain` is chosen
once), `Audit` what `audit_brief_citations` finds malformed, unresolved or uncited.

### CaseFiles
`_pack` is `TakeLine`, one round of its loop; `FileSlices` is the end of `chunk_file`
and the assignment into the catalog; `Scan` is the injection scan over the catalog;
`CloseRead` is the part of `_close_read` that cuts a range to a cap and a token budget. A
file is the running total of its lines' costs.

### CaseCorpus, Aggregates, CaseProfile, Reproduce, CaseQueries
What code answers without a model. The text of a line is a sequence of words: the cells of a
delimited row, or the keys and values of a JSON object as they are written. A pattern is a
sequence of literals with anything, or nothing, between them; what the code does to
characters (case folding, length, what a regex finds in a word, what reads as a number,
an address or base64) is a function on words, given as a constant.
* `CaseCorpus` is `corpus.py`: references, the header and the columns of a file, a cell by
  its name or number, predicates, what matches, `Search`, `Context`, `ReadLines`.
* `Aggregates` is `aggregation.py`: `Selection` (which values of which lines), and `Tally`,
  `Timeline`, `Stats`, `Extremes`, `Decode` as what they report.
* `CaseProfile` is what `profiling.py` and `Corpus.scope` put on the page the commander
  starts from: rare shapes, the axes of a file, families of random-looking names, sessions.
* `Reproduce` is the command printed beside a step, as what it yields: `grep` with and
  without regard to case, `awk` over columns, `jq` over objects, each with the ways in which
  it differs from the code. It has expressions of its own for entities (`Pieces`: what a
  lower-case expression cuts out of a word with capitals) and for timestamps (`stamps`: all
  that `grep -o` finds on a line, where `stamp` is the one the code takes).
* `CaseQueries` composes them: `WellFormed` is what `validate_action` lets through, `LineSet`
  what a line can be; then `Profile`, and `Ask`, which answers from an earlier step
  when the question is the same, executes it otherwise, and adds the hints
  (`ZeroHint`, `CoverageHint`) and the note about earlier questions (`Noted`).

### RunLifecycle
`run_investigation`: `Start`, `Load`, the preflight probes in their order, the gate, the
investigation as calls that leave records, the finally clause, and the four artifacts, each
truncated then filled. `WriteRaises` says which failures are guarded and which are not.
`Die(tears)` is a kill, perhaps in the middle of a transcript line, and `Appended` is what
becomes of the next record behind such a line.

## 3. The runs

CHECK_DEADLOCK is FALSE in every configuration, because each of these systems really
stops: a run ends, a client exits, a step is recorded, a bound on lives is reached.

| Run | Question | Bounds | Distinct states |
|---|---|---|---|
| `investigation` | Does the loop keep its promises through aborts that replace each other and exceptions, and does it end? | 2 questions, cap 3, 2 steps to conclude, 2 exceptions | 204 854 |
| `control_runs` | Is a run at work always found, and does abort.py never pick one of two by guess? | 2 ids, 2 lives each, 1 client, runs symmetric | 581 458 |
| `control_clients` | Does a request arrive when two clients write at once and may die? | 1 id, 1 life, 2 clients | 476 343 |
| `close_read` | Is what is accepted vouched for, and is a step always recorded? | 2 lines, 584 reports, 2 attempts, backstop 2 ticks | 30 839 |
| `commander_turn` | Is what runs what was asked? Do validator and executor agree? | 7 verbs, up to 2 arguments off, 8 shapes, 2 attempts, action or brief | 115 332 |
| `evidence_ledger` | Is anything withheld in silence, or forgotten, or flagged in a brief for nothing? | 6 lines, 3 patterns, 3 ranges, 3 steps, 9 briefs, 2 kinds of file name | 530 280 |
| `case_files` | Is a line lost, doubled or oversized on the way in? | 2 files, up to 4 lines, 2 costs | 467 504 |
| `case_queries` | Do answers agree with each other, with the profile and with their printed commands? | 2 606 cases of 2 files, 2 or 3 questions of each | 294 562 |
| `run_lifecycle` | Does a directory ever tell something false of its run? | 2 endpoints, 1 call, 2 lives | 127 928 |

The three that refute a sentence of the repository (`control_torn`, `stem_shared`,
`absence_silent`) run on the same instances or smaller ones.

**Why these bounds are enough to meet the hard cases.** *investigation*: the second step is
the first that can be a repeat, the third that of a repeat; two exceptions let one fall
early and one late; with a cap of three the last turn, the conclusion and the abort can
coincide; one question needs a worker and one does not. *control_runs*: two lives are what
it takes for a stale marker, a reused id and a run that "comes back" during a scan.
Interchanging runs is sound because no action distinguishes one from another.
*control_clients*: a lost update takes two clients, each past its look at the sentinel
before the other writes. *close_read*: eight findings, two that hold and one per way to be
at fault, in every pair, with every combination of the report's own flags; a backstop of two
ticks may fire in either attempt. *commander_turn*: two arguments off is where a complaint
about one can hide the other. *evidence_ledger*: the real numbers (40 lines listed, 4000
characters, 4 steps in full, 3 lines of a sample) are scaled (to 4, 9, 1 and 2) so that
every cut happens, and more than one to the same step; one line decodes into three texts and
one of a range is beyond the file; a worker may cite any of the two lines it reads at most;
the assumption `Sample * LineMax <= LineBudget` holds of the real ones (3 * 360 <= 4000) and
`AnswersStayInSight` depends on it; the record of the last prompt affords two of the three
steps. *case_queries*: five families of cases. Rows with and without a header, with a short
row, a comment in the middle, a second `#fields` row, a blank line, a value in other letters
and a line with two domains, under names that differ, under two that differ in case only and
under a number; lines with capitals in an entity, with a second timestamp, or one that only
the shell finds, and with columns set apart by blanks; objects with keys in two orders,
absent, in other letters, in two spellings at once, with a null, and a line that is no
object; dated lines in every order, with equal and missing moments, up to six of them, so
that a session of three and the parity of the gaps both occur; one long literal in several
frames, with values that decode, that do not, and that only look encoded. The caps (40
lines, 12 and 5 values of a tally, 10 extremes, 12 header comments) are scaled so that three
lines exceed them. Two questions are what it takes to compare answers, three for the note
about earlier ones; the profile comes first, as in the code. *case_files*: a window of three
cheap lines or one wide; a wide comment that leaves less than the floor; empty files; all
file pairs. *run_lifecycle*: two lives are what it takes to find the artifacts and torn
lines of another.

What the properties say is in the comments above them. In short:

* `investigation`: `AssertsHold`, `OnlyLegalTransitions` (no assertion of the code can
  fire), `SynthesisRestsOnEvidence`, `BudgetAccounting` (exceptions buy turns one for one,
  late ones double a step, nothing else does), `RepeatsAnswer`, `StopIsExplained`,
  `InterruptedBriefSaysSo`, `AbortIsPrompt`, `EvidenceKept`, `ImplementsContract`,
  `RunEnds`.
* `control_runs`, `control_clients`: `RunningIsVisible`, `RefusesToGuess`,
  `AbortReachesItsTargets`, `SentinelStopsTheRun`.
* `close_read`: `AcceptedIsVouchedFor`, `SalvageKeepsTheRest`, `PositivesAreTold`,
  `AlwaysRecorded`.
* `commander_turn`: `RunsWhatWasAsked`, `ValidatorSpeaksForExecutor`, `RefusalsNameTheFix`.
* `evidence_ledger`: `EveryMatchIsAccountedFor`, `AnswersStayInSight`,
  `HonestCitationsResolve`.
* `case_files`: `EveryLineInOneSlice`, `SlicesFit`, `ReadStopsAtALimit`.
* `case_queries`: `CountsAgree`, `WherePartitions`, `TallyAddsUp`, `ExtremesAreTheTail`,
  `ScopeIsATally`, `SessionsAgree`, `CommandsReproduce`. The last three hold under conditions
  that their comments name; section 6 says what happens outside of them.
* `run_lifecycle`: `MetaTellsTheTruth`, `OnlyProvenEndpoints`, `TranscriptSurvives`.

### Where the repository and the program disagree

Three runs state a sentence of the repository and TLC refutes it:

| Run | Sentence | What happens |
|---|---|---|
| `control_torn` | `src/abort.py`, to who asked for hard: "it will stop without a brief" | A poll between the truncation and the write of `ABORT` reads an empty file, which means graceful. |
| `stem_shared` | `loader.py`: "Every line of every file ends up in exactly one slice" | `dns.log` and `dns.jsonl` give their slices the same ids; the later ones replace the earlier in the catalog and the injection scan never sees those lines. |
| `absence_silent` | `actions.py`, of the hint on a zero: "any absent anchor zeroes `together`, which keeps a genuine absence silent" | When two literals never occur together the hint goes on to the longest of them alone; if that one occurs, it blames the pattern, although the other is nowhere in the case. |

## 4. Fairness

* `Investigation!FairSpec`: weak fairness of the loop as a whole. It is one asyncio task
  and every await in it is bounded by an HTTP timeout or the backstop, so it never rests
  while it has a step to take. Nothing obliges the operator to abort or a handler to
  raise, and no particular handler outcome is promised: `RunEnds` holds because every way
  round the loop spends budget.
* `AbortControl!FairSpec`: weak fairness of `Poll` for each run, by the same argument. A
  client is owed nothing: it may die at any step.
* `CloseRead!FairSpec`: weak fairness of the program's own steps, of the passing of time
  and of the timer. A model call is owed nothing: `AlwaysRecorded` holds also when it
  hangs for ever, because the backstop fires.

The other modules state safety only and have no fairness.

## 5. What is proved

tlapm checks every proof to the last leaf, for all values of the constants that the named
assumptions allow (`ConstantsAssumption`, `ControlAssumption`, `CaseAssumption`,
`CloseReadAssumption`, `LedgerAssumption`, `LifecycleAssumption`; of the verbs
`CorpusAssumption`, `AggregateAssumption`, `ProfileAssumption` and `QueriesAssumption`; TLC
evaluates each on every run of its module). Each theorem combines *holds initially*, *is
preserved* and *implies the property* by PTL.

* **InvestigationProofs**, the loop. `TypeCorrect`: `TypeOK` is not inductive, because
  appending the step in hand needs the action to be a real one; `Typed` adds that EXECUTING
  has an action (`ActionInHand`). `AssertionsHold`, `SynthesisGrounded`, `TransitionsLegal`
  follow from `ControlInv`: an abort in PROFILING cannot route to ABORTING only because the
  ledger is empty there (`NothingRecordedYet`), and SYNTHESIZING has a profile because every
  state it is entered from has one (`ProfileBuilt`). `BudgetBounded` rests on `BudgetInv`;
  `CapHoldsWithoutExceptions` is its consequence for a run without exceptions: never more
  turns than the cap, and one step per turn.
* **InvestigationProofs**, how a run stops. `EveryStopIsExplained` needs `StopInv`: while
  questions are asked nothing is stamped on the context (`NothingStamped`), after that
  exactly what sent the run there is (`StampedOnce`), and a body comes with DONE only.
  `AbortsArePrompt` and `InterruptionsAreTold` need `PromptInv`, which counts the steps since
  the request (`RecordedSince`) and says that a step recorded after it has made the loop
  honour it, or will at the poll it is about to make (`AbortIsSeen`). `NothingIsLost` is an
  action property, by what each action does to the ledger (`LedgerStep`). `NoWorkTwice` goes
  over ledgers: what a handler records may follow what is there (`RecordedMayFollow`), and
  appending such a step keeps the ledger free of repeated work (`FollowingKeepsRepeats`).
* **InvestigationProofs**, the refinement. `ContractKept`: `Investigation` implements
  `RunContract`. The stage of each state is `StageTable`; of the steps, only recording a
  step, leaving for synthesis and returning change anything the contract sees, and each is
  the contract's. It rests on `StopInv` and on `SynthesisGrounded`.
* **AbortControlProofs.** `RunsAreVisible`: the marker at each point of a run (`Marked`).
  `NeverGuesses` needs that, and two facts about a scan that takes its time. The set of
  runs that were at work throughout only shrinks, since a process that takes the id again
  is another life of it (`Remembers`: a remembered life is over or still under way).
  And a scan has missed none of them (`Careful`); so when it is over and they are several,
  it has seen several, and chooses none. The number of runs is any finite one.
  `RequestsArrive` follows a run through its client (`InHand`: to be scanned, seen, to be
  read, being written, requested) and shows that what other clients write over a request
  is still one (`StillHeard`), lesser only if that client asked for less and was not
  through when this one started, which is where `Steadfast` is needed.
* **CloseReadProofs.** `HitsAreTold`: whatever the reports, the attempts and the salvage, a
  hit filed in the accepted report is told. `HitsInv` carries the hit from the last report
  that parsed to the outcome and to the step. `AcceptedIsSound` and `NothingGoodIsDropped`,
  for any number of lines and findings: what is accepted cites the slice and nothing else,
  and salvage drops exactly the findings something is said against. The code picks findings
  by the indices that problems name, the properties speak of findings; `VouchInv` ties the
  two (problems are those of the report in hand, what is accepted is that report or its
  salvage), and a finding that moves up to another index still passes its checks.
* **EvidenceLedgerProofs**, for any file, patterns, caps and budgets. `LedgerInv` says that
  every result in the ledger is sound (`SoundResult`), which means a different thing of each
  kind: of search, extremes, context and read_lines, no line is listed twice, and what is
  listed and what is said to be withheld are all that matched (`Plainly`); of a decode, the
  two come to the larger of the texts listed and the lines that matched (`Decodedly`); of a
  close_read, nothing is said to be withheld, and at most what was read is listed
  (`Readingly`). It has to be an invariant, because a repeated question gets an earlier
  step's result. `NothingIsWithheldInSilence` follows the list through the cap, the budget
  of characters and the collapse; how much of a list fits a budget is a sum, of which it is
  enough that no lines at all always fit, so that there is a longest part that does
  (`ViewsAdd`). `AnswersAreRepeated` (an action property) needs that the sample of a
  collapsed step fits the budget of a full one (`SampleFits`). `AuditIsFair`: a line that
  any prompt has shown is never flagged (`displayed` is within `ShownRefs`), however its
  reference was dressed up, if a citation can hold the name of its file; and a claim
  that nothing is said against rests on lines that some step fetched, whatever that name is.
* **CommanderTurnProofs.** For every set of replies. `AskedIsRun`: an acceptable reply is
  understood as what it says (`UnderstoodAsAsked`), and the invariant `TurnInv` says that
  what was chosen was understood of the reply in hand. `ExecutorNeverObjects`: by cases over
  the verbs, the executor finds nothing amiss that the validator looked at
  (`ExecutorAgrees`). `RefusalsAreUseful`: `Corrected` names the replacements, and none of
  them is itself a reason to complain (`CorrectedIsFine`).
* **CaseFilesProofs.** `CaseTypeCorrect`, `LinesAreFiledOnce`, `SlicesAlwaysFit`,
  `ReadsStopAtALimit`, for every number of files, every content and every budget. What a
  slice holds is decided while its window grows, so `PackInv` says that the growing window
  is affordable (`Growing`), that the closed ones hold each line before it exactly once
  (`Closed`, by `Tiles`), and that a slice is filed under its file's stem (`Filed`).
* **RunLifecycleProofs.** `MetaIsTrue`: `MetaInv` adds to the property what the directory
  holds at each point of the process (`OnDisk`: neither file is of this life before its
  turn) and that files are of lives that have been (`Lives`). `GateHolds`, for any number of
  endpoints: `GateInv` says that the checks of a run are of a prefix of the endpoints, and
  that if none failed each of them has passed all three, but for the round trip of the one
  in hand. `TranscriptIsKept`: `LogInv` says that only the last line of the file can be torn,
  and only while nobody writes to it; so what a kill costs is that line and the record that
  is appended to it, and every other record of every life can be read.
* **CaseQueriesProofs**, for any case, any well-formed questions and any caps. Each property
  compares two answers, or an answer with the profile, made at different times.
  `AnswersArePure` is the invariant that makes them comparable: every step, taken from an
  earlier one or not, is what executing its question gives over files that do not change,
  and the profile is that of the same files (`QueriesInv`). After that a property is about
  operators, for any lines. `NumbersAgree`: each verb counts `Matching`, or that without
  comments. `NegationSplits`: a predicate and its negation divide the lines that carry the
  field. `PageHolds`: the profile's rows for a field are those a tally selects, whatever the
  spelling of the field (`SpellingDoesNotMatter`). `NothingFallsBetween`: the ranking is a
  permutation of the values (`Listings`), its two ends do not meet, and the counts add up to
  the rows (`CountsAddUp`, an induction on the size of a set of values).
  `NothingLargerIsHidden`: the listing of lines is in descending order of their best values.
  `SessionsHold`: a session ends at the first break at or after its start, and the next
  starts behind it (`SessionsAre`); of an odd number of gaps the two medians are one.
* **CaseQueriesProofs**, the printed commands. `CommandsHold`: for every `Reproducible`
  question the command beside a step yields what the step reports. It is the comparison of
  two implementations, taken apart by the tool that is printed. `grep` finds what the code
  finds, once no letters differ (`GrepIs`). `jq` takes the last value of a key where the
  code takes the last key of any spelling, which is one when each line has the key once
  (`JqAgrees`). `awk` resolves a name in the last `#fields` row above a line, the code in
  the first of the header; with a single such row, and a value in every row, both are the
  same column (`HeaderNames`, `AwkAgrees`). So the filter lets by the same lines
  (`FilteredIs`) and the stream holds the same values (`StreamIs`). An expression for an
  entity cuts out of a line what the code recognises in it if no capitals are in the way
  (`EntitiesAre`); the stamps that `grep -o` prints are the moments of a timeline if each
  line has the one the code takes and no other (`StampsArePrinted`, with `SameSeries`: two
  functions that take each value equally often have one ascending series). A listing from the
  largest is an ascending series read from its end (`Descending`: the number of values up
  to the *i*-th of *N* is at least *N* + 1 - *i*, and for any smaller value less), so that
  `sort -rn` prints the sizes of `extremes` (`SizesAre`). A context is what `sed` prints
  because both its sides fit into the span (`2 * Around + 1 <= MaxSpan`; 5 and 60 in the
  code).

Induction appears in these proofs as a fact about a set of numbers (`SetInduction`, from
`LeastNat`, from the well-foundedness of the natural numbers): what a recursive function
does on a finite set is proved by applying it to the set of sizes for which the fact holds.

Model-checked only:
* liveness (`RunEnds`, `SentinelStopsTheRun`, `AlwaysRecorded`): fairness and ENABLED are
  beyond the prover. They are the only properties of a passing run without a theorem;
* the sentences that TLC refutes (`control_torn`, `stem_shared`, `absence_silent`).

## 6. Divergences seen and described only

Met while reading the code against its documents. They are in the models (nothing is
idealised away), but no run is spent on them.

* **Aborts.** A hard abort while a worker is in flight lets it finish and records its
  answer; nothing is cancelled (`orchestrator.py:694`; `src/abort.py:13` and `control.py:36`
  say that in-flight tasks are, "each recorded as a failure"). One that arrives while the
  commander is deciding, or in ABORTING, still gets its turn or its brief
  (`orchestrator.py:244`). A graceful client may overwrite a hard request it did not see
  (`src/abort.py:107`): `AbortReachesItsTargets` says exactly when. An `ABORT` left by an
  earlier run of the same id stops the next at its first poll (`runner.py:110`). A stale
  marker is listed as running once its pid is recycled (`control.py:52`).
* **Budget.** An exception in EXECUTING returns the turn without the cap check
  (`orchestrator.py:364`; `tests/test_failure_paths.py:1`: "the cap must stop the loop"),
  and one after the step was added doubles the step (`orchestrator.py:354`);
  `BudgetAccounting` counts both, `CapHoldsWithoutExceptions` is what remains of the cap.
  That a run was stopped by its cap cannot be read off the brief (`orchestrator.py:886`;
  `states.py:52`).
* **Worker.** Salvage can yield a report that is not relevant and has a hit, which the
  schema's text excludes (`grunt.py:76`; `schemas/grunt.py:6-8`); the step tells the hit
  all the same (`PositivesAreTold`). A call that is cancelled, or fails in a way the client
  does not expect, leaves no record (`llm/vllm_client.py:146-151`; `llm/base.py:4-5`):
  `CloseRead` keeps `made` and `logged` apart. When the second call fails, a first reply
  that could have been salvaged is forgotten (`grunt.py:131`), and a rejection is filed by
  the wording of its messages (`grunt.py:214`).
* **Commander.** The rescue drops keys the schema would refuse (`coercion.py:129`; 32-34);
  a bare reference inside a nested or aliased argument is not completed
  (`coercion.py:122`). `execute_readonly` "never raises", but compiling a pattern can
  (`actions.py:721`).
* **Ledger.** A line that was fetched but cut by the budget of every prompt counts as
  shown (`evidence.py:122-129`, `prompting/investigate.py:513-562`): requiring of a cited
  line that it is in `displayed`, where the code requires `ShownRefs`, fails in three steps.
  What is withheld is to be "said out loud on every render" (`evidence.py:238`). A
  `close_read` lists the lines its worker cites, or the first 20, counts all that it read and
  says that none is withheld (`orchestrator.py:725`, 744-751): the others are left out
  without a count. `decode` says withheld of the lines that matched less the texts it lists:
  too few when a line decodes into several texts, too many when most decode into none
  (`aggregation.py:602`; its headline has the number of texts). `EveryMatchIsAccountedFor`
  says of each kind what is told of it, and claims no more of these two. A file whose
  name has other characters than letters, digits and `_.-/` can be read, but no reference to
  it can be told in a citation (`validation/citations.py:32`, 38): every honest one is flagged
  as malformed. `HonestCitationsResolve` asks that none is only where names can be cited.
* **Verbs.** `extremes`, `tally`, `stats` and `decode` report zero matches for a pattern
  that occurs when no matching line holds a value to select (`aggregation.py:487`;
  `corpus.py:297`: "zero here means the pattern does not occur"). Without a selector a
  `where`-only tally counts an empty match at every character, and a where-only `extremes`
  prints its command for the pattern "None" (`actions.py:361`). A negated predicate counts
  the comments of a header. The note about an earlier question with the same literal ignores
  `where`.
* **Profile.** `column_values` passes over blank lines and `_selected_rows` does not, so
  that a tally of the first column counts an empty value on a blank line the pattern finds,
  and the profile's distribution of that column has none (`corpus.py:455`,
  `aggregation.py:176-197`; `corpus.py:437`: "exactly what `_selected_rows` does").
  `ScopeIsATally` leaves out questions with such a row (`BlankRows`). Sessions are made out
  by the upper median in the profile and by `statistics.median` in a timeline, from four
  moments and from two (`aggregation.py:311-312`: "Same gap logic, same threshold, so the
  two can never disagree about what a burst is"): with an even number of gaps they can. A
  subject of bursts may be "(no domain context)".
* **Printed commands.** `actions.py:376` says the predicates keep "the printed command's
  result identical to the verb's". The printed expressions for domains and hashes have lower
  case letters only, and `grep -o` minds the case (`actions.py:47-52`, 148-150), where the
  code's do not (`profiling.py:41-42`): of a domain in capitals the command prints nothing,
  or a piece, while `actions.py:46` calls the ones a mirror of the others and
  `profiling.py:84` calls them "byte-identical". A timeline's command prints every timestamp
  on a line, and an epoch wherever it stands (`actions.py:32-36`), where the code takes one
  from each line and an epoch at its beginning only (`profiling.py:37-39`); `actions.py:31`
  says that it "extracts the same stamps the code did". A file may declare another separator
  than a tab (`corpus.py:349-361`), which `awk` is never told. Predicates and streams of
  values are compared letter by letter where the code folds case; `awk` takes an absent
  column for the whole line and a cell of a short row for an empty one, which passes `!=`,
  skips comments that the code counts, and names its columns anew at every `#fields` row,
  wherever it is, where `field_map` reads the first one of the header alone, and knows no
  column of a predicate by number; of columns, or keys, whose names differ only in case the
  code takes the last, `awk` without predicates the one spelt as the question spells it, and
  `jq` any for a predicate; `// empty` drops a false or a null that the code counts
  (`actions.py:137` says so, its line 376 does not); an empty pattern with nothing to select
  is printed as the word None, or matches between all characters; the command of a context
  ignores `where` and is cut differently at the top of a file; `jq` stops at a line that is
  no object. `Reproducible` and `ReproducibleContext` leave these out of
  `CommandsReproduce`, and none of them for nothing: TLC refutes it on the instance when any
  one clause is dropped. Further ones lie in what the model takes no notice of (section 7).
* **Files.** A `close_read` counts 8 tokens of overhead per line and no header, the packing
  12 and the header (`orchestrator.py:992` against its comment at 636-639), so what it
  hands over may exceed the window by 4 tokens a line and the header. A range that ends
  with the file is reported as capped by the budget (`orchestrator.py:644`). A context
  window near the top of a file is not the one the step's shell command reproduces
  (`corpus.py:317`).
* **Lifecycle.** A failed run in a reused directory leaves the earlier brief there
  (`runner.py:13`: "absent if the run failed"; 193). Stats of a reused id read the first
  life's end and count the calls of all lives (`stats.py:339`). A note about a failed
  artifact is not guarded itself (`runner.py:198`, 220), and the readable view, which
  "never raises on a malformed line", does on one cut inside a character
  (`transcript.py:164`).

## 7. What is not modelled, and why

* **Text**: prompts, headlines, tables, the wording of hints, the syntax and quoting of
  shell commands, progress output, the body of the brief, the regular expressions that look
  for verdicts and injected instructions. Nothing depends on it but a reader. The injection
  scan is modelled by what it covers, a printed command by what it yields.
* **HTTP, JSON and streaming** of the LLM clients: a call is one of the ways it can end.
* **Characters**: case folding, the length of a word, entropy, base64 and regular
  expressions are functions on words. Floating-point arithmetic (means, percentiles,
  entropy) is left out; medians and gaps are integers.
* **Of the profile**: the tables of domains and addresses, time ranges and the page's layout.
  An axis shows at most 12 values and a subject at most 12 bursts; the model has all of them.
* **Stats and the sampling thread**: counters that nothing reads back.
* **Command line, configuration, case generators, grading, deployment**: they supply the
  constants. Most of the lines no definition stands for are of this kind (generators of
  synthetic cases, a model file for the server, grading, console output and text).
* **The dialects of the printed commands**: the expressions of Python, `grep -E`, `awk` and
  `jq` are taken to be one language, which they are not (`\d`, `\S` or `\t` in a pattern,
  the escapes that `awk -v` resolves in the value of a predicate, characters outside ASCII);
  so are the ways in which `jq` and Python write a number, a nested value or the blanks
  between them, and what ends a line (`splitlines` against newline). A `grep` over several
  files is taken to print one sum, where its `-c` prints one for each.
* **Arguments given twice**: a reply that names one argument both by its name and an alias, or
  both at the top and nested, or whose nested arguments are the text of a JSON object
  (`coercion.py:59-71`).
* **A kill inside the first record** of a transcript: `Start` opens the file and writes the
  record in one step.
* **Two processes with one id**: nothing in the code prevents a second process from being
  given the `--id` of one that is running (`runner.py:107-112`). They would append to one
  transcript and write over each other's artifacts, and the first to end would remove the
  marker of the other (`runner.py:187`), so that `RunningIsVisible` would be false.
  `AbortControl` and `RunLifecycle` assume of the operator that the lives of an id follow
  one another (`Open`, `Start`).
* **Files that change between the slicing and `Corpus.from_dir`** (`runner.py:124`): the
  case directory is taken to be still during a run.

## 8. Plan

Done in this order, the most important behaviour first: the loop and its contract; the
control files; the worker; the ledger; the commander's turn; the files; the lifecycle; the
proofs of the loop, the packing, the meta and the scan; the audit of the brief and the
synthesis call; the corpus, the aggregations, the profile and the printed commands; the
proofs of how a run ends, of the refinement, of the commander's turn, of the gate, of the
requests and of the worker's hits; the proofs of the transcript, of what a worker's report
vouches for, of the ledger, of the answers that agree, and of the printed commands.

What is left:

1. Composition of `CloseRead` with `Investigation` (the worker in the place of the choice
   of a step's error) as a refinement, and of `AbortControl` with `Investigation` through
   the sentinel.
2. `CaseQueries` over the ledger's renderings (`EvidenceLedger` has verbs of its own, by
   what their results carry), which would let one property speak of a line from the file to
   the brief.
