------------------------------ MODULE CaseFiles ------------------------------
(***************************************************************************)
(* How the files of a case reach the models. At load every file is packed, *)
(* line by line, into slices that fit a context window; the slices go into *)
(* a catalog by their id, and the catalog is scanned for text that         *)
(* addresses an AI. Later a close_read hands a range of one file to a      *)
(* worker, cut to a number of lines and to the budget of tokens.           *)
(*                                                                         *)
(* Files are numbered in the order of their names. A file is abstracted to *)
(* how many lines it has, how many of the first are comments, and what its *)
(* first n lines cost in tokens, the overhead of their references          *)
(* included. Costs are whole numbers.                                      *)
(*                                                                         *)
(* A definition D_Bug is a plausible mistake in D, used by nothing here.   *)
(***************************************************************************)
EXTENDS Integers, Sequences

CONSTANTS
  NumFiles,      \* files in logs/
  Stems,         \* file names without their suffix
  Contents,      \* bound: what may be in a file
  Overhead,      \* REF_OVERHEAD_TOKENS, in every line's cost
  ReadOverhead,  \* the smaller one a close_read counts with
  SliceBudget,   \* slice_token_budget
  MinBudget,     \* the floor of a slice's budget
  MaxPreamble,   \* MAX_PREAMBLE_LINES
  MaxRead        \* MAX_CLOSE_READ_LINES

Files == 1 .. NumFiles
AllPacked == NumFiles + 1
AllLoaded == NumFiles + 2

\* Every line costs at least its overhead.
IsContent(c) ==
  /\ c.lines \in Nat /\ c.comments \in 0 .. c.lines
  /\ c.upto \in [0 .. c.lines -> Nat] /\ c.upto[0] = 0
  /\ \A n \in 1 .. c.lines : c.upto[n] - c.upto[n - 1] >= Overhead

ASSUME CaseAssumption ==
  /\ NumFiles \in Nat \ {0}
  /\ \A c \in Contents : IsContent(c)
  /\ Overhead \in Nat \ {0} /\ ReadOverhead \in 0 .. Overhead
  /\ SliceBudget \in Nat \ {0} /\ MinBudget \in Nat \ {0}
  /\ MaxPreamble \in Nat /\ MaxRead \in Nat \ {0}

VARIABLES
  stem,     \* the stem of each file's name
  content,  \* what is in each file
  file,     \* the file that is being packed, AllPacked or AllLoaded
  cursor,   \* lines of it that have been looked at
  start,    \* the first line of the window that is growing
  windows,  \* the windows that are closed, as <<first, last>>
  catalog,  \* slice_id -> slice
  scanned,  \* the lines the injection scan has been over
  read      \* the slice the latest close_read handed to its worker

case == <<stem, content>>
packing == <<file, cursor, start, windows>>
vars == <<case, packing, catalog, scanned, read>>

Cost(c, first, last) == c.upto[last] - c.upto[first - 1]

(***************************************************************************)
(* Packing.                                                                *)
(***************************************************************************)

\* The comment lines that ride on every slice, and what they cost there.
Preamble(c) == IF c.comments < MaxPreamble THEN c.comments ELSE MaxPreamble

HeaderCost(c) == c.upto[Preamble(c)] - Overhead * Preamble(c)

\* Giving the lines the whole window and the header on top.
Budget_HeaderOnTop(c) == SliceBudget

Budget(c) ==
  IF SliceBudget - HeaderCost(c) > MinBudget THEN SliceBudget - HeaderCost(c) ELSE MinBudget

\* A first line, where there is none.
NoWindow_OneLine == <<1, 1>>

NoWindow == <<1, 0>>

\* _pack's running total.
Running == IF cursor < start THEN 0 ELSE Cost(content[file], start, cursor)

\* The window is not empty and the next line would not fit.
Overflows(c) == Running # 0 /\ Running + Cost(c, cursor + 1, cursor + 1) > Budget(c)

\* One round of _pack's loop.
TakeLine ==
  /\ file \in Files
  /\ cursor < content[file].lines
  /\ cursor' = cursor + 1
  /\ IF Overflows(content[file])
     THEN /\ windows' = Append(windows, <<start, cursor>>)
          /\ start' = cursor + 1
     ELSE UNCHANGED <<windows, start>>
  /\ UNCHANGED <<case, file, catalog, scanned, read>>

\* Leaving out the window that was still growing when the file ended.
Windows_ForgetsTheTail == IF content[file].lines = 0 THEN <<NoWindow>> ELSE windows

\* The last window: what is left, or the empty one of an empty file.
Windows == Append(windows, IF content[file].lines = 0 THEN NoWindow ELSE <<start, cursor>>)

SliceId(f, index) == <<stem[f], index>>

Slice(f, window) == [file |-> f, first |-> window[1], last |-> window[2]]

\* chunk_file returns and chunk_logs files its slices: a later one takes the place of an
\* earlier one with the same id.
FileSlices ==
  /\ file \in Files
  /\ cursor = content[file].lines
  /\ LET new == {SliceId(file, i) : i \in DOMAIN Windows} IN
     catalog' = [id \in DOMAIN catalog \cup new |->
                   IF id \in new THEN Slice(file, Windows[id[2]]) ELSE catalog[id]]
  /\ file' = file + 1 /\ cursor' = 0 /\ start' = 1 /\ windows' = <<>>
  /\ UNCHANGED <<case, scanned, read>>

LinesOf(slice) == {<<slice.file, n>> : n \in slice.first .. slice.last}

\* scan_catalog_for_injection, once everything is loaded.
Scan ==
  /\ file = AllPacked
  /\ file' = AllLoaded
  /\ scanned' = UNION {LinesOf(catalog[id]) : id \in DOMAIN catalog}
  /\ UNCHANGED <<case, cursor, start, windows, catalog, read>>

(***************************************************************************)
(* The lines of a close_read.                                              *)
(***************************************************************************)

\* What a close_read thinks lines first .. last cost.
ReadCost(c, first, last) ==
  Cost(c, first, last) - (Overhead - ReadOverhead) * (last - first + 1)

\* A budget that is met exactly does not fit.
Fits_Strictly(c, first, last) == last = first \/ ReadCost(c, first, last) < SliceBudget

Fits(c, first, last) == last = first \/ ReadCost(c, first, last) <= SliceBudget

\* The last line that is asked for, allowed and there.
RequestedEnd(c, from, to) ==
  LET allowed == IF to < from + MaxRead THEN to ELSE from + MaxRead - 1
  IN IF allowed < c.lines THEN allowed ELSE c.lines

\* _close_read, up to the tasking: the longest prefix that fits, and one line whatever
\* it costs. A range with no line in it is a failed step and nothing is handed over.
CloseRead(f, from, to) ==
  LET c == content[f] IN
  /\ file = AllLoaded
  /\ from <= RequestedEnd(c, from, to)
  /\ \E last \in from .. RequestedEnd(c, from, to) :
       /\ Fits(c, from, last)
       /\ last < RequestedEnd(c, from, to) => ~Fits(c, from, last + 1)
       /\ read' = [file |-> f, first |-> from, last |-> last, asked |-> to]
  /\ UNCHANGED <<case, packing, catalog, scanned>>

NoRead == [file |-> 0, first |-> 1, last |-> 0, asked |-> 0]

Init ==
  /\ stem \in [Files -> Stems]
  /\ content \in [Files -> Contents]
  /\ file = 1 /\ cursor = 0 /\ start = 1 /\ windows = <<>>
  /\ catalog = <<>> /\ scanned = {} /\ read = NoRead

Next ==
  \/ TakeLine \/ FileSlices \/ Scan
  \/ \E f \in Files :
       \E from \in 1 .. content[f].lines, to \in 1 .. content[f].lines + 1 :
         from <= to /\ CloseRead(f, from, to)

Spec == Init /\ [][Next]_vars

-----------------------------------------------------------------------------
(***************************************************************************)
(* Properties.                                                             *)
(***************************************************************************)

\* Types: slices are ranges of their files.
TypeOK ==
  /\ DOMAIN stem = Files
  /\ DOMAIN content = Files /\ \A f \in Files : IsContent(content[f])
  /\ file \in 1 .. AllLoaded
  /\ cursor \in Nat /\ start \in Nat \ {0}
  /\ file \in Files => cursor <= content[file].lines
  /\ windows \in Seq((Nat \ {0}) \X Nat)
  /\ \A id \in DOMAIN catalog :
       /\ catalog[id].file \in Files
       /\ catalog[id].first \in Nat \ {0} /\ catalog[id].last \in Nat
       /\ catalog[id].last <= content[catalog[id].file].lines

\* Files whose stem no other file of the case has.
Unshared(f) == \A g \in Files : stem[g] = stem[f] => g = f

Holding(f, n) == {id \in DOMAIN catalog : <<f, n>> \in LinesOf(catalog[id])}

\* "Mechanical chunking: every log line lands in exactly one slice", wherever windows are
\* cut and whatever overflows them, for every file that has its stem to itself; and no
\* slice of such a file holds anything else.
EveryLineInOneSlice ==
  \A f \in Files :
    (Unshared(f) /\ f < file) =>
      \A n \in 1 .. content[f].lines :
        \E id \in DOMAIN catalog : Holding(f, n) = {id}

\* "A slice that exceeds the model's context is rejected by the server": header and lines
\* of every slice fit the budget, unless it is a single line, or the header leaves less
\* than the floor.
SlicesFit ==
  \A id \in DOMAIN catalog :
    LET s == catalog[id]
        c == content[s.file] IN
    s.first < s.last =>
      \/ HeaderCost(c) + Cost(c, s.first, s.last) <= SliceBudget
      \/ /\ SliceBudget - HeaderCost(c) < MinBudget
         /\ Cost(c, s.first, s.last) <= MinBudget

\* A worker is given fewer lines than the commander asked for only at a real limit, and
\* never more: the range, the cap on lines, the end of the file, or a next line that does
\* not fit what the budget leaves.
ReadStopsAtALimit ==
  read # NoRead =>
    LET c == content[read.file] IN
    /\ read.last <= read.asked /\ read.last - read.first < MaxRead
    /\ \/ read.last = read.asked \/ read.last = c.lines
       \/ read.last = read.first + MaxRead - 1
       \/ ReadCost(c, read.first, read.last + 1) > SliceBudget

(***************************************************************************)
(* What the repository says of the program and the program does not do.    *)
(***************************************************************************)

\* loader.py: "Every line of every file ends up in exactly one slice"; runner.py:
\* "Injection scan runs once over all raw content at load time".
EveryLineIsScanned ==
  file = AllLoaded => \A f \in Files : \A n \in 1 .. content[f].lines : <<f, n>> \in scanned

=============================================================================
