--------------------------- MODULE CaseFilesProofs ---------------------------
(***************************************************************************)
(* The packing of files into slices and the cut of a close_read, for every *)
(* number of files, every content and every budget.                        *)
(*                                                                         *)
(* No property of the catalog is inductive: what a slice holds is decided  *)
(* while its window grows. The invariant therefore says of the window that *)
(* is growing that it is affordable, and of the closed ones that together  *)
(* they are the lines before it, each in one of them; and of the catalog   *)
(* that a slice is filed under the stem of its file.                       *)
(***************************************************************************)
EXTENDS CaseFiles, TLAPS, SequenceTheorems

Within(n, window) == window[1] <= n /\ n <= window[2]

\* Lines first .. last of a content are one line or cost no more than its budget.
Affordable(c, first, last) == first < last => Cost(c, first, last) <= Budget(c)

\* The window that is growing.
Growing ==
  file \in Files =>
    /\ start <= cursor + 1
    /\ start <= cursor => Running > 0
    /\ Affordable(content[file], start, cursor)

\* The windows lie before line s and hold each of the lines before it once.
Tiles(ws, s) ==
  /\ \A i \in DOMAIN ws : ws[i][2] < s
  /\ \A n \in 1 .. s - 1 : \E i \in DOMAIN ws : Within(n, ws[i])
  /\ \A i, j \in DOMAIN ws : \A n \in Nat :
       Within(n, ws[i]) /\ Within(n, ws[j]) => i = j

\* The windows that are closed.
Closed ==
  file \in Files =>
    /\ Tiles(windows, start)
    /\ \A i \in DOMAIN windows :
         Affordable(content[file], windows[i][1], windows[i][2])

\* What has been filed, and where.
Filed ==
  \A id \in DOMAIN catalog :
    /\ catalog[id].file < file
    /\ id[1] = stem[catalog[id].file]
    /\ Affordable(content[catalog[id].file], catalog[id].first, catalog[id].last)

PackInv ==
  TypeOK /\ Growing /\ Closed /\ Filed /\ EveryLineInOneSlice /\ ReadStopsAtALimit

-----------------------------------------------------------------------------
(***************************************************************************)
(* Costs and budgets are integers, and a line more costs what that line    *)
(* costs.                                                                  *)
(***************************************************************************)

LEMMA CostIsInt ==
  ASSUME NEW c, IsContent(c),
         NEW a \in Nat \ {0}, NEW b \in Nat, a <= b + 1, b <= c.lines
  PROVE  Cost(c, a, b) \in Int
<1>1. a - 1 \in 0 .. c.lines /\ b \in 0 .. c.lines
  BY DEF IsContent
<1>2. c.upto[a - 1] \in Nat /\ c.upto[b] \in Nat
  BY <1>1 DEF IsContent
<1>3. QED
  BY <1>2 DEF Cost

LEMMA CostOfOneMore ==
  ASSUME NEW c, IsContent(c),
         NEW a \in Nat \ {0}, NEW b \in Nat, a <= b + 1, b + 1 <= c.lines
  PROVE  /\ Cost(c, a, b + 1) = Cost(c, a, b) + Cost(c, b + 1, b + 1)
         /\ Cost(c, b + 1, b + 1) >= Overhead
<1>1. a - 1 \in 0 .. c.lines /\ b \in 0 .. c.lines /\ b + 1 \in 0 .. c.lines /\ b + 1 \in 1 .. c.lines
  BY DEF IsContent
<1>2. c.upto[a - 1] \in Nat /\ c.upto[b] \in Nat /\ c.upto[b + 1] \in Nat
  BY <1>1 DEF IsContent
<1>3. (b + 1) - 1 = b
  OBVIOUS
<1>4. c.upto[b + 1] - c.upto[(b + 1) - 1] >= Overhead
  BY <1>1 DEF IsContent
<1>5. QED
  BY <1>2, <1>3, <1>4 DEF Cost

LEMMA BudgetIsInt ==
  ASSUME NEW c, IsContent(c)
  PROVE  HeaderCost(c) \in Int /\ Budget(c) \in Int
<1>1. Preamble(c) \in 0 .. c.lines
  <2>1. c.lines \in Nat /\ c.comments \in 0 .. c.lines
    BY DEF IsContent
  <2>2. MaxPreamble \in Nat
    BY CaseAssumption
  <2>3. QED
    BY <2>1, <2>2 DEF Preamble
<1>2. c.upto[Preamble(c)] \in Nat /\ Preamble(c) \in Nat
  BY <1>1 DEF IsContent
<1>3. Overhead * Preamble(c) \in Int
  BY <1>2, CaseAssumption
<1>4. HeaderCost(c) \in Int
  BY <1>2, <1>3 DEF HeaderCost
<1>5. QED
  BY <1>4, CaseAssumption DEF Budget

(***************************************************************************)
(* Windows.                                                                *)
(***************************************************************************)

Window == (Nat \ {0}) \X Nat

\* Closing the window that grew from s to e, which may be empty.
LEMMA TilesOneMore ==
  ASSUME NEW ws \in Seq(Window), NEW s \in Nat \ {0}, NEW e \in Nat,
         s <= e + 1, Tiles(ws, s)
  PROVE  Tiles(Append(ws, <<s, e>>), e + 1)
<1> DEFINE more == Append(ws, <<s, e>>)
<1>0. <<s, e>> \in Window
  BY DEF Window
<1>1. /\ more \in Seq(Window) /\ DOMAIN more = 1 .. Len(ws) + 1 /\ DOMAIN ws = 1 .. Len(ws)
      /\ Len(ws) \in Nat
      /\ \A i \in DOMAIN ws : i \in DOMAIN more /\ more[i] = ws[i]
      /\ more[Len(ws) + 1] = <<s, e>>
  BY <1>0, LenProperties, AppendProperties
<1>2. \A i \in DOMAIN ws : ws[i][1] \in Nat \ {0} /\ ws[i][2] \in Nat /\ ws[i][2] < s
  <2> TAKE i \in DOMAIN ws
  <2>1. ws[i] \in Window
    BY <1>1, ElementOfSeq
  <2>2. QED
    BY <2>1 DEF Window, Tiles
<1>3. \A i \in DOMAIN more : i \in DOMAIN ws \/ i = Len(ws) + 1
  BY <1>1
<1>4. \A i \in DOMAIN more : more[i][2] < e + 1
  BY <1>1, <1>2, <1>3
<1>5. ASSUME NEW n \in 1 .. (e + 1) - 1
      PROVE  \E i \in DOMAIN more : Within(n, more[i])
  <2>1. CASE n < s
    <3>1. n \in 1 .. s - 1
      BY <2>1
    <3>2. QED
      BY <3>1, <1>1 DEF Tiles
  <2>2. CASE ~(n < s)
    <3>1. Len(ws) + 1 \in DOMAIN more
      BY <1>1
    <3>2. Within(n, <<s, e>>)
      BY <2>2 DEF Within
    <3>3. QED
      BY <3>1, <3>2, <1>1
  <2>3. QED
    BY <2>1, <2>2
<1>6. ASSUME NEW i \in DOMAIN more, NEW j \in DOMAIN more, NEW n \in Nat,
             Within(n, more[i]), Within(n, more[j])
      PROVE  i = j
  <2>1. CASE i \in DOMAIN ws /\ j \in DOMAIN ws
    BY <2>1, <1>1, <1>6 DEF Tiles
  <2>2. CASE i \in DOMAIN ws /\ j = Len(ws) + 1
    BY <2>2, <1>1, <1>2, <1>6 DEF Within
  <2>3. CASE i = Len(ws) + 1 /\ j \in DOMAIN ws
    BY <2>3, <1>1, <1>2, <1>6 DEF Within
  <2>4. QED
    BY <2>1, <2>2, <2>3, <1>3
<1>7. QED
  BY <1>4, <1>5, <1>6 DEF Tiles

-----------------------------------------------------------------------------
(***************************************************************************)
(* The invariant holds at first.                                           *)
(***************************************************************************)

LEMMA PackInit == Init => PackInv
<1> SUFFICES ASSUME Init PROVE PackInv
  OBVIOUS
<1>1. NumFiles \in Nat \ {0} /\ Files = 1 .. NumFiles /\ AllLoaded = NumFiles + 2
  BY CaseAssumption DEF Files, AllLoaded
<1>2. file = 1 /\ cursor = 0 /\ start = 1 /\ windows = <<>> /\ catalog = <<>> /\ read = NoRead
  BY DEF Init
<1>3. \A f \in Files : IsContent(content[f])
  BY CaseAssumption DEF Init
<1>4. TypeOK
  <2>1. file \in 1 .. AllLoaded /\ file \in Files
    BY <1>1, <1>2
  <2>2. cursor <= content[file].lines
    BY <1>2, <1>3, <2>1 DEF IsContent
  <2>3. QED
    BY <1>2, <1>3, <2>1, <2>2 DEF TypeOK, Init
<1>5. Growing
  BY <1>2 DEF Growing, Affordable
<1>6. Tiles(<<>>, 1)
  BY DEF Tiles
<1>7. Closed /\ Filed
  BY <1>2, <1>6 DEF Closed, Filed
<1>8. EveryLineInOneSlice
  BY <1>1, <1>2 DEF EveryLineInOneSlice
<1>9. ReadStopsAtALimit
  BY <1>2 DEF ReadStopsAtALimit
<1>10. QED
  BY <1>4, <1>5, <1>7, <1>8, <1>9 DEF PackInv

-----------------------------------------------------------------------------
(***************************************************************************)
(* A line is taken.                                                        *)
(***************************************************************************)

LEMMA TakeLineKeepsPackInv == PackInv /\ TakeLine => PackInv'
<1> SUFFICES ASSUME PackInv, TakeLine PROVE PackInv'
  OBVIOUS
<1> DEFINE c == content[file]
<1>1. /\ file \in Files /\ cursor < c.lines /\ cursor' = cursor + 1
      /\ content' = content /\ stem' = stem /\ file' = file
      /\ catalog' = catalog /\ scanned' = scanned /\ read' = read
  BY DEF TakeLine, case
<1>2. IsContent(c) /\ c.lines \in Nat /\ cursor \in Nat /\ start \in Nat \ {0}
  BY <1>1 DEF PackInv, TypeOK, IsContent
<1>3. start <= cursor + 1 /\ cursor + 1 <= c.lines /\ cursor + 1 \in Nat \ {0}
  BY <1>1, <1>2 DEF PackInv, Growing
<1>4. /\ Cost(c, start, cursor) \in Int /\ Cost(c, cursor + 1, cursor + 1) \in Int
      /\ Cost(c, start, cursor + 1) = Cost(c, start, cursor) + Cost(c, cursor + 1, cursor + 1)
      /\ Cost(c, cursor + 1, cursor + 1) > 0
      /\ Budget(c) \in Int
  <2>1. Cost(c, start, cursor) \in Int
    BY <1>2, <1>3, CostIsInt
  <2>2. Cost(c, cursor + 1, cursor + 1) \in Int
    BY <1>2, <1>3, CostIsInt
  <2>3. Overhead > 0 /\ Overhead \in Nat
    BY CaseAssumption
  <2>4. /\ Cost(c, start, cursor + 1) = Cost(c, start, cursor) + Cost(c, cursor + 1, cursor + 1)
        /\ Cost(c, cursor + 1, cursor + 1) >= Overhead
    BY <1>2, <1>3, CostOfOneMore
  <2>5. QED
    BY <2>1, <2>2, <2>3, <2>4, <1>2, BudgetIsInt
<1>5. Running = IF cursor < start THEN 0 ELSE Cost(c, start, cursor)
  BY DEF Running
<1>6. Running' = IF cursor' < start' THEN 0 ELSE Cost(c, start', cursor')
  BY <1>1 DEF Running
<1>7. windows \in Seq(Window) /\ Tiles(windows, start)
  BY <1>1 DEF PackInv, TypeOK, Closed, Window
<1>8. ASSUME Overflows(c)
      PROVE  Growing' /\ Closed' /\ windows' \in Seq(Window) /\ start' \in Nat \ {0}
  <2>1. windows' = Append(windows, <<start, cursor>>) /\ start' = cursor + 1
    BY <1>8 DEF TakeLine
  <2>2. Growing'
    <3>1. Running' = Cost(c, cursor + 1, cursor + 1)
      BY <1>1, <1>2, <1>6, <2>1
    <3>2. ~(start' < cursor') /\ start' <= cursor' + 1
      BY <1>1, <1>2, <2>1
    <3>3. QED
      BY <3>1, <3>2, <1>4 DEF Growing, Affordable
  <2>3. Tiles(windows', start')
    BY <1>2, <1>3, <1>7, <2>1, TilesOneMore
  <2>4. <<start, cursor>> \in Window
    BY <1>2 DEF Window
  <2>5. windows' \in Seq(Window)
    BY <1>7, <2>1, <2>4, AppendProperties
  <2>6. ASSUME NEW i \in DOMAIN windows'
        PROVE  Affordable(c, windows'[i][1], windows'[i][2])
    <3>1. /\ Len(windows) \in Nat /\ DOMAIN windows = 1 .. Len(windows)
          /\ DOMAIN windows' = 1 .. Len(windows) + 1
          /\ windows'[Len(windows) + 1] = <<start, cursor>>
          /\ \A k \in 1 .. Len(windows) : windows'[k] = windows[k]
      BY <1>7, <2>1, <2>4, LenProperties, AppendProperties
    <3>2. CASE i \in DOMAIN windows
      BY <3>1, <3>2, <1>1 DEF PackInv, Closed
    <3>3. CASE i = Len(windows) + 1
      BY <3>1, <3>3, <1>1 DEF PackInv, Growing
    <3>4. QED
      BY <3>1, <3>2, <3>3
  <2>7. Closed'
    BY <2>3, <2>6, <1>1 DEF Closed, Affordable, Cost, Budget, HeaderCost, Preamble
  <2>8. windows' \in Seq(Window) /\ start' \in Nat \ {0}
    BY <2>1, <2>5, <1>3
  <2>9. QED
    BY <2>2, <2>7, <2>8
<1>9. ASSUME ~Overflows(c)
      PROVE  Growing' /\ Closed' /\ windows' \in Seq(Window) /\ start' \in Nat \ {0}
  <2>1. windows' = windows /\ start' = start
    BY <1>9 DEF TakeLine
  <2>2. Running' = Cost(c, start, cursor + 1)
    BY <1>1, <1>2, <1>3, <1>6, <2>1
  <2>3. Running' > 0
    <3>1. CASE cursor < start
      <4>1. start = cursor + 1
        BY <3>1, <1>2, <1>3
      <4>2. QED
        BY <4>1, <2>2, <1>4
    <3>2. CASE start <= cursor
      <4>1. Running > 0 /\ Running = Cost(c, start, cursor)
        BY <3>2, <1>1, <1>2, <1>5 DEF PackInv, Growing
      <4>2. QED
        BY <4>1, <2>2, <1>4
    <3>3. QED
      BY <3>1, <3>2, <1>2
  <2>4. start < cursor + 1 => Cost(c, start, cursor + 1) <= Budget(c)
    <3>1. SUFFICES ASSUME start < cursor + 1
                   PROVE  Cost(c, start, cursor + 1) <= Budget(c)
      OBVIOUS
    <3>2. start <= cursor
      BY <3>1, <1>2
    <3>3. Running > 0 /\ Running = Cost(c, start, cursor)
      BY <3>2, <1>1, <1>2, <1>5 DEF PackInv, Growing
    <3>4. Running + Cost(c, cursor + 1, cursor + 1) <= Budget(c)
      BY <3>3, <1>4, <1>9 DEF Overflows
    <3>5. QED
      BY <3>3, <3>4, <1>4
  <2>5. Growing'
    BY <2>1, <2>3, <2>4, <1>1, <1>2, <1>3
       DEF Growing, Affordable, Cost, Budget, HeaderCost, Preamble
  <2>6. Closed'
    BY <2>1, <1>1 DEF PackInv, Closed, Affordable, Cost, Budget, HeaderCost, Preamble
  <2>7. QED
    BY <2>1, <2>5, <2>6, <1>2, <1>7
<1>10. Growing' /\ Closed' /\ windows' \in Seq(Window) /\ start' \in Nat \ {0}
  BY <1>8, <1>9
<1>11. TypeOK'
  BY <1>1, <1>2, <1>3, <1>10 DEF PackInv, TypeOK, Window, IsContent
<1>12. Filed'
  BY <1>1 DEF PackInv, Filed, Affordable, Cost, Budget, HeaderCost, Preamble
<1>13. EveryLineInOneSlice'
  BY <1>1 DEF PackInv, EveryLineInOneSlice, Unshared, Holding, LinesOf
<1>14. ReadStopsAtALimit'
  BY <1>1 DEF PackInv, ReadStopsAtALimit, ReadCost, Cost
<1>15. QED
  BY <1>10, <1>11, <1>12, <1>13, <1>14 DEF PackInv

-----------------------------------------------------------------------------
(***************************************************************************)
(* The slices of a file are filed.                                         *)
(***************************************************************************)

LEMMA FileSlicesKeepsPackInv == PackInv /\ FileSlices => PackInv'
<1> SUFFICES ASSUME PackInv, FileSlices PROVE PackInv'
  OBVIOUS
<1> DEFINE c == content[file]
           W == Windows
           new == {SliceId(file, i) : i \in DOMAIN W}
<1>1. /\ file \in Files /\ cursor = c.lines
      /\ content' = content /\ stem' = stem /\ scanned' = scanned /\ read' = read
      /\ file' = file + 1 /\ cursor' = 0 /\ start' = 1 /\ windows' = <<>>
      /\ catalog' = [id \in DOMAIN catalog \cup new |->
                       IF id \in new THEN Slice(file, W[id[2]]) ELSE catalog[id]]
  BY DEF FileSlices, case
<1>2. /\ IsContent(c) /\ c.lines \in Nat /\ cursor \in Nat /\ start \in Nat \ {0}
      /\ start <= cursor + 1
      /\ windows \in Seq(Window) /\ Tiles(windows, start)
  BY <1>1 DEF PackInv, TypeOK, IsContent, Growing, Closed, Window
<1>3. NumFiles \in Nat \ {0} /\ Files = 1 .. NumFiles /\ AllLoaded = NumFiles + 2
  BY CaseAssumption DEF Files, AllLoaded
<1>4. \/ W = Append(windows, <<start, cursor>>)
      \/ W = Append(windows, NoWindow) /\ c.lines = 0
  BY DEF Windows
<1>5. /\ W \in Seq(Window)
      /\ Tiles(W, cursor + 1)
      /\ \A i \in DOMAIN W : Affordable(c, W[i][1], W[i][2])
  <2>1. PICK first \in Nat \ {0} :
          /\ W = Append(windows, <<first, cursor>>)
          /\ first <= cursor + 1
          /\ Tiles(windows, first)
          /\ Affordable(c, first, cursor)
    <3>1. CASE W = Append(windows, <<start, cursor>>)
      BY <3>1, <1>1, <1>2 DEF PackInv, Growing
    <3>2. CASE W = Append(windows, NoWindow) /\ c.lines = 0
      <4>1. start = 1 /\ cursor = 0
        BY <3>2, <1>1, <1>2
      <4>2. QED
        BY <4>1, <3>2, <1>2 DEF NoWindow, Affordable
    <3>3. QED
      BY <3>1, <3>2, <1>4
  <2>2. <<first, cursor>> \in Window
    BY <1>2 DEF Window
  <2>3. /\ W \in Seq(Window)
        /\ Len(windows) \in Nat /\ DOMAIN windows = 1 .. Len(windows)
        /\ DOMAIN W = 1 .. Len(windows) + 1
        /\ W[Len(windows) + 1] = <<first, cursor>>
        /\ \A k \in 1 .. Len(windows) : W[k] = windows[k]
    BY <1>2, <2>1, <2>2, LenProperties, AppendProperties
  <2>4. Tiles(W, cursor + 1)
    BY <1>2, <2>1, TilesOneMore
  <2>5. ASSUME NEW i \in DOMAIN W
        PROVE  Affordable(c, W[i][1], W[i][2])
    <3>1. CASE i \in DOMAIN windows
      BY <3>1, <2>3, <1>1 DEF PackInv, Closed
    <3>2. CASE i = Len(windows) + 1
      BY <3>2, <2>1, <2>3
    <3>3. QED
      BY <3>1, <3>2, <2>3
  <2>6. QED
    BY <2>3, <2>4, <2>5
<1>6. \A i \in DOMAIN W : /\ W[i][1] \in Nat \ {0} /\ W[i][2] \in Nat
                         /\ W[i][2] <= c.lines
  <2> TAKE i \in DOMAIN W
  <2>1. W[i] \in Window
    BY <1>5, ElementOfSeq, LenProperties
  <2>2. W[i][2] < cursor + 1
    BY <1>5 DEF Tiles
  <2>3. QED
    BY <2>1, <2>2, <1>1, <1>2 DEF Window
<1> HIDE DEF W
\* What is in the catalog now.
<1>7. \A id \in new : /\ id[1] = stem[file] /\ id[2] \in DOMAIN W
                      /\ id = <<stem[file], id[2]>>
  BY DEF SliceId
<1>8. \A i \in DOMAIN W : <<stem[file], i>> \in new
  BY DEF SliceId
<1>9. /\ DOMAIN catalog' = DOMAIN catalog \cup new
      /\ \A id \in new : /\ catalog'[id].file = file
                         /\ catalog'[id].first = W[id[2]][1]
                         /\ catalog'[id].last = W[id[2]][2]
      /\ \A id \in DOMAIN catalog' : id \notin new =>
           id \in DOMAIN catalog /\ catalog'[id] = catalog[id]
  BY <1>1 DEF Slice
<1> HIDE DEF new
<1>10. /\ file \in Files /\ content' = content /\ stem' = stem /\ read' = read
       /\ file' = file + 1 /\ cursor' = 0 /\ start' = 1 /\ windows' = <<>>
  BY <1>1
<1>11. TypeOK'
  <2>1. file' \in 1 .. AllLoaded
    BY <1>1, <1>3
  <2>2. file' \in Files => cursor' <= content'[file'].lines
    BY <1>1 DEF PackInv, TypeOK, IsContent
  <2>3. ASSUME NEW id \in DOMAIN catalog'
        PROVE  /\ catalog'[id].file \in Files
               /\ catalog'[id].first \in Nat \ {0} /\ catalog'[id].last \in Nat
               /\ catalog'[id].last <= content[catalog'[id].file].lines
    <3>1. CASE id \in new
      BY <3>1, <1>1, <1>6, <1>7, <1>9
    <3>2. CASE id \notin new
      BY <3>2, <1>9 DEF PackInv, TypeOK
    <3>3. QED
      BY <3>1, <3>2
  <2>4. QED
    <3>1. windows' \in Seq((Nat \ {0}) \X Nat)
      BY <1>10
    <3>2. cursor' \in Nat /\ start' \in Nat \ {0} /\ DOMAIN stem' = Files
          /\ DOMAIN content' = Files /\ \A f \in Files : IsContent(content[f])
      BY <1>10 DEF PackInv, TypeOK
    <3>3. QED
      BY <2>1, <2>2, <2>3, <3>1, <3>2, <1>10 DEF TypeOK, IsContent
<1>12. Growing'
  BY <1>1 DEF Growing, Affordable
<1>13. Closed'
  <2>1. Tiles(<<>>, 1)
    BY DEF Tiles
  <2>2. QED
    BY <2>1, <1>1 DEF Closed
<1>14. Filed'
  <2>1. ASSUME NEW id \in DOMAIN catalog'
        PROVE  /\ catalog'[id].file < file + 1
               /\ id[1] = stem[catalog'[id].file]
               /\ Affordable(content[catalog'[id].file], catalog'[id].first, catalog'[id].last)
    <3>1. CASE id \in new
      BY <3>1, <1>1, <1>3, <1>5, <1>7, <1>9
    <3>2. CASE id \notin new
      <4>1. id \in DOMAIN catalog /\ catalog'[id] = catalog[id]
        BY <3>2, <1>9
      <4>2. catalog[id].file \in Nat /\ file \in Nat
        BY <4>1, <1>1, <1>3 DEF PackInv, TypeOK
      <4>3. QED
        BY <4>1, <4>2 DEF PackInv, Filed
    <3>3. QED
      BY <3>1, <3>2
  <2>2. QED
    BY <2>1, <1>10 DEF Filed, Affordable, Cost, Budget, HeaderCost, Preamble
<1>15. EveryLineInOneSlice'
  <2> SUFFICES ASSUME NEW f \in Files, Unshared(f), f < file + 1,
                      NEW n \in 1 .. content[f].lines
               PROVE  \E id \in DOMAIN catalog' : Holding(f, n)' = {id}
    BY <1>1 DEF EveryLineInOneSlice, Unshared
  <2>1. \A id : id \in Holding(f, n)' <=>
             /\ id \in DOMAIN catalog'
             /\ catalog'[id].file = f
             /\ n \in catalog'[id].first .. catalog'[id].last
    BY DEF Holding, LinesOf
  <2>2. \A id : id \in Holding(f, n) <=>
             /\ id \in DOMAIN catalog
             /\ catalog[id].file = f
             /\ n \in catalog[id].first .. catalog[id].last
    BY DEF Holding, LinesOf
  <2>3. CASE f = file
    <3>1. n \in 1 .. (cursor + 1) - 1 /\ n \in Nat
      BY <2>3, <1>1, <1>2
    <3>2. PICK i \in DOMAIN W : Within(n, W[i])
      BY <3>1, <1>5 DEF Tiles
    <3>3. <<stem[file], i>> \in Holding(f, n)'
      BY <3>1, <3>2, <2>1, <2>3, <1>6, <1>8, <1>9 DEF Within
    <3>4. ASSUME NEW id \in Holding(f, n)'
          PROVE  id = <<stem[file], i>>
      <4>1. id \in new
        <5>1. SUFFICES ASSUME id \notin new PROVE FALSE
          OBVIOUS
        <5>2. id \in DOMAIN catalog /\ catalog[id].file = file
          BY <5>1, <2>1, <2>3, <1>9
        <5>3. QED
          BY <5>2, <1>1, <1>3 DEF PackInv, Filed
      <4>2. id[2] \in DOMAIN W /\ Within(n, W[id[2]])
        BY <4>1, <2>1, <1>6, <1>7, <1>9 DEF Within
      <4>3. id[2] = i
        BY <4>2, <3>1, <3>2, <1>5 DEF Tiles
      <4>4. QED
        BY <4>1, <4>3, <1>7
    <3>5. QED
      BY <3>3, <3>4, <2>1
  <2>4. CASE f # file
    <3>1. f < file
      BY <2>4, <1>1, <1>3
    <3>2. PICK id \in DOMAIN catalog : Holding(f, n) = {id}
      BY <3>1 DEF PackInv, EveryLineInOneSlice
    <3>3. id \notin new
      <4>1. id[1] = stem[f]
        BY <3>2, <2>2 DEF PackInv, Filed
      <4>2. QED
        BY <4>1, <2>4, <1>1, <1>7 DEF Unshared
    <3>4. id \in Holding(f, n)'
      BY <3>2, <3>3, <2>1, <2>2, <1>9
    <3>5. \A id2 \in Holding(f, n)' : id2 = id
      <4> TAKE id2 \in Holding(f, n)'
      <4>1. id2 \notin new
        BY <2>1, <2>4, <1>9
      <4>2. id2 \in Holding(f, n)
        BY <4>1, <2>1, <2>2, <1>9
      <4>3. QED
        BY <4>2, <3>2
    <3>6. QED
      BY <3>4, <3>5, <2>1
  <2>5. QED
    BY <2>3, <2>4
<1>16. ReadStopsAtALimit'
  BY <1>1 DEF PackInv, ReadStopsAtALimit, ReadCost, Cost
<1>17. QED
  BY <1>11, <1>12, <1>13, <1>14, <1>15, <1>16 DEF PackInv

-----------------------------------------------------------------------------
(***************************************************************************)
(* The other steps, and the theorems.                                      *)
(***************************************************************************)

\* Neither the scan nor a close_read touches a window or a slice.
LEMMA FiledIsKept ==
  ASSUME PackInv, UNCHANGED <<case, catalog>>,
         \/ UNCHANGED packing
         \/ file = AllPacked /\ file' = AllLoaded /\ UNCHANGED <<cursor, start, windows>>
  PROVE  TypeOK' /\ Growing' /\ Closed' /\ Filed' /\ EveryLineInOneSlice'
<1>1. stem' = stem /\ content' = content /\ catalog' = catalog
  BY DEF case
<1>2. NumFiles \in Nat \ {0} /\ Files = 1 .. NumFiles /\ AllPacked = NumFiles + 1
      /\ AllLoaded = NumFiles + 2
  BY CaseAssumption DEF Files, AllPacked, AllLoaded
<1>3. cursor' = cursor /\ start' = start /\ windows' = windows
  BY DEF packing
<1>4. file' = file \/ (file = AllPacked /\ file' = AllLoaded)
  BY DEF packing
<1>5. file' \in 1 .. AllLoaded /\ (file' \in Files => file' = file)
      /\ (\A f \in Files : f < file' => f < file)
  BY <1>2, <1>4 DEF PackInv, TypeOK
<1>6. TypeOK'
  BY <1>1, <1>3, <1>5 DEF PackInv, TypeOK, IsContent
<1>7. Growing' /\ Closed'
  BY <1>1, <1>3, <1>5
     DEF PackInv, Growing, Closed, Running, Affordable, Cost, Budget, HeaderCost, Preamble
<1>8. Filed'
  <2>1. \A id \in DOMAIN catalog : catalog[id].file < file'
    BY <1>2, <1>4 DEF PackInv, TypeOK, Filed
  <2>2. QED
    BY <2>1, <1>1 DEF PackInv, Filed, Affordable, Cost, Budget, HeaderCost, Preamble
<1>9. EveryLineInOneSlice'
  BY <1>1, <1>5 DEF PackInv, EveryLineInOneSlice, Unshared, Holding, LinesOf
<1>10. QED
  BY <1>6, <1>7, <1>8, <1>9

\* A close_read stops where the next line would be one too many for some limit.
LEMMA CloseReadStopsAtALimit ==
  ASSUME PackInv, NEW f \in Files,
         NEW from \in 1 .. content[f].lines, NEW to \in 1 .. content[f].lines + 1,
         CloseRead(f, from, to)
  PROVE  ReadStopsAtALimit'
<1> DEFINE c == content[f]
           end == RequestedEnd(c, from, to)
<1>1. PICK last \in from .. end :
        /\ last < end => ~Fits(c, from, last + 1)
        /\ read' = [file |-> f, first |-> from, last |-> last, asked |-> to]
  BY DEF CloseRead
<1>2. content' = content
  BY DEF CloseRead, case
<1>3. /\ c.lines \in Nat /\ from \in Nat /\ to \in Nat /\ MaxRead \in Nat \ {0}
      /\ SliceBudget \in Int
  BY CaseAssumption DEF PackInv, TypeOK, IsContent
<1>4. /\ end \in Int /\ end <= to /\ end <= from + MaxRead - 1
      /\ end = to \/ end = c.lines \/ end = from + MaxRead - 1
      /\ end <= c.lines
  BY <1>3 DEF RequestedEnd
<1>5. last \in Int /\ from <= last /\ last <= end
  BY <1>1, <1>3, <1>4
<1>6. last < end => ReadCost(c, from, last + 1) > SliceBudget
  <2> SUFFICES ASSUME last < end PROVE ReadCost(c, from, last + 1) > SliceBudget
    OBVIOUS
  <2>1. ~(ReadCost(c, from, last + 1) <= SliceBudget)
    BY <1>1, <1>5 DEF Fits
  <2>2. Cost(c, from, last + 1) \in Int
    <3>1. IsContent(c) /\ from \in Nat \ {0} /\ last + 1 \in Nat
      BY <1>3, <1>5 DEF PackInv, TypeOK
    <3>2. from <= (last + 1) + 1 /\ last + 1 <= c.lines
      BY <1>3, <1>4, <1>5
    <3>3. QED
      BY <3>1, <3>2, CostIsInt
  <2>3. Overhead - ReadOverhead \in Int
    BY CaseAssumption
  <2>4. (last + 1) - from + 1 \in Int
    BY <1>3, <1>5
  <2>5. (Overhead - ReadOverhead) * ((last + 1) - from + 1) \in Int
    BY <2>3, <2>4
  <2>6. ReadCost(c, from, last + 1) \in Int
    BY <2>2, <2>5 DEF ReadCost
  <2>7. QED
    BY <2>1, <2>6, <1>3
<1>7. /\ last <= to /\ last - from < MaxRead
      /\ \/ last = to \/ last = c.lines \/ last = from + MaxRead - 1
         \/ ReadCost(c, from, last + 1) > SliceBudget
  <2>1. last <= to /\ last - from < MaxRead
    BY <1>3, <1>4, <1>5
  <2>2. last < end \/ last = end
    BY <1>4, <1>5
  <2>3. QED
    BY <2>1, <2>2, <1>4, <1>6
<1>8. QED
  BY <1>1, <1>2, <1>7 DEF ReadStopsAtALimit, ReadCost, Cost

LEMMA PackNext == PackInv /\ [Next]_vars => PackInv'
<1> SUFFICES ASSUME PackInv, [Next]_vars PROVE PackInv'
  OBVIOUS
<1>1. CASE TakeLine
  BY <1>1, TakeLineKeepsPackInv
<1>2. CASE FileSlices
  BY <1>2, FileSlicesKeepsPackInv
<1>3. CASE Scan
  <2>1. UNCHANGED <<case, catalog, cursor, start, windows, read>>
        /\ file = AllPacked /\ file' = AllLoaded
    BY <1>3 DEF Scan
  <2>2. TypeOK' /\ Growing' /\ Closed' /\ Filed' /\ EveryLineInOneSlice'
    BY <2>1, FiledIsKept
  <2>3. ReadStopsAtALimit'
    BY <2>1 DEF PackInv, ReadStopsAtALimit, ReadCost, Cost, case
  <2>4. QED
    BY <2>2, <2>3 DEF PackInv
<1>4. ASSUME NEW f \in Files,
             NEW from \in 1 .. content[f].lines, NEW to \in 1 .. content[f].lines + 1,
             CloseRead(f, from, to)
      PROVE  PackInv'
  <2>1. UNCHANGED <<case, catalog, packing>>
    BY <1>4 DEF CloseRead
  <2>2. TypeOK' /\ Growing' /\ Closed' /\ Filed' /\ EveryLineInOneSlice'
    BY <2>1, FiledIsKept
  <2>3. ReadStopsAtALimit'
    BY <1>4, CloseReadStopsAtALimit
  <2>4. QED
    BY <2>2, <2>3 DEF PackInv
<1>5. CASE UNCHANGED vars
  <2>1. UNCHANGED <<case, catalog, packing, read>>
    BY <1>5 DEF vars
  <2>2. TypeOK' /\ Growing' /\ Closed' /\ Filed' /\ EveryLineInOneSlice'
    BY <2>1, FiledIsKept
  <2>3. ReadStopsAtALimit'
    BY <2>1 DEF PackInv, ReadStopsAtALimit, ReadCost, Cost, case
  <2>4. QED
    BY <2>2, <2>3 DEF PackInv
<1>6. QED
  BY <1>1, <1>2, <1>3, <1>4, <1>5 DEF Next

LEMMA PackAlways == Spec => []PackInv
BY PackInit, PackNext, PTL DEF Spec

\* The loop of _pack never runs past its file, and every slice is a range of one.
THEOREM CaseTypeCorrect == Spec => []TypeOK
<1>1. PackInv => TypeOK
  BY DEF PackInv
<1>2. QED
  BY <1>1, PackAlways, PTL

\* chunk_logs loses and doubles no line, wherever the windows are cut: every line of a
\* file that has its stem to itself is in exactly one slice, for every case.
THEOREM LinesAreFiledOnce == Spec => []EveryLineInOneSlice
<1>1. PackInv => EveryLineInOneSlice
  BY DEF PackInv
<1>2. QED
  BY <1>1, PackAlways, PTL

\* No slice of more than one line exceeds the context it was packed for, header included,
\* unless the header alone leaves less than the floor.
THEOREM SlicesAlwaysFit == Spec => []SlicesFit
<1>1. PackInv => SlicesFit
  <2> SUFFICES ASSUME PackInv, NEW id \in DOMAIN catalog,
                      catalog[id].first < catalog[id].last
               PROVE  LET s == catalog[id]
                          c == content[s.file] IN
                      \/ HeaderCost(c) + Cost(c, s.first, s.last) <= SliceBudget
                      \/ /\ SliceBudget - HeaderCost(c) < MinBudget
                         /\ Cost(c, s.first, s.last) <= MinBudget
    BY DEF SlicesFit
  <2> DEFINE s == catalog[id]
             c == content[s.file]
             cost == Cost(c, s.first, s.last)
             header == HeaderCost(c)
  <2>1. /\ IsContent(c) /\ s.first \in Nat \ {0} /\ s.last \in Nat /\ s.last <= c.lines
    BY DEF PackInv, TypeOK
  <2>2. cost \in Int
    BY <2>1, CostIsInt
  <2>3. header \in Int /\ SliceBudget \in Int /\ MinBudget \in Int
    BY <2>1, BudgetIsInt, CaseAssumption
  <2>4. cost <= Budget(c)
    BY DEF PackInv, Filed, Affordable
  <2>5. cost <= (IF SliceBudget - header > MinBudget THEN SliceBudget - header ELSE MinBudget)
    BY <2>4 DEF Budget
  <2> HIDE DEF cost, header
  <2>6. \/ header + cost <= SliceBudget
        \/ SliceBudget - header < MinBudget /\ cost <= MinBudget
    BY <2>2, <2>3, <2>5
  <2>7. QED
    BY <2>6 DEF cost, header
<1>2. QED
  BY <1>1, PackAlways, PTL

\* A worker is given less than the commander asked for only where a limit says so, and
\* never more: for every range, every file and every budget.
THEOREM ReadsStopAtALimit == Spec => []ReadStopsAtALimit
<1>1. PackInv => ReadStopsAtALimit
  BY DEF PackInv
<1>2. QED
  BY <1>1, PackAlways, PTL

=============================================================================
