---------------------------- MODULE MCCaseQueries ----------------------------
(***************************************************************************)
(* Five families of cases of two files each: a delimited file with and     *)
(* without its header, lines that the printed commands read in their own   *)
(* way, a file of JSON lines, a file of dated lines with a random-looking  *)
(* name, and lines about one long literal. The caps of the listings are    *)
(* scaled down to the files.                                               *)
(***************************************************************************)
EXTENDS CaseQueries

MCLex ==
  <<"", "#close", "#fields", "#separator", "1", "10", "10.0.0.1", "10.0.0.2", "11", "2", "40",
    "9", "9f+Kq0/xZ81bQeT2", "<ID>", "API-SYNC.net", "Event_ID", "NOERROR", "NS", "NXDOMAIN",
    "QUJDREVGR0hJSktM/w", "Qtype", "TXT", "Www.cdn.net", "ZWNobyBoZWxsbzEy", "ann",
    "api-sync.net", "bob", "bytes", "cdn.net", "event_id", "host", "k3.t.evil.net", "null",
    "qtype", "query", "txt", "user", "www.cdn.net", "{">>

MCWords == ToSet(MCLex)

MCFold ==
  [w \in MCWords |-> CASE w = "API-SYNC.net" -> "api-sync.net"
                       [] w = "Event_ID" -> "event_id"
                       [] w = "Qtype" -> "qtype"
                       [] w = "TXT" -> "txt"
                       [] w = "Www.cdn.net" -> "www.cdn.net"
                       [] OTHER -> w]

OfLength(n) ==
  CASE n = 1 -> {"1", "2", "9", "{"}
    [] n = 2 -> {"10", "11", "40", "NS"}
    [] n = 3 -> {"TXT", "ann", "bob", "txt"}
    [] n = 4 -> {"<ID>", "host", "null", "user"}
    [] n = 5 -> {"Qtype", "bytes", "qtype", "query"}
    [] n = 6 -> {"#close"}
    [] n = 7 -> {"#fields", "NOERROR", "cdn.net"}
    [] n = 8 -> {"10.0.0.1", "10.0.0.2", "Event_ID", "NXDOMAIN", "event_id"}
    [] n = 10 -> {"#separator"}
    [] n = 11 -> {"Www.cdn.net", "www.cdn.net"}
    [] n = 12 -> {"API-SYNC.net", "api-sync.net"}
    [] n = 13 -> {"k3.t.evil.net"}
    [] n = 16 -> {"9f+Kq0/xZ81bQeT2", "ZWNobyBoZWxsbzEy"}
    [] n = 18 -> {"QUJDREVGR0hJSktM/w"}
    [] OTHER -> {}

MCLength == [w \in MCWords |-> IF w = "" THEN 0 ELSE CHOOSE n \in 1 .. 18 : w \in OfLength(n)]

MCNumbered == [w \in {"1", "2"} |-> IF w = "1" THEN 1 ELSE 2]

MCNumber ==
  [w \in {"1", "2", "9", "10", "11", "40"} |->
     CASE w = "1" -> 1 [] w = "2" -> 2 [] w = "9" -> 9
       [] w = "10" -> 10 [] w = "11" -> 11 [] w = "40" -> 40]

\* A regex of letters: "1" is found in any word with a 1 in it.
MCLike ==
  [w \in MCWords |-> IF w = "1" THEN {"1", "10", "11", "10.0.0.1", "10.0.0.2"} ELSE {MCFold[w]}]

MCFileOrder == <<"a", "b">>

MCAddresses == {"10.0.0.1", "10.0.0.2"}

MCDomains ==
  {"api-sync.net", "API-SYNC.net", "cdn.net", "k3.t.evil.net", "Www.cdn.net", "www.cdn.net"}

MCEntities == [kind \in {"ip", "domain"} |-> IF kind = "ip" THEN MCAddresses ELSE MCDomains]

MCSmallOnly == {"domain"}

\* In lower case nothing of one domain is found, and the end of another.
MCPieces ==
  [kind \in {"ip", "domain"} |->
     [w \in MCWords |-> CASE w \notin MCEntities[kind] \/ w = "API-SYNC.net" -> <<>>
                          [] w = "Www.cdn.net" -> <<"cdn.net">>
                          [] OTHER -> <<w>>]]

MCRun(valid, readable, symbols, entropy) ==
  [valid |-> valid, readable |-> readable, symbols |-> symbols, entropy |-> entropy]

MCEncoded ==
  [w \in {"9f+Kq0/xZ81bQeT2", "QUJDREVGR0hJSktM/w", "ZWNobyBoZWxsbzEy"} |->
     CASE w = "ZWNobyBoZWxsbzEy" -> <<MCRun(TRUE, TRUE, TRUE, TRUE)>>
       [] w = "9f+Kq0/xZ81bQeT2" -> <<MCRun(TRUE, FALSE, TRUE, TRUE)>>
       [] OTHER -> <<MCRun(FALSE, FALSE, TRUE, TRUE)>>]

MCStructure ==
  [w \in MCAddresses \cup MCDomains |-> IF w \in MCAddresses THEN "host" ELSE "query"]

MCIdCandidates == {"NXDOMAIN", "Event_ID", "event_id"}

MCDigitless == [w \in MCWords |-> IF w \in DOMAIN MCNumber THEN "1" ELSE w]

MCPreferred == {"event_id", "qtype"}

MCRandom == [w \in {"k3.t.evil.net"} |-> "k3"]

MCSuffix ==
  [w \in MCDomains |-> IF w = "k3.t.evil.net" THEN "t.evil.net" ELSE w]

MCSources == MCAddresses

-----------------------------------------------------------------------------
(***************************************************************************)
(* Questions.                                                              *)
(***************************************************************************)

Of(anchors) == [anchors |-> anchors, tight |-> FALSE, valid |-> TRUE]

\* ".*", and beside a predicate also no pattern at all.
Anything == Of(<<>>)

On(verb, pattern) ==
  [verb |-> verb, pattern |-> pattern, file |-> "a", where |-> {}, field |-> NoSelector,
   extract |-> NoSelector, ref |-> <<"a", 2>>, start |-> 0, end |-> 0]

Field(verb, pattern, field) == [On(verb, pattern) EXCEPT !.field = field]
Domains(verb, pattern) == [On(verb, pattern) EXCEPT !.extract = "domain"]
Where(q, field, op, value) ==
  [q EXCEPT !.where = {[field |-> field, op |-> op, value |-> value]}]
Reading(start, end) == [On("read_lines", Anything) EXCEPT !.start = start, !.end = end]

\* Sequences of up to n members of S.
UpTo(n, S) == UNION {[1 .. k -> S] : k \in 1 .. n}

Scenario(lines, questions, turns) ==
  [files |-> [f \in {"a", "b"} |->
                IF f = "a" THEN lines ELSE <<Event(<<"10.0.0.2", "TXT">>, NoStamp)>>],
   asks |-> questions, budget |-> turns]

\* Rows: one with two domains, one in other letters, a short one, a comment in the middle, a
\* blank line, columns named anew in another order.
Rows ==
  {Event(<<"cdn.net", "TXT", "api-sync.net", "9">>, 1),
   Event(<<"10.0.0.2", "txt", "API-SYNC.net", "40">>, 5),
   Event(<<"10.0.0.1", "NS", "cdn.net", "9">>, 7),
   Event(<<"10.0.0.2", "TXT">>, NoStamp),
   Comment(<<"#close", "TXT", "NS">>, NoStamp),
   Event(<<>>, NoStamp),
   Comment(<<"#fields", "bytes", "query", "qtype", "host">>, NoStamp)}

FieldsRow == Comment(<<"#fields", "host", "qtype", "query", "bytes">>, NoStamp)

\* Two columns whose names are told apart by their letters alone, and one named by a number.
TwiceNamed == Comment(<<"#fields", "2", "qtype", "Qtype", "bytes">>, NoStamp)

TXT == Of(<<"TXT">>)

RowAsks ==
  {[On("search", TXT) EXCEPT !.file = AllFiles], On("count", TXT), On("timeline", TXT),
   On("count", Of(<<"api-sync.net", "TXT">>)),
   Field("tally", Anything, "qtype"), Field("tally", Anything, "2"),
   Field("stats", Anything, "bytes"), Field("extremes", Anything, "bytes"),
   Domains("tally", TXT), Domains("stats", TXT), Domains("extremes", TXT),
   Where(On("count", Anything), "qtype", "=", "TXT"),
   Where(On("count", Anything), "qtype", "!=", "TXT"),
   Where(On("count", Anything), "2", "=", "TXT"),
   Where(On("tally", Anything), "qtype", "=", "TXT"),
   Where(On("context", Anything), "host", "~", "1"), Reading(2, 3)}

RowCases ==
  {Scenario(<<FieldsRow>> \o s, RowAsks, 2) : s \in UpTo(3, Rows)} \cup
  {Scenario(<<TwiceNamed>> \o s, RowAsks, 2) : s \in UpTo(1, Rows)} \cup
  {Scenario(s, RowAsks, 2) : s \in UpTo(2, Rows)}

\* What a command reads in its own way: capitals in an entity, other letters, a second
\* timestamp and one that the code looks past, columns set apart by blanks.
Stamped(line, stamps) == [line EXCEPT !.stamps = stamps]

Oddities ==
  {Event(<<"10.0.0.1", "TXT", "Www.cdn.net", "9">>, 3),
   Stamped(Event(<<"cdn.net", "txt", "www.cdn.net", "1">>, 2), <<2, 4>>),
   Stamped(Event(<<"cdn.net", "NS", "TXT", "10">>, NoStamp), <<OddStamp, 6>>),
   Event(<<"TXT">>, 9)}

Blanks == Comment(<<"#separator", "2">>, NoStamp)

OddAsks ==
  {Domains("tally", TXT), Domains("stats", TXT), On("timeline", TXT),
   Where(On("timeline", TXT), "qtype", "=", "TXT"), Where(On("count", TXT), "host", "!=", "TXT"),
   Field("tally", Anything, "host"), Field("tally", Anything, "1")}

OddCases ==
  {Scenario(h \o s, OddAsks, 2) :
     h \in {<<FieldsRow>>, <<Blanks, FieldsRow>>, <<Blanks>>}, s \in UpTo(2, Oddities)}

\* Objects: keys in two orders, one absent, one in other letters or in both, none; and no
\* object.
Objects ==
  {Object(<<"event_id", "user">>, <<"10", "bob">>, 1),
   Object(<<"user", "event_id">>, <<"ann", "9">>, 5),
   Object(<<"user">>, <<"bob">>, 6),
   Object(<<"Event_ID">>, <<"11">>, NoStamp),
   Object(<<"event_id", "Event_ID">>, <<"9", "10">>, NoStamp),
   Object(<<>>, <<>>, NoStamp),
   Event(<<"{", "10">>, NoStamp)}

ObjectAsks ==
  {On("search", Of(<<"10">>)), On("count", Of(<<"10">>)), On("timeline", Of(<<"10">>)),
   Field("tally", Anything, "event_id"), Field("tally", Anything, "1"),
   Field("stats", Anything, "event_id"), Field("extremes", Anything, "event_id"),
   On("stats", Of(<<"event_id">>)),
   Where(On("count", Anything), "event_id", "~", "1"),
   Where(On("count", Anything), "event_id", "!~", "1"),
   Where(Field("extremes", Anything, "event_id"), "user", "=", "bob"),
   On("context", Anything), [On("context", Anything) EXCEPT !.ref = <<"a", 1>>], Reading(8, 9)}

\* A key that is there, and holds null.
Null == Object(<<"event_id", "user">>, <<"null", "bob">>, 2)

ObjectCases ==
  {Scenario(s, ObjectAsks, 2) : s \in UpTo(3, Objects)} \cup
  {Scenario(s \o <<Null>>, ObjectAsks, 2) : s \in UpTo(2, Objects)}

\* Dated lines, in any order, some without a moment.
Dates == {Event(<<"10.0.0.1", "k3.t.evil.net">>, t) : t \in {0, 1, 20, NoStamp, OddStamp}}
Close == {Event(<<"10.0.0.1", "k3.t.evil.net">>, t) : t \in {0, 1, 30}}
Evil == Of(<<"k3.t.evil.net">>)
DatedAsks == {On("timeline", Evil), On("search", Evil), Domains("tally", Evil)}

DatedCases ==
  {Scenario(s, DatedAsks, 2) : s \in UpTo(4, Dates) \cup [1 .. 6 -> Close]}

\* One literal in many frames, and what is encoded.
Replies ==
  {Event(<<"api-sync.net", "NOERROR", "ZWNobyBoZWxsbzEy">>, NoStamp),
   Event(<<"NXDOMAIN", "api-sync.net", "9f+Kq0/xZ81bQeT2", "ZWNobyBoZWxsbzEy">>, NoStamp),
   Event(<<"api-sync.net", "QUJDREVGR0hJSktM/w">>, NoStamp)}

ReplyAsks ==
  {On("decode", Of(<<"api-sync.net", "ZWNobyBoZWxsbzEy">>)),
   On("decode", Of(<<"api-sync.net", "QUJDREVGR0hJSktM/w">>)),
   On("search", Of(<<"api-sync.net", "NXDOMAIN">>)),
   On("count", [Of(<<"api-sync.net", "NOERROR">>) EXCEPT !.tight = TRUE]),
   On("tally", Of(<<"NOERROR", "api-sync.net">>)),
   On("count", [Of(<<"api-sync.net">>) EXCEPT !.valid = FALSE])}

ReplyCases == {Scenario(s, ReplyAsks, 3) : s \in UpTo(4, Replies)}

MCScenarios == RowCases \cup OddCases \cup ObjectCases \cup DatedCases \cup ReplyCases

=============================================================================
