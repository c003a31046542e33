SPECIFICATION Spec
CONSTANTS
  Lex <- MCLex
  Fold <- MCFold
  Length <- MCLength
  Numbered <- MCNumbered
  Like <- MCLike
  FieldsLabel = "#fields"
  SeparatorLabel = "#separator"
  NoWord = "(no word)"
  FileOrder <- MCFileOrder
  AllFiles = AllFiles
  HeaderMax = 2
  MaxResults = 2
  Around = 1
  MaxSpan = 8
  NoSelector = NoSelector
  Entities <- MCEntities
  Number <- MCNumber
  Encoded <- MCEncoded
  TallyTop = 1
  TallyRare = 1
  GapFactor = 8
  ExtremesShown = 1
  DecodeShown = 1
  NoStamp = NoStamp
  OddStamp = OddStamp
  JqEmpty = {"null"}
  SmallOnly <- MCSmallOnly
  Pieces <- MCPieces
  Structure <- MCStructure
  IdCandidates <- MCIdCandidates
  Digitless <- MCDigitless
  Placeholder = "<ID>"
  RareMax = 1
  RareMinEvents = 2
  RareShown = 1
  MinDistinct = 2
  MaxDistinct = 2
  MaxAxes = 2
  ConstantPercent = 98
  UniquePercent = 100
  CoveragePercent = 40
  MaxMeanLength = 12
  Preferred <- MCPreferred
  Moments = {}
  Random <- MCRandom
  Suffix <- MCSuffix
  Sources <- MCSources
  FamiliesShown = 8
  NoContext = "(no domain context)"
  MinStamps = 4
  MinAnchor = 3
  MinLiteral = 8
  Scenarios <- MCScenarios
  NotProfiled = NotProfiled
INVARIANTS
  CountsAgree
  WherePartitions
  TallyAddsUp
  ExtremesAreTheTail
  ScopeIsATally
  SessionsAgree
  CommandsReproduce
CHECK_DEADLOCK FALSE
