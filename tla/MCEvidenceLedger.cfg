SPECIFICATION Spec
CONSTANTS
  many = many
  few = few
  lone = lone
  inside = inside
  across = across
  beyond = beyond
  NoRef = NoRef
  NumLines = 6
  Width <- MCWidth
  Patterns <- MCPatterns
  Matches <- MCMatches
  Ranges <- MCRanges
  Span <- MCSpan
  Valued <- MCValued
  Decoded <- MCDecoded
  MaxResults = 4
  ExtremesShown = 3
  DecodeShown = 3
  MaxCloseRead = 2
  CloseReadShown = 1
  Around = 1
  RenderedInFull = 1
  Sample = 2
  LineMax = 4
  LineBudget = 9
  RecordMax = 3
  RecordHeader = 1
  RecordBudget = 12
  MaxSteps = 3
  Bodies <- MCBodies
INVARIANTS
  EveryMatchIsAccountedFor
  HonestCitationsResolve
PROPERTY
  AnswersStayInSight
CHECK_DEADLOCK FALSE
