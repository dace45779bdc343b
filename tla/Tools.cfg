CONSTANTS
  SIZE_MAX = SIZE_MAX
  NaN = NaN
  NoFile = NoFile
  Bad = Bad
  Unended = Unended
  NULL = NULL
  NotDecimal = NotDecimal
  Unbound = Unbound
  Tool = {"put", "get", "cat", "find", "substr", "scenario", "list"}
  KeyTools = {"put", "get", "cat", "find", "substr", "scenario"}
  Required <- MCRequired
  Supported <- MCSupported
  Argv <- MCArgv
  Strtol <- MCStrtol
  ServersFiles <- MCFiles
  Address <- MCAddress
  Key = {"0", "1"}
  Text <- MCText
  Number <- MCNumber
  Char <- MCChar
  Values <- MCValues
  Before <- MCBefore
  OthersN = 3
  OthersW = 2
  Junk <- MCJunk
  Process = {p, q}
  Typed <- MCTyped
  Garbage <- MCGarbage
  Decimal <- MCDecimal
  Remainder <- MCRemainder
  Ephemeral <- MCEphemeral
  Bindable <- MCAddress
  MaxDuplicates = 1
SPECIFICATION Spec
CHECK_DEADLOCK FALSE
INVARIANTS TypeOK OptionsAsGiven CatJoinsValues SubstrIsPart FindLocates ListedAsAnswered ServesWhatWasGiven
PROPERTIES ToolEnds GoodAnswerServes
