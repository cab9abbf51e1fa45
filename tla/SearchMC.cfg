SPECIFICATION Spec
CONSTANTS
  Signals = {"traces", "metrics"}
  Phrases <- MCPhrases
  Attributes <- MCAttributes
  Dictionary <- MCDictionary
  MaxPhrases = 3
  MaxSubmits = 2
  MaxEvents = 4
INVARIANT SuggestionsFit
PROPERTIES ParsedWhole UnderlineMeansRefused
CHECK_DEADLOCK FALSE
