SPECIFICATION IndexSpec
CONSTANTS
  Texts <- MCTexts
  Space <- MCSpace
  Letters <- MCLetters
  Digits <- MCDigits
  Symbols <- MCSymbols
  Pairs <- MCPairs
  Keywords <- MCKeywords
  IncludeWord <- MCInclude
  ClassWord <- MCClass
  AsmWord <- MCAsm
  ControlWords <- MCControl
INVARIANTS
  IncludesMatchText
  SymbolsMatchText
PROPERTY Reported
CHECK_DEADLOCK FALSE
