SPECIFICATION Spec
CONSTANTS
  Texts <- MCTexts
  Space <- MCSpace
  Letters <- MCLetters
  Digits <- MCDigits
  Symbols <- MCSymbols
  Pairs <- MCPairs
  Keywords <- MCKeywords
INVARIANTS
  Tiling
  LongestMatch
  PlacesAreExact
  CommentsAndLiteralsAgree
PROPERTY Terminates
CHECK_DEADLOCK FALSE
