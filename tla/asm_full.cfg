SPECIFICATION AssembleOrType
CONSTANTS
  A = "A"
  B = "B"
  C = "C"
  Digit = "1st"
  Spaced = "a b"
  MemoryWords = 8
  DisplayOrigin = 7
  MaxLines = 3
  MaxOperandLines = 0
  Labels <- LabelNames
  DigitLabels <- DigitNames
  SpacedLabels <- SpacedNames
  HexValue <- HexNames
  Sources <- LayoutSources
  LinePieces <- PiecesOfLine
  LiteralPieces <- PiecesOfLiteral
  MaxPieces = 0
INVARIANT OnlyTooLargeRejected
CHECK_DEADLOCK FALSE
