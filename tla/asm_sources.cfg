SPECIFICATION AssembleOrType
CONSTANTS
  A = "A"
  B = "B"
  C = "C"
  Digit = "1st"
  Spaced = "a b"
  MemoryWords = 8
  DisplayOrigin = 7
  MaxLines = 4
  MaxOperandLines = 3
  Labels <- LabelNames
  DigitLabels <- DigitNames
  SpacedLabels <- SpacedNames
  HexValue <- HexNames
  Sources <- BothSources
  LinePieces <- PiecesOfLine
  LiteralPieces <- PiecesOfLiteral
  MaxPieces = 4
INVARIANTS TypeOK LayoutConsistent ReportsExactly AssemblesSource RenameKeepsProgram LintAdviceIsExact FixesAreSafe SplitsAsSpecified TokensCoverLine LiteralsReadRight
CHECK_DEADLOCK FALSE
