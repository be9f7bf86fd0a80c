SPECIFICATION ServerSpec
CONSTANTS
  U = "u"
  V = "v"
  MaxSends = 2
  MaxProbe = 4
  Uris <- Files
  Texts <- FileTexts
  Findings <- FindingsOf
  Offers <- EncodingOffers
  ProbeTexts <- Probes
INVARIANTS AnswersCurrentText SquigglesCurrent PositionsAgree PositionsClamped TokensDecode
PROPERTY Settles
CHECK_DEADLOCK FALSE
