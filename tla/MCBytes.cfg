CONSTANTS
  Formats = {0, 4}
  Locos <- LegalLocos
  Speeds <- SomeSpeeds
  Turnouts <- LegalTurnouts
  Signals <- LegalTurnouts
  Aspects = {0, 5, 255}
  CVs <- SomeCVs
  Values <- SomeValues
  PomBits = TRUE
  Uninitialised = {0, 128}
SPECIFICATION Spec
INVARIANTS OrderUnderstood
