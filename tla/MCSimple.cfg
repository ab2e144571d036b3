CONSTANTS
  KnobPosition = {1, 3}
  PREAMBLE_COUNT = 16
  DecoderPreamble = 12
SPECIFICATION ThrottleSpec
INVARIANT NeverMisled
PROPERTY LocoFollows
