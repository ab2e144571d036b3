CONSTANTS
  CVBits = 2
  RSTsRepeat = 3
  RSTcRepeat = 2
  CV_BIT_MAX_TRY_READ = 2
  CV_BYTE_MAX_TRY_READ = 1
  ACK_SENSE_VALUE = 30
  QuietLoad = 40
  PulseLoad = 140
  MaxRepeats = 3
  Decoders = {TRUE, FALSE}
  Requests <- Reads
  ReadModes = {1, 2, 3}
  Programs <- EarlyEngine
SPECIFICATION Spec
INVARIANT VerifiedValueIsTrue
