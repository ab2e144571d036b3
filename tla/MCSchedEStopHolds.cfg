CONSTANTS
  SlotMax = 2
  AppendOnlyKinds = {"basic_accessory", "ops_mode"}
  RepeatMod = 64
  Applications <- StoppedForGood
  TrntFormat = 4
  E_STOP_QUEUE_SIZE = 3
  REPEAT_QUEUE_SIZE = 4
  PERIODIC_REFRESH_QUEUE_SIZE = 5
  PROG_QUEUE_SIZE = 2
  SPEED_REPEAT = 3
  FUNCTION_REPEAT = 2
  E_STOP_REPEAT = 6
  OTHER_REPEAT = 2
  ProgRepeat = 2
  RSTsRepeat = 1
  ONCE_REFRESH_INTERVAL = 4
SPECIFICATION Spec
PROPERTY EStopHolds
