CONSTANTS
  SlotMax = 2
  AppendOnlyKinds = {"basic_accessory", "ops_mode"}
  RepeatMod = 4
  Applications <- AllApplications
  TrntFormat = 4
  E_STOP_QUEUE_SIZE = 2
  REPEAT_QUEUE_SIZE = 4
  PERIODIC_REFRESH_QUEUE_SIZE = 5
  PROG_QUEUE_SIZE = 2
  SPEED_REPEAT = 2
  FUNCTION_REPEAT = 1
  E_STOP_REPEAT = 2
  OTHER_REPEAT = 2
  ProgRepeat = 2
  RSTsRepeat = 2
  ONCE_REFRESH_INTERVAL = 4
SPECIFICATION Spec
INVARIANTS TypeOK OneSlotPerLoco RefreshIsFresh NothingForgotten AccessoriesAgree PomPerformed
PROPERTIES EvictsOnlyWhenFull EStopServed TurnoutsServed LocosSettle
