CONSTANTS
  Size = 3
  Address = {3, 4}
  Kind = {"speed", "accessory", "idle"}
  Data = {"a"}
  AppendOnlyKinds = {"accessory"}
  RepeatMod = 3
  IdleAddress = 4
  IdleKind = "idle"
  IdleData = "a"
SPECIFICATION Spec
INVARIANTS TypeOK NoRivals CursorsAgree
PROPERTY ImplementsFifo
