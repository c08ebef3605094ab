SPECIFICATION ServicesSpec
CONSTANTS
  MaxSize = 2
  MaxAdds = 5
  Wires = 2
  MaxCommands = 2
  MaxFlaps = 2
  None = none
  BusEvents <- Events
  MaxPending = 3
  MaxRecent = 3
  MaxTrouble = 4
  LabelKeys = {"k1", "k2"}
  LabelNames = {"a", "b"}
  Extras = {"none", "x"}
  Missing = missing
  Broken = broken
  MaxEdits = 3
  SerialPorts = {p1, p2}
  Unplugged = unplugged
  ById = byid
  MaxAttempts = 2
  MaxMoves = 4
  Networks = {254, 1}
  Apps = {56, 203}
  Calls = {c1, c2}
  MaxInits = 3
  CommandPorts = {1}
  EventPort = 0
  LineSet <- LinesOfCgate
  Mark = mark
  MaxBuffer = 4
  MaxFragments = 1
  MaxLines = 3
  Panels = {k1, k2, k3}
  Codes <- CodesTyped
  Digits = {"1", "2"}
  Permissions <- PermissionSets
  MaxPin = 2
  MaxDisarms = 5
  MaxNow = 2
  MaxRequests = 1
  Window = 1
  MaxTracked = 2
  Browsers = {b1, b2, b3}
  LogSize = 2
  MaxStreams = 2
  MaxEntries = 4
  Devices = {d1, d2, d3}
  MaxDevices = 2
  MaxHappenings = 3
  PoolSize = 2
  Generations = 3
  RetryCap = 1
INVARIANTS
  QueueSound
  CommandsAccounted
  NewestWins
  TopicsCohere
  LabelsFollowFile
  RestartsBounded
  NetworksServed
  LinesExact
  CodesLimited
  StreamsFaithful
  PoolSound
PROPERTIES
  DispatchSpec
  QueueDrains
  HandoversEnd
  DeviceComesBack
  VainPollsEnd
  AnnouncementsReturn
  OutageSurfaced
  Recovers
CHECK_DEADLOCK FALSE
