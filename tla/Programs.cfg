SPECIFICATION Spec
CONSTANTS
  Capacity = 3
  Rate = 2
  Second = 3
  Half = 8
  Requests = {0, 1, 2, 4}
  MaxGap = 12
  MaxTime = 12
  max_length = 3
  time_range = 2
  MaxClock = 4
  MaxPushes = 5
  Producers = {p1, p2}
  Consumers = {c1, c2}
  iterations = 2
  Items = 12
  t1 = t1
  t2 = t2
  Rounds = 3
  Size = 4
  MaxStream = 4
  MaxWant = 3
  RIO_BUFSIZE = 2
  Bytes = {0, 219}
  MaxBytes = 5
  Rooms = {3, 6, 8}
  MAX_PRINT_STRING_LEN = 6
  MaxString = 5
  Clients = {k1, k2, k3}
  BACKLOG = 2
  Apartments = {"a", "b"}
  MaxComplaints = 3
  MaxFds = 2
  MaxAsks = 1
  Chunk = 3
  MaxBlocks = 3
  MaxWords = 4
INVARIANTS BucketBounds DemosComplete  ServersKeepTrack ObjectsRight
PROPERTIES RangeHolds ComplaintsInTurn ProgramsEnd
