SPECIFICATION Spec
CONSTANTS
  Empty = Empty
  Values = {John, Age}
  MaxSize = 2
  Summer = {1}
  Hour = 1
  MaxTime = 1
  MaxLines = 3
PROPERTY OldestIsRemoved
