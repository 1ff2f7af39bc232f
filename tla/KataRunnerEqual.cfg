SPECIFICATION Spec
CONSTANTS
  Values = {1, 2, 3, 4, 5}
  MaxLen = 5
  INT_MIN = 0
  INT_MAX = 100
  Distinct = FALSE
  MaxNodes = 6
  V = 4
  MaxEdges = 3
  MaxInserts = 5
  MaxArray = 7
  Coins = {2, 3, 5}
  MaxCoins = 3
  MaxAmount = 6
  Weights = {1, 2, 3}
  Worths = {1, 2}
  MaxItems = 3
  MaxNumber = 26
  MaxPick = 4
  Capacity = 3
  MaxPuts = 5
  Chars = {1, 2, 3}
  MaxText = 6
PROPERTY KataReturns
