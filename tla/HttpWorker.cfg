SPECIFICATION Spec
CONSTANTS
  Workers = {w1, w2}
  Clients = {k1, k2}
  Limit = 2
  Never = Never
  None = None
INVARIANTS OneWait SocketAgrees RepliesMatch
PROPERTIES NotClosedEarly EveryoneAccepted
