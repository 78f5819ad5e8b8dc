SPECIFICATION Spec
CONSTANTS
  m1 = m1
  m2 = m2
  u1 = u1
  u2 = u2
  u3 = u3
  w1 = w1
  w2 = w2
  p1 = p1
  None = None
  Messages = {m1, m2}
  Updates = {u1, u2, u3}
  Carries <- MCCarries
  Id <- OwnIds
  HandlerCount <- MCHandlerCount
  Broken = {u3}
  Workers = {w1, w2}
  Procs = {p1}
  ProcOf <- OneProcess
  Memory = "in_process"
  MaxSize = 2
  Faults = {}
  MaxFaults = 0
INVARIANTS HandledOnce
