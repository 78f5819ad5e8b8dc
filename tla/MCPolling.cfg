SPECIFICATION FairSpec
CONSTANTS
  u1 = u1
  u2 = u2
  u3 = u3
  u4 = u4
  u5 = u5
  Updates = {u1, u2, u3, u4, u5}
  CreatedAt <- MCCreatedAt
  Broken = {u5}
  PageSize = 4
  MaxFaults = 2
INVARIANTS NothingSkipped
PROPERTIES KeepsInbox OldestFirst HandledInTheEnd
