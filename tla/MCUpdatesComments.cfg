SPECIFICATION Spec
CONSTANTS
  Networks = {"facebook"}
  Size = 6
  When <- MCWhen
  Unreadable <- EveryTimeThere
  PostOf <- OnTwoPosts
  Limit = 6
  PageLimit <- SixToAPage
  MaxPages <- TwoPages
  MaxFaults = 0
INVARIANTS NeverMissed
