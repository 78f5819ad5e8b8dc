SPECIFICATION Spec
CONSTANTS
  Networks = {"bluesky"}
  Size = 6
  When <- MCWhen
  Unreadable <- EveryTimeThere
  PostOf <- OnTwoPosts
  Limit = 6
  PageLimit <- TwoToAPage
  MaxPages <- TwoPages
  MaxFaults = 0
INVARIANTS NeverMissed
