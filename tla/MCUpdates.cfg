SPECIFICATION FairSpec
CONSTANTS
  Networks = {"bluesky", "mastodon", "facebook"}
  Size = 6
  When <- MCWhen
  Unreadable <- OneMissing
  PostOf <- OnTwoPosts
  Limit = 2
  PageLimit <- OneOrTwoToAPage
  MaxPages <- TwoPages
  MaxFaults = 2
INVARIANTS LossNeedsABurst BatchIsComplete NothingTwice
PROPERTIES KeepsInbox EverythingArrives
