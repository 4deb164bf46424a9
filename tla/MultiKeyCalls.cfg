\* Three keys, pages of one and two, batches of two items one at a time.
CONSTANTS
  Keys = {k1, k2, k3}
  PageSizes = {1, 2}
  MaxItems = 2
  MaxConcurrency = 1
  MaxVersion = 2
  MaxTime = 2
  Delay = 1
  Bad = Bad
SPECIFICATION FairSpec
INVARIANTS TypeOK ListedOnce 
PROPERTIES ListingEnds BatchReturns
