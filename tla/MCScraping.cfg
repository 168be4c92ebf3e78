CONSTANTS
  j1 = j1
  j2 = j2
  Jobs = {j1, j2}
  Mixes <- Pairs
  Ports = 2
  DeadTtl = 1
  Tries = 2
  Items = {1, 2, 3, 4, 5, 6, 7, 8, 9}
  Sites <- Listings
  Scans = {"services", "freelancers", "gigs", "reviews", "recent", "scroll",
    "fl", "kwork", "habr", "hh", "superjob", "youdo", "zarplata", "avito"}
  Per = 2
  MaxPages = 3
  ShownPages = 1
  Limit = 3
  ScrollLimit = 3
  Cards = 1
  Old = {1, 2}
  Undated = {3}
  Relevant = {1, 3, 5, 6}
  MaxChanges = 2
SPECIFICATION ScrapingSpec
INVARIANTS
  RotationCovers
  ContextsOwned
  ResultIsClean
  NothingMissed
PROPERTIES
  JobsAndScansEnd
CHECK_DEADLOCK FALSE
