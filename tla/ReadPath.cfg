\* Calls of every kind while documents are put, extracted and deleted
SPECIFICATION FairSpec
CONSTANTS
  N = 3
  Contents <- MCContents
  MaxPage = 3
  Patterns <- MCPatterns
  CatalogLimit = 2
  ResultLimit = 2
  MaxFiles = 3
  MaxMatches = 5
  MaxPerFile = 2
  PageBudget = 5
  MaxReadPages = 2
  MaxScanPages = 2
  MaxItems = 3
  MaxWrites = 1
  MaxCrashes = 1
INVARIANTS TypeOK ListingComplete GrepComplete ReadComplete OutlineTold OnlyDeletionFails
PROPERTIES CallsEnd
