\* Pairs of documents share the rungs of a ladder; single pages in any layout
SPECIFICATION FairSpec
CONSTANTS
  SettingsUsed <- MCSettings
  Jobs <- MCJobs
  Batches <- MCBatches
  MaxPage = 3
INVARIANTS TypeOK PagesWithoutGaps NoShakyPage TableTextMoves
PROPERTIES FirstRungWins DocumentsEnd
CHECK_DEADLOCK FALSE
