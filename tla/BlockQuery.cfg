SPECIFICATION FairSpec
CONSTANTS
  Files <- MCFiles
  Requests <- MCRequests
  Symbols <- MCSymbols
  ReadSize = 2
  repeatedReadSize = 2
  MaxErrors = 1
CHECK_DEADLOCK FALSE
INVARIANTS  MergeIsExact HeadAndBlockAgree
PROPERTIES QueryEnds
