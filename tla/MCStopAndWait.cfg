SPECIFICATION FairSpec
CONSTANTS
  File <- MCFile
  Failures = 1
INVARIANTS
  Safety
PROPERTIES
  ImplementsTransfer
  Delivered
