\* Four rows, so that two pages are followed by a third; three rows leave or enter
\* while one listing goes on.
SPECIFICATION ListingSpec
CONSTANTS
  None = None
  MaxRow = 4
  MaxChanges = 3
INVARIANTS
  ListingTypeOK
  FewRowsSkipped
  FewRowsRepeated
