SPECIFICATION Spec
CONSTANTS
  Newline = Newline
  Reports <- MCReports
  MaxTexts = 3
  MaxConnects = 2
INVARIANTS TypeOK LinesConserved PublishedInOrder DiesOfUnusableLineOnly AltitudeWasValid
CHECK_DEADLOCK FALSE
