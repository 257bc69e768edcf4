SPECIFICATION Spec
CONSTANTS
  Content <- MCContent
  Given <- MCGiven
  Options <- MCOptions
  RunMax = 2
INVARIANTS
  RecordsEveryDownload
CHECK_DEADLOCK FALSE
