SPECIFICATION Spec
CONSTANTS
  Content <- MCContent
  Given <- MCGiven
  Options <- MCOptions
  RunMax = 2
INVARIANTS
  PhotosWhole
  CatalogIsTrue
  SavedOnReturn
  OnlyMissingFetched
  ResultAccounts
  CancelStops
  NetworkRestored
  AccessPointClosed
CHECK_DEADLOCK FALSE
