SPECIFICATION SourceSpec
CONSTANTS
  Repositories <- NearThenFar
  Remote = {"far"}
  LegacyRemote = FALSE
  LocalRetention = 2
  OfflineRetention = 1
  KeepLast = 2
  RemoteRequired = TRUE
  MaxAge <- Ages
  Skew <- East
  OfflineMaxAge = 2
  MaxRuns = 4
  MaxCrashes = 1
PROPERTY RecoverySpec
INVARIANT MarkersAreHeld
INVARIANT OwnPointSurvives
INVARIANT FreshMeansRecoverable
INVARIANT RestoresWhatItVerified
PROPERTY LatestIsNewestGood
INVARIANT OfflineReportIsTrue
PROPERTY DeliveredEverywhere
PROPERTY GoodOfflinePointsStay
PROPERTY RemoteMarkerIsRemote
CHECK_DEADLOCK FALSE
