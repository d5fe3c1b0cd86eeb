CONSTANTS
  a4 = a4
  b4 = b4
  a6 = a6
  b6 = b6
  NONE = NONE
  V4 <- MCV4
  V6 <- MCV6
  Answers <- MCAnswers
  Uris <- MCUris
  Configs <- MCConfigs
  Loaded = 1
  Clients <- MCClients
  Requests <- MCRequests
  Locations <- MCLocations
  UsizeMax = 2
  MaxRedirects = 1
SPECIFICATION FairSpec
CHECK_DEADLOCK FALSE
INVARIANTS
  TypeOK
  PreferenceOrder
  OnlyWinnerOpen
  HostIsPeer
  RetriedAsGiven
PROPERTIES
  SuccessNotMissed
  RaceEnds
  Answered
