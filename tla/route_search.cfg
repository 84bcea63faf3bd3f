SPECIFICATION FairSpec
CONSTANTS
  Roads <- MCRoads
  NodeCount = 6
  Pos <- MCPos
  MaxPathLen = 100
  Weight <- MCWeight
  Penalty = 100
  Estimate <- MCEstimate
  Queries <- MCQueries
INVARIANT TypeOK
PROPERTIES RouteIsAllowed SearchEnds
CHECK_DEADLOCK FALSE
