SPECIFICATION Spec
CONSTANTS
  ParamNames <- MCParamNames
  WildNames <- MCWildNames
  MethodOrder <- MCMethodOrder
  MaxUrlSegments = 2
  Domains = {"site"}
  Routes <- MCRoutes
  NotFound <- MCNotFound
  Requests <- MCRequests
  Messages <- MCMessages
  MaxSends = 3
  DEFLATE_OUTPUT_CHUNK = 6
  MaxRegistered = 3
  RemovesBrowsed = FALSE
INVARIANT WindowsFit
PROPERTIES RoutesImplemented
