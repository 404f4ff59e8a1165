\* For the router browsed to instead: RemovesBrowsed = TRUE,
\* INVARIANT CurrentRouterAlive.
SPECIFICATION Spec
CONSTANTS
  ParamNames <- MCParamNames
  WildNames <- MCWildNames
  MethodOrder <- MCMethodOrder
  MaxUrlSegments = 2
  Domains = {"site"}
  Routes <- MCRoutes
  NotFound <- MCNotFound
  Requests <- MCRequests
  Messages <- MCMessages
  MaxSends = 3
  DEFLATE_OUTPUT_CHUNK = 6
  MaxRegistered = 2
  RemovesBrowsed = FALSE
INVARIANT OwnMethodOnly
