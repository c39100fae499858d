SPECIFICATION FairSpec
CONSTANTS
  Ids <- MCIds
  Reqs = {r1}
  Requests <- MCRequests
CHECK_DEADLOCK FALSE
INVARIANTS TypeOK AnsweredOnce StopSticks NoResurrection PanelFresh PageFresh
PROPERTIES EveryRequestAnswered
