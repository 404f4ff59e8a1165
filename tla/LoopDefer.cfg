CONSTANTS
  Threads = {t1, t2}
  LoopThread = LoopThread
  Nobody = Nobody
  MaxCallbacks = 4
SPECIFICATION FairSpec
PROPERTIES IteratedUntouched RefinesFifo DeferredRuns
CHECK_DEADLOCK FALSE
