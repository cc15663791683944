CONSTANTS
  h1 = h1
  h2 = h2
  NoHandle = NoHandle
  Handle = {h1, h2}
  segmentsOf <- MCSegmentsOf
  MaxInFlight = 2
  MayRaise = TRUE
  MayDie = FALSE
  Task = {t1}
  MaxDemand = 2
  MaxPolls = 1
SPECIFICATION FairSpec
PROPERTIES LoadedFileIsEmitted ReceivedIsSettled StoppedDrains
