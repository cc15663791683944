CONSTANTS
  h1 = h1
  h2 = h2
  NoHandle = NoHandle
  Handle = {h1, h2}
  segmentsOf <- MCSegmentsOf
  MaxInFlight = 2
  MayRaise = TRUE
  MayDie = TRUE
  Task = {t1, t2}
  MaxDemand = 2
  MaxPolls = 2
SYMMETRY Symmetry
SPECIFICATION Spec
INVARIANTS TypeOK BudgetRespected PollLoopNeverStops NoHandleStranded DrainedMeansIdle
PROPERTIES SettledOnce
