SPECIFICATION FairProcessSpec
CONSTANTS
  Requests = {r1, r2}
  Sources <- SomeSources
  MaxFailures = 3
CHECK_DEADLOCK FALSE
INVARIANTS ProcessTypeOK ZeroMeansAsked ServedWithDatabase LifecycleInv AlarmsLeaveATrace ProcessInv
PROPERTIES SignalStops LoadedAsMeant
