SPECIFICATION FairSpec
CONSTANTS
  Writers = {"tunnel", "control"}
  Dashboards = {"d1"}
  Statuses = {"running", "standby", "disconnected"}
  MayFail = FALSE
INVARIANT NoDeadSubscriber
PROPERTIES SetReturns DashboardCatchesUp PropCatchesUp
CHECK_DEADLOCK FALSE
