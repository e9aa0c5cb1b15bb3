CONSTANTS
  Workers = {w1}
  Endpoints = {"create", "update", "schedule", "status", "address", "member"}
  Jobs = {j1}
  Members = {ann}
  Office = office
  Addresses = {home, cabin}
  Zones <- MCZones
  Behind <- MCBehind
  Days = {0}
  Starts = {8}
  Ends = {8, 9}
  Overrides = {TRUE, FALSE}
  Hires = {"technician"}
  Targets = {"unscheduled", "scheduled", "en_route", "in_progress",
             "complete", "invoiced", "closed", "canceled"}
  None = None
SPECIFICATION Spec
INVARIANT TypeOK
PROPERTIES
  ImplementsDispatch
  FollowsLifecycle
  OpenJobsStayFresh
  CrewChangesSettleStatus
