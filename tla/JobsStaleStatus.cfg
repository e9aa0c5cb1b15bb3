CONSTANTS
  Workers = {w1, w2}
  Endpoints = {"create", "schedule", "status"}
  Jobs = {j1}
  Members = {ann}
  Office = office
  Addresses = {home}
  Zones = {"eastern"}
  Behind <- MCBehind
  Days = {0}
  Starts = {}
  Ends = {}
  Overrides = {FALSE}
  Hires = {"technician"}
  Targets = {"unscheduled", "scheduled", "en_route", "in_progress",
             "complete", "invoiced", "closed", "canceled"}
  None = None
SPECIFICATION Spec
PROPERTY StatusFollowsTable
