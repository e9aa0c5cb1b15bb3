CONSTANTS
  Workers = {w1, w2}
  Endpoints = {"create", "schedule", "status"}
  Jobs = {j1}
  Members = {ann, bob}
  Office = office
  Addresses = {home}
  Zones = {"eastern"}
  Behind <- MCBehind
  Days = {0}
  Starts = {}
  Ends = {}
  Overrides = {FALSE}
  Hires = {"technician"}
  Targets = {"unscheduled", "en_route", "in_progress", "complete",
             "canceled"}
  None = None
SYMMETRY Symmetry
SPECIFICATION Spec
INVARIANTS
  OneLead
  ReachedMeansStamped
  DeadlocksAreBetweenSchedules
