SPECIFICATION Spec
CONSTANTS
  Callbacks = {"wifiTask", "pm_task"}
  Items = {d1, d2, d3}
  Targets = {0, 2}
  Apps = {{"main"}, {"end"}, {"none"}, {"delete"}}
INVARIANTS TypeOK NoneOverdue ListIsAlive
