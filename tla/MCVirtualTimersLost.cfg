SPECIFICATION Spec
CONSTANTS
  Callbacks = {"wifiTask", "pm_task"}
  Items = {d1, d2}
  Targets = {0, 2}
  Apps = {{"main"}}
INVARIANT TasksAreKept
