\* Two tasks wait for a status request and for each other; callbacks enable,
\* disable, delete and destroy, loop() adds tasks and goes through all of them.
\* A program that waits for the request of a destroyed task ends in the pass.
CONSTANTS
  NULL = NULL
  Tasks = {t1, t2}
  OnEnables = {}
  OnDisables = {}
  Timeouts = {t1}
  Requests = {r}
  Iterations <- MCForever
  Calls = {"enable", "addTask", "deleteTask", "delete", "disable", "all", "startNow", "setIterations", "waitFor", "setWaiting", "signal"}
  Liberties = {}
  MaxDepth = 2
  MaxCount = 2
SPECIFICATION FairSpec
PROPERTIES WaiterLetGo PassEnds EnabledRuns
\* It ends there.
CHECK_DEADLOCK FALSE
