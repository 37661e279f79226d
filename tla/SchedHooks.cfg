\* Two tasks with both hooks, which call each other three deep.
CONSTANTS
  NULL = NULL
  Tasks = {t1, t2}
  OnEnables = {t1, t2}
  OnDisables = {t1, t2}
  Timeouts = {}
  Requests = {}
  Iterations <- MCTwo
  Calls = {"enable", "restart", "disable", "addTask", "deleteTask", "new", "delete", "yield", "yieldOnce", "setIterations"}
  Liberties = {"addInPass"}
  MaxDepth = 3
  MaxCount = 1
SYMMETRY MCSymmetry
SPECIFICATION Spec
INVARIANTS NoFault CurrentIsRunning RunsAsSet WholePass
