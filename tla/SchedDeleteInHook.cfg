\* OnDisable deletes its task.
CONSTANTS
  NULL = NULL
  Tasks = {t1, t2}
  OnEnables = {}
  OnDisables = {t1, t2}
  Timeouts = {}
  Requests = {}
  Iterations <- MCOneOrForever
  Calls = {"enable", "addTask", "delete"}
  Liberties = {"deleteInHook"}
  MaxDepth = 2
  MaxCount = 1
SPECIFICATION Spec
INVARIANTS NoFault
\* A program that has followed a dangling pointer has ended.
CHECK_DEADLOCK FALSE
