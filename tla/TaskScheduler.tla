--------------------------- MODULE TaskScheduler ----------------------------
(***************************************************************************)
(* TaskScheduler.h, built with _TASK_STATUS_REQUEST and _TASK_TIMEOUT: the *)
(* pass of execute() through the chain and the user code it calls, which   *)
(* may call back into the scheduler and change the chain under it.         *)
(*                                                                         *)
(* Everything runs on one stack.  stack holds the user code that is        *)
(* running and the loops of disableAll and enableAll; what the library     *)
(* does when user code returns is part of the return.  Time is left out:   *)
(* a task that is looked at may be due or not.                             *)
(***************************************************************************)
EXTENDS TaskChain, Integers

CONSTANTS
  OnEnables, OnDisables,   \* the tasks that have an OnEnable, an OnDisable
  Timeouts,                \* the tasks with a timeout
  Requests,                \* the StatusRequests that belong to no task
  Iterations,              \* the aIterations user code asks for, -1 is for ever
  Calls,                   \* what user code calls
  Liberties,               \* what user code permits itself, see Allowed
  MaxDepth,                \* bound on the stack
  MaxCount                 \* bound on the count of a StatusRequest

ASSUME SchedulerAssumption ==
  /\ OnEnables \subseteq Tasks /\ OnDisables \subseteq Tasks /\ Timeouts \subseteq Tasks
  /\ Requests \cap (Tasks \cup {NULL}) = {}
  /\ Iterations \subseteq Int /\ Iterations # {}
  /\ MaxDepth \in Nat /\ MaxCount \in Nat

VARIABLES
  existing,   \* the tasks that are constructed
  task,       \* their fields
  iCount,     \* of each StatusRequest; a task stands for its iMyStatusRequest
  iCurrent,
  passing,    \* execute() has not returned
  nextTask,   \* local of execute()
  stack,
  broken,     \* a NULL or dangling pointer was followed
  runs,       \* history: callbacks since the iterations were set, as the yields leave them
  seen,       \* history: the tasks this pass has looked at
  stayed      \* history: the tasks in the chain since this pass began

schedulerVars == <<existing, task, iCount, iCurrent, passing, nextTask, stack, broken>>
historyVars == <<runs, seen, stayed>>
vars == <<chainVars, schedulerVars, historyVars>>

Record == [enabled : BOOLEAN, inonenable : BOOLEAN, iIterations : Int, iSetIterations : Int,
           waiting : {"no", "nodelay", "delay"}, iStatusRequest : Requests \cup Link]

UserCode == {"callback", "OnEnable", "OnDisable"}

\* current is iCurrent as enable() or disable() found it, then is what their
\* caller does next; a loop has come to task, and then says whether it is done there.
Frame ==
  [fn : UserCode, task : Tasks, current : Link, then : {"", "restart", "execute", "destroy"}]
  \cup [fn : {"disableAll", "enableAll"}, task : Link, current : {NULL}, then : {"", "next"}]

\* reset() and set().
Fresh(n) == [enabled |-> FALSE, inonenable |-> FALSE, iIterations |-> n, iSetIterations |-> n,
             waiting |-> "no", iStatusRequest |-> NULL]

Init ==
  /\ ChainInit
  /\ existing = Tasks
  /\ task \in [Tasks -> {Fresh(n) : n \in Iterations}]
  /\ iCount = [r \in Requests \cup Tasks |-> 0]
  /\ iCurrent = NULL /\ passing = FALSE /\ nextTask = NULL /\ stack = <<>>
  /\ broken = FALSE
  /\ runs = [t \in Tasks |-> 0] /\ seen = {} /\ stayed = {}

-----------------------------------------------------------------------------
Top == stack[Len(stack)]
Below == SubSeq(stack, 1, Len(stack) - 1)

Hook(fn, t, then) == [fn |-> fn, task |-> t, current |-> iCurrent, then |-> then]

\* A NULL or dangling pointer is followed: the program ends.
Break ==
  /\ broken' = TRUE
  /\ UNCHANGED <<chainVars, existing, task, iCount, iCurrent, passing, nextTask, stack, historyVars>>

\* The rest of enable() after OnEnable, or without it, and of restart().
Enabled(t, r, then) ==
  /\ task' = [task EXCEPT ![t] =
       IF then = "restart" THEN [r EXCEPT !.iIterations = r.iSetIterations] ELSE r]
  /\ iCount' = IF r.enabled /\ iScheduler[t] THEN [iCount EXCEPT ![t] = 1] ELSE iCount

\* Mutant: enable() does not ask for a scheduler.
enableUnscheduled(t, r, then, st) ==
  /\ \/ /\ t \notin OnEnables \/ r.inonenable
        /\ Enabled(t, [r EXCEPT !.enabled = TRUE], then)
        /\ stack' = st
        /\ UNCHANGED iCurrent
     \/ /\ t \in OnEnables /\ ~r.inonenable
        /\ Len(st) < MaxDepth
        /\ task' = [task EXCEPT ![t] = [r EXCEPT !.inonenable = TRUE]]
        /\ stack' = Append(st, Hook("OnEnable", t, then))
        /\ iCurrent' = t
        /\ UNCHANGED iCount
  /\ UNCHANGED <<chainVars, existing, passing, nextTask, broken, seen, stayed>>

\* enable() of t, whose fields are r, called with st on the stack: without a
\* scheduler it does nothing, and OnEnable is not called within itself.
enable(t, r, then, st) ==
  /\ \/ /\ ~iScheduler[t]
        /\ Enabled(t, r, then)
        /\ stack' = st
        /\ UNCHANGED iCurrent
     \/ /\ iScheduler[t]
        /\ t \notin OnEnables \/ r.inonenable
        /\ Enabled(t, [r EXCEPT !.enabled = TRUE], then)
        /\ stack' = st
        /\ UNCHANGED iCurrent
     \/ /\ iScheduler[t]
        /\ t \in OnEnables /\ ~r.inonenable
        /\ Len(st) < MaxDepth
        /\ task' = [task EXCEPT ![t] = [r EXCEPT !.inonenable = TRUE]]
        /\ stack' = Append(st, Hook("OnEnable", t, then))
        /\ iCurrent' = t
        /\ UNCHANGED iCount
  /\ UNCHANGED <<chainVars, existing, passing, nextTask, broken, seen, stayed>>

\* OnEnable returns: iCurrent is restored through iScheduler.
OnEnableReturns ==
  /\ stack # <<>> /\ Top.fn = "OnEnable"
  /\ LET t == Top.task IN
       \/ ~iScheduler[t] /\ Break
       \/ /\ iScheduler[t]
          /\ \E b \in BOOLEAN :
               Enabled(t, [task[t] EXCEPT !.enabled = b, !.inonenable = FALSE], Top.then)
          /\ iCurrent' = Top.current
          /\ stack' = Below
          /\ UNCHANGED <<chainVars, existing, passing, nextTask, broken, historyVars>>

-----------------------------------------------------------------------------
\* Mutant: the chain is a ring.
MoveOnAround(n) ==
  iCurrent' = (IF n = NULL THEN iFirst ELSE n) /\ passing' = (iCurrent' # NULL) /\ nextTask' = NULL

\* iCurrent = nextTask at the end of an iteration of execute().
MoveOn(n) == iCurrent' = n /\ passing' = (n # NULL) /\ nextTask' = NULL

\* The rest of disable() after OnDisable, or without it, and what its caller
\* does next: nothing, the next iteration of execute(), or the rest of ~Task.
Disabled(t, then, cur, n) ==
  /\ iCount' = [iCount EXCEPT ![t] = 0]
  /\ \/ /\ then = ""
        /\ iCurrent' = cur
        /\ UNCHANGED <<chainVars, existing, passing, nextTask, stayed>>
     \/ /\ then = "execute"
        /\ MoveOn(n)
        /\ UNCHANGED <<chainVars, existing, stayed>>
     \/ /\ then = "destroy"
        /\ iCurrent' = cur
        /\ IF iScheduler[t] THEN deleteTask(t) ELSE UNCHANGED chainVars
        /\ existing' = existing \ {t}
        /\ stayed' = stayed \ {t}
        /\ UNCHANGED <<passing, nextTask>>

\* disable(): OnDisable is called for a task that was enabled, with iCurrent of
\* its scheduler set to the task.
disable(t, then, st, n) ==
  \/ /\ task[t].enabled /\ t \in OnDisables
     /\ ~iScheduler[t]
     /\ Break
  \/ /\ task[t].enabled /\ t \in OnDisables
     /\ iScheduler[t]
     /\ Len(st) < MaxDepth
     /\ task' = [task EXCEPT ![t].enabled = FALSE, ![t].inonenable = FALSE]
     /\ stack' = Append(st, Hook("OnDisable", t, then))
     /\ iCurrent' = t
     /\ nextTask' = IF then = "execute" THEN n ELSE nextTask
     /\ seen' = IF then = "execute" THEN seen \cup {t} ELSE seen
     /\ UNCHANGED <<chainVars, existing, iCount, passing, broken, runs, stayed>>
  \/ /\ ~(task[t].enabled /\ t \in OnDisables)
     /\ task' = [task EXCEPT ![t].enabled = FALSE, ![t].inonenable = FALSE]
     /\ Disabled(t, then, iCurrent, n)
     /\ seen' = IF then = "execute" THEN seen \cup {t} ELSE seen
     /\ stack' = st
     /\ UNCHANGED <<broken, runs>>

\* Mutant: iCurrent is not restored.
OnDisableReturnsAsIs ==
  /\ stack # <<>> /\ Top.fn = "OnDisable"
  /\ \/ ~iScheduler[Top.task] /\ Break
     \/ /\ iScheduler[Top.task]
        /\ Disabled(Top.task, Top.then, iCurrent, nextTask)
        /\ stack' = Below
        /\ UNCHANGED <<task, broken, runs, seen>>

\* OnDisable returns: iCurrent is restored through iScheduler.
OnDisableReturns ==
  /\ stack # <<>> /\ Top.fn = "OnDisable"
  /\ \/ ~iScheduler[Top.task] /\ Break
     \/ /\ iScheduler[Top.task]
        /\ Disabled(Top.task, Top.then, Top.current, nextTask)
        /\ stack' = Below
        /\ UNCHANGED <<task, broken, runs, seen>>

-----------------------------------------------------------------------------
\* execute() is called from loop().
execute ==
  /\ ~broken /\ ~passing /\ stack = <<>>
  /\ iFirst # NULL
  /\ iCurrent' = iFirst
  /\ passing' = TRUE
  /\ seen' = {}
  /\ stayed' = Members
  /\ UNCHANGED <<chainVars, existing, task, iCount, nextTask, stack, broken, runs>>

\* An iteration of execute() looks at iCurrent.
Looking == ~broken /\ passing /\ stack = <<>>

\* The test of the iterations is passed, and the pointers behind it lead somewhere.
Considered(t) ==
  /\ t \in existing
  /\ task[t].enabled /\ task[t].iIterations # 0
  /\ task[t].waiting # "no" => task[t].iStatusRequest \in Requests \cup existing

Pending(t) == task[t].waiting # "no" /\ iCount[task[t].iStatusRequest] > 0

\* iCurrent, or the StatusRequest it waits for, has been destroyed.
Dangling ==
  /\ Looking
  /\ iCurrent \in existing => /\ task[iCurrent].enabled /\ task[iCurrent].iIterations # 0
                              /\ ~Considered(iCurrent)
  /\ Break

\* Not enabled, waiting, or not due: the end of a waitForDelayed starts its delay.
PassBy ==
  /\ Looking
  /\ \/ iCurrent \in existing /\ ~task[iCurrent].enabled /\ UNCHANGED task
     \/ Considered(iCurrent) /\ Pending(iCurrent) /\ UNCHANGED task
     \/ /\ Considered(iCurrent) /\ ~Pending(iCurrent)
        /\ task[iCurrent].waiting # "nodelay"
        /\ task' = [task EXCEPT ![iCurrent].waiting = "no"]
  /\ seen' = seen \cup {iCurrent}
  /\ MoveOn(iNext[iCurrent])
  /\ UNCHANGED <<chainVars, existing, iCount, stack, broken, runs, stayed>>

\* The iterations are used up, or the timeout is over.
LastOrTimeout ==
  /\ Looking /\ iCurrent \in existing
  /\ task[iCurrent].enabled
  /\ task[iCurrent].iIterations = 0 \/ iCurrent \in Timeouts
  /\ disable(iCurrent, "execute", stack, iNext[iCurrent])

\* Mutant: a task that waits is passed by, whether its request is complete or not.
RunUnlessWaiting ==
  /\ Looking
  /\ Considered(iCurrent) /\ task[iCurrent].waiting = "no"
  /\ task' = [task EXCEPT ![iCurrent].iIterations = IF @ > 0 THEN @ - 1 ELSE @]
  /\ runs' = [runs EXCEPT ![iCurrent] = IF task[iCurrent].iIterations > 0 THEN @ + 1 ELSE @]
  /\ nextTask' = iNext[iCurrent]
  /\ stack' = <<Hook("callback", iCurrent, "")>>
  /\ seen' = seen \cup {iCurrent}
  /\ UNCHANGED <<chainVars, existing, iCount, iCurrent, passing, broken, stayed>>

\* The callback runs.
Run ==
  /\ Looking
  /\ Considered(iCurrent) /\ ~Pending(iCurrent)
  /\ task' = [task EXCEPT ![iCurrent].waiting = "no",
                          ![iCurrent].iIterations = IF @ > 0 THEN @ - 1 ELSE @]
  /\ runs' = [runs EXCEPT ![iCurrent] = IF task[iCurrent].iIterations > 0 THEN @ + 1 ELSE @]
  /\ nextTask' = iNext[iCurrent]
  /\ stack' = <<Hook("callback", iCurrent, "")>>
  /\ seen' = seen \cup {iCurrent}
  /\ UNCHANGED <<chainVars, existing, iCount, iCurrent, passing, broken, stayed>>

CallbackOver(n) ==
  /\ stack # <<>> /\ Top.fn = "callback"
  /\ MoveOn(n)
  /\ stack' = Below
  /\ UNCHANGED <<chainVars, existing, task, iCount, broken, historyVars>>

\* Mutants: the next task is looked up after the callback; one callback in a pass.
callbackReturnsAlong == stack # <<>> /\ CallbackOver(iNext[Top.task])
callbackReturnsForGood == CallbackOver(NULL)

\* Nothing of the task is looked at when its callback has returned.
callbackReturns == CallbackOver(nextTask)

-----------------------------------------------------------------------------
\* disableAll() and enableAll() at the task they have come to: the call for it,
\* and when that is over the next one.
AllLoop ==
  /\ ~broken
  /\ stack # <<>> /\ Top.fn \in {"disableAll", "enableAll"}
  /\ LET at == Top.task
         called == [stack EXCEPT ![Len(stack)].then = "next"]
     IN \/ /\ at = NULL
           /\ stack' = Below
           /\ UNCHANGED <<chainVars, existing, task, iCount, iCurrent, passing, nextTask, broken, historyVars>>
        \/ /\ at # NULL /\ Top.then = "" /\ Top.fn = "disableAll"
           /\ disable(at, "", called, NULL)
        \/ /\ at # NULL /\ Top.then = "" /\ Top.fn = "enableAll"
           /\ enable(at, task[at], "", called)
           /\ UNCHANGED runs
        \/ /\ at # NULL /\ Top.then = "next" /\ at \notin existing
           /\ Break
        \/ /\ at # NULL /\ Top.then = "next" /\ at \in existing
           /\ stack' = [stack EXCEPT ![Len(stack)].task = iNext[at], ![Len(stack)].then = ""]
           /\ UNCHANGED <<chainVars, existing, task, iCount, iCurrent, passing, nextTask, broken, historyVars>>

-----------------------------------------------------------------------------
\* User code runs, in loop() or called by the library, and makes call c.
UserCalls(c) ==
  /\ c \in Calls /\ ~broken
  /\ IF stack = <<>> THEN ~passing ELSE Top.fn \in UserCode

\* What careful user code may delete: not a task whose OnEnable or OnDisable has
\* not returned, and not the task execute() goes to next.
MayDelete(t) ==
  /\ \/ "deleteInHook" \in Liberties
     \/ \A i \in DOMAIN stack : stack[i].fn \in {"OnEnable", "OnDisable"} => stack[i].task # t
  /\ "deleteNext" \in Liberties \/ ~(passing /\ stack # <<>> /\ t = nextTask)

CallEnable ==
  /\ UserCalls("enable")
  /\ \E t \in existing : enable(t, task[t], "", stack)
  /\ UNCHANGED runs

CallRestart ==
  /\ UserCalls("restart")
  /\ \E t \in existing : enable(t, task[t], "restart", stack) /\ runs' = [runs EXCEPT ![t] = 0]

CallDisable ==
  /\ UserCalls("disable")
  /\ \E t \in existing : disable(t, "", stack, NULL)

setIterations ==
  /\ UserCalls("setIterations")
  /\ \E t \in existing, n \in Iterations :
       /\ task' = [task EXCEPT ![t].iIterations = n, ![t].iSetIterations = n]
       /\ runs' = [runs EXCEPT ![t] = 0]
  /\ UNCHANGED <<chainVars, existing, iCount, iCurrent, passing, nextTask, stack, broken, seen, stayed>>

\* Mutant: yield() takes the run back, and not the iteration.
yieldKeepsIterations ==
  /\ UserCalls("yield")
  /\ stack # <<>> /\ Top.fn = "callback" /\ Top.task \in existing
  /\ runs' = [runs EXCEPT ![Top.task] = IF task[Top.task].iIterations >= 0 THEN @ - 1 ELSE @]
  /\ UNCHANGED <<chainVars, schedulerVars, seen, stayed>>

\* yield() of the running callback takes its run back; one at a time, iIterations
\* is bounded by that.
yield ==
  /\ UserCalls("yield")
  /\ stack # <<>> /\ Top.fn = "callback" /\ Top.task \in existing
  /\ LET t == Top.task IN
       /\ task[t].iIterations <= task[t].iSetIterations
       /\ task' = [task EXCEPT ![t].iIterations = IF @ >= 0 THEN @ + 1 ELSE @]
       /\ runs' = [runs EXCEPT ![t] = IF task[t].iIterations >= 0 THEN @ - 1 ELSE @]
  /\ UNCHANGED <<chainVars, existing, iCount, iCurrent, passing, nextTask, stack, broken, seen, stayed>>

\* yieldOnce() leaves one iteration to go.
yieldOnce ==
  /\ UserCalls("yieldOnce")
  /\ stack # <<>> /\ Top.fn = "callback" /\ Top.task \in existing
  /\ task' = [task EXCEPT ![Top.task].iIterations = 1]
  /\ runs' = [runs EXCEPT ![Top.task] = task[Top.task].iSetIterations - 1]
  /\ UNCHANGED <<chainVars, existing, iCount, iCurrent, passing, nextTask, stack, broken, seen, stayed>>

CallAddTask ==
  /\ UserCalls("addTask")
  /\ "addInPass" \in Liberties \/ stack = <<>>
  /\ \E t \in existing : addTask(t)
  /\ UNCHANGED <<schedulerVars, historyVars>>

CallDeleteTask ==
  /\ UserCalls("deleteTask")
  /\ \E t \in existing :
       /\ iScheduler[t] /\ MayDelete(t)
       /\ "deleteEnabled" \in Liberties \/ ~task[t].enabled
       /\ deleteTask(t)
       /\ stayed' = stayed \ {t}
  /\ UNCHANGED <<schedulerVars, runs, seen>>

\* The constructor, with or without a scheduler; a constructor that enables the
\* task too is followed by CallEnable.
Construct ==
  /\ UserCalls("new")
  /\ "addInPass" \in Liberties \/ stack = <<>>
  /\ \E t \in Tasks \ existing, n \in Iterations :
       /\ existing' = existing \cup {t}
       /\ task' = [task EXCEPT ![t] = Fresh(n)]
       /\ iCount' = [iCount EXCEPT ![t] = 0]
       /\ runs' = [runs EXCEPT ![t] = 0]
       /\ addTask(t) \/ UNCHANGED chainVars
  /\ UNCHANGED <<iCurrent, passing, nextTask, stack, broken, seen, stayed>>

\* ~Task, once for each task.
Destroy ==
  /\ UserCalls("delete")
  /\ \E t \in existing :
       /\ MayDelete(t)
       /\ \A i \in DOMAIN stack : stack[i].then = "destroy" => stack[i].task # t
       /\ disable(t, "destroy", stack, NULL)

\* waitFor() and waitForDelayed(); with NULL only the pointer is assigned.
waitFor ==
  /\ UserCalls("waitFor")
  /\ \E t \in existing :
       \/ \E n \in Iterations, w \in {"nodelay", "delay"}, r \in Requests \cup (existing \ {t}) :
            /\ enable(t, [task[t] EXCEPT !.iStatusRequest = r, !.iIterations = n,
                                         !.iSetIterations = n, !.waiting = w], "", stack)
            /\ runs' = [runs EXCEPT ![t] = 0]
       \/ /\ "waitForNull" \in Liberties \/ task[t].waiting = "no"
          /\ task' = [task EXCEPT ![t].iStatusRequest = NULL]
          /\ UNCHANGED <<chainVars, existing, iCount, iCurrent, passing, nextTask, stack, broken, historyVars>>

setWaiting ==
  /\ UserCalls("setWaiting")
  /\ \E r \in Requests, n \in 1 .. MaxCount : iCount' = [iCount EXCEPT ![r] = n]
  /\ UNCHANGED <<chainVars, existing, task, iCurrent, passing, nextTask, stack, broken, historyVars>>

\* signal(): one of the awaited events, or an error and that is all of them;
\* signalComplete().
signal ==
  /\ UserCalls("signal")
  /\ \E r \in Requests :
       /\ iCount[r] > 0
       /\ \E n \in {iCount[r] - 1, 0} : iCount' = [iCount EXCEPT ![r] = n]
  /\ UNCHANGED <<chainVars, existing, task, iCurrent, passing, nextTask, stack, broken, historyVars>>

CallAll ==
  /\ UserCalls("all")
  /\ Len(stack) + 1 < MaxDepth
  /\ \E fn \in {"disableAll", "enableAll"} :
       stack' = Append(stack, [fn |-> fn, task |-> iFirst, current |-> NULL, then |-> ""])
  /\ UNCHANGED <<chainVars, existing, task, iCount, iCurrent, passing, nextTask, broken, historyVars>>

\* startNow() walks the chain with iCurrent.
startNow ==
  /\ UserCalls("startNow")
  /\ stack = <<>> \/ "startNowInside" \in Liberties
  /\ iCurrent' = NULL
  /\ UNCHANGED <<chainVars, existing, task, iCount, passing, nextTask, stack, broken, historyVars>>

-----------------------------------------------------------------------------
Pass == execute \/ Dangling \/ PassBy \/ LastOrTimeout \/ Run

Returns == callbackReturns \/ OnEnableReturns \/ OnDisableReturns

User ==
  \/ CallEnable \/ CallRestart \/ CallDisable \/ setIterations \/ yield \/ yieldOnce
  \/ CallAddTask \/ CallDeleteTask \/ Construct \/ Destroy
  \/ waitFor \/ setWaiting \/ signal
  \/ CallAll \/ startNow

Next == Pass \/ Returns \/ AllLoop \/ User

Spec == Init /\ [][Next]_vars

\* loop() calls execute() for ever, whatever else it calls, user code returns, and
\* a task that is looked at again and again is due some time.
FairSpec ==
  /\ Spec
  /\ SF_vars(execute)
  /\ WF_vars(Pass) /\ WF_vars(Returns) /\ WF_vars(AllLoop)
  /\ \A t \in Tasks : SF_vars(Run /\ iCurrent = t)

TypeOK ==
  /\ ChainTypeOK
  /\ existing \subseteq Tasks
  /\ task \in [Tasks -> Record]
  /\ iCount \in [Requests \cup Tasks -> Nat]
  /\ iCurrent \in Link /\ nextTask \in Link
  /\ passing \in BOOLEAN /\ broken \in BOOLEAN
  /\ stack \in Seq(Frame)
  /\ runs \in [Tasks -> Int] /\ seen \subseteq Tasks /\ stayed \subseteq Tasks

-----------------------------------------------------------------------------
\* No call follows a pointer to nothing, or to a task that is gone.
NoFault == ~broken

\* "Returns pointer to the currently active task": whatever hooks call each
\* other, user code that runs for a task finds it in iCurrent.
CurrentIsRunning ==
  stack # <<>> /\ Top.fn \in UserCode => iCurrent = Top.task

\* Where the pass goes on.
Upcoming == IF stack = <<>> THEN iCurrent ELSE nextTask

\* "Makes one pass through the execution chain.  Tasks are executed in the order
\* they were added": however callbacks change the chain, a task that stays in it
\* is looked at once in each pass, after those before it, and what the pass goes to
\* next is in the chain.
WholePass ==
  /\ stayed \subseteq Members
  /\ IF passing /\ Upcoming # NULL
     THEN Upcoming \in Members /\ stayed \cap seen = stayed \cap Before(Upcoming)
     ELSE stayed \subseteq seen

\* A task with a number of iterations has run that often when it is disabled on
\* its last one, also with yields, and restarts from its own callback or hooks.
RunsAsSet ==
  Looking /\ iCurrent \in existing /\ task[iCurrent].enabled /\ task[iCurrent].iIterations = 0
    => runs[iCurrent] = task[iCurrent].iSetIterations

\* A pass ends, whatever the callbacks do, if they add no task to the chain (a
\* callback that deletes and adds its own task can keep a pass going) and no
\* task waits for a request that was destroyed with its task.
PassEnds == passing ~> ~passing \/ broken

\* A task that stays enabled and in the chain is run, unless it waits.
EnabledRuns ==
  \A t \in Tasks :
    iScheduler[t] /\ Considered(t) /\ task[t].waiting = "no"
      ~> \/ stack # <<>> /\ Top.fn = "callback" /\ Top.task = t
         \/ ~iScheduler[t] \/ ~Considered(t) \/ task[t].waiting # "no"

\* A task whose request is complete, and not set to wait again before the next
\* pass, is let go.
WaiterLetGo ==
  \A t \in Tasks :
    iScheduler[t] /\ Considered(t) /\ ~Pending(t)
      ~> task[t].waiting = "no" \/ Pending(t) \/ ~iScheduler[t] \/ ~Considered(t)
=============================================================================
