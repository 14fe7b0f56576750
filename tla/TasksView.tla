----------------------------- MODULE TasksView ------------------------------
(***************************************************************************)
(* The tasks view (views/tasks): a table to scroll, read from the daemon   *)
(* at every poll.  A load that fails is told of by the application.        *)
(***************************************************************************)
EXTENDS ListView

OpenTasks == view = "tasks" /\ EnterEmpty /\ form' = Closed

ReturnToTasks ==
  /\ view = "tasks" /\ ReEnter /\ Begin(Load)
  /\ UNCHANGED <<list, asking>>

TasksTick == view = "tasks" /\ \E g \in Gens : Tick(g, {Check})

RunLoadTasks ==
  /\ view = "tasks"
  /\ \E c \in running : Reads(c, world, "tasks") \/ ReadFails(c, "no-tasks")
  /\ UNCHANGED <<screen, cluster, list, poll, asking>>

TasksLoaded ==
  /\ view = "tasks"
  /\ \E m \in mail : Hears(m, {"tasks"}) /\ Heard(m) /\ Shows(m.saw)
  /\ UNCHANGED <<screen, cluster, cursor, poll, asking, bounds>>

\* AppErrorMsg
TasksNotLoaded ==
  /\ view = "tasks"
  /\ \E m \in mail : Hears(m, {"no-tasks"}) /\ Heard(m)
  /\ UNCHANGED <<screen, cluster, list, poll, asking, bounds>>

SortTasks ==
  /\ view = "tasks" /\ Press /\ ToggleSort
  /\ UNCHANGED <<screen, cluster, poll, asking, out>>

-----------------------------------------------------------------------------
TasksProgram == RunLoadTasks \/ TasksLoaded \/ TasksNotLoaded \/ OpenTasks \/ ReturnToTasks
=============================================================================
