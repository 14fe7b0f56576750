----------------------------- MODULE Convergence -----------------------------
(***************************************************************************)
(* How far one service has come, as it is read off the swarm's task list:  *)
(* the newest task of each slot, judged by the service's mode, its restart *)
(* condition, the update in flight and the nodes. The swarm that makes and *)
(* ends the tasks is external. Ages and windows are left out.              *)
(***************************************************************************)
EXTENDS Integers, Sequences, FiniteSets

CONSTANTS
  Nodes,
  Replicas,   \* of a replicated service
  MaxTasks,   \* bound on tasks made
  MaxGens     \* bound on the service's updates

\* A replicated service restarted always or on failure or never, or after a long delay; a
\* global one; a global one-shot; a replicated job.
Modes == {"any", "on-failure", "none", "schedule", "global", "global-once", "job"}


VARIABLES
  mode,
  gen,          \* the spec it has, or for a job the iteration; they count up
  update,       \* UpdateStatus.State: "updating", "paused", "completed", "rollback" or, unset, "unset"
  startedAt,    \* tasks that were made when the update started
  tasks,        \* in the order in which they were made
  nodes         \* of each node: "active", or "away": drained or down

vars == <<mode, gen, update, startedAt, tasks, nodes>>

native == mode = "job"
perNode == mode \in {"global", "global-once"}
isJobService == mode \in {"on-failure", "none", "global-once", "job"}
neverRestarts == mode \in {"none", "global-once"}
rests == mode = "schedule"

\* taskSlotKey
Slots == IF perNode THEN Nodes ELSE 1..Replicas

Of(s) == {i \in DOMAIN tasks : tasks[i].slot = s}
Wanted(s) == {i \in Of(s) : tasks[i].desired \in {"running", "ready"} \/ (native /\ tasks[i].desired = "complete" /\ tasks[i].state \notin {"complete", "failed"})}

-----------------------------------------------------------------------------
(***************************************************************************)
(* What is read                                                            *)
(***************************************************************************)
\* newestTaskPerSlot
Newest(s) == CHOOSE i \in Of(s) : \A j \in Of(s) : j <= i

isRollingOut == update \in {"updating", "paused"}
rolloutStart == IF isRollingOut THEN startedAt ELSE 0

AfterSince(i) == i > rolloutStart

isDead(i) == tasks[i].state = "failed"
active(i) == nodes[tasks[i].node] = "active"

\* A slot that waits out its delay is judged by the run before, when that completed.
Resting(s) ==
  /\ rests /\ tasks[Newest(s)].desired = "ready"
  /\ LET earlier == Of(s) \ {Newest(s)}
     IN earlier # {} /\ tasks[CHOOSE i \in earlier : \A j \in earlier : j <= i].state = "complete"

Judged(s) ==
  IF Resting(s) THEN CHOOSE i \in Of(s) \ {Newest(s)} : \A j \in Of(s) \ {Newest(s)} : j <= i ELSE Newest(s)

SkippedOffActive(s) == ~active(Judged(s))

\* A task on a node that is not active is skipped, unless it is a replicated one-shot's and
\* has finished; a job's task is skipped unless it is of this iteration.
Skipped(s) ==
  LET i == Judged(s)
      finished == isJobService /\ ~perNode /\ (tasks[i].state = "complete" \/ (neverRestarts /\ isDead(i)))
  IN (~active(i) /\ ~finished) \/ (native /\ tasks[i].gen # gen)

Reading(s) ==
  LET t == tasks[Judged(s)] IN
  IF Of(s) = {} \/ Skipped(s) THEN "skipped"
  ELSE IF (t.desired = "running" \/ (native /\ t.desired = "complete")) /\ t.state = "running" THEN "running"
  ELSE IF t.desired = "running" /\ t.state = "starting" THEN "starting"
  ELSE IF Resting(s) \/ (isJobService /\ t.state = "complete") THEN "completed"
  ELSE IF neverRestarts /\ isDead(Judged(s)) THEN "dead"
  ELSE "none"

UpToDateAlways(s) == Reading(s) = "running"

UpToDate(s) == Reading(s) = "running" /\ AfterSince(Judged(s))

\* desiredOverNodes: a global service wants the nodes that are active.
Desired == IF perNode THEN Cardinality({n \in Nodes : nodes[n] = "active"}) ELSE Cardinality(Slots)

-----------------------------------------------------------------------------
(***************************************************************************)
(* The swarm                                                               *)
(***************************************************************************)
Ended(i) == tasks[i].state \in {"complete", "failed"}
Dirty(s) == \E i \in Wanted(s) : tasks[i].gen # gen /\ i = Newest(s)

\* A slot is given a task when it has none that is wanted and its restart condition asks
\* for another, or when it has not had one since the service was updated.
Due(s) ==
  \/ Of(s) = {}
  \/ /\ Of(s) # {} /\ Wanted(s) = {}
     /\ LET t == tasks[Newest(s)]
        IN \/ t.gen # gen
           \/ mode \in {"any", "global", "schedule"}
           \/ mode \in {"on-failure", "job"} /\ t.state # "complete"
           \/ neverRestarts /\ ~Ended(Newest(s)) /\ ~active(Newest(s))

NodesFor(s) == {n \in Nodes : nodes[n] = "active" /\ (perNode => n = s)}

Make(s, desired) ==
  /\ Len(tasks) < MaxTasks
  /\ \E n \in NodesFor(s) :
       tasks' = Append(tasks, [slot |-> s, node |-> n, gen |-> gen, state |-> "starting",
                               desired |-> IF native THEN "complete" ELSE desired])
  /\ UNCHANGED <<mode, gen, update, startedAt, nodes>>

\* A restart waits out its delay at "ready"; the first task of a slot does not.
Create(s) == Due(s) /\ Make(s, IF Of(s) # {} /\ tasks[Newest(s)].gen = gen THEN "ready" ELSE "running")

\* The updater, start-first; Stop below, then Create, is stop-first.
StartFirst(s) == update = "updating" /\ Dirty(s) /\ Make(s, "running")

Set(i, desired, state) ==
  /\ tasks' = [tasks EXCEPT ![i].desired = desired, ![i].state = state]
  /\ UNCHANGED <<mode, gen, update, startedAt, nodes>>

DelayOver(i) == tasks[i].desired = "ready" /\ Set(i, "running", tasks[i].state)
Runs(i) == tasks[i].state = "starting" /\ tasks[i].desired \in {"running", "complete"} /\ active(i) /\ Set(i, tasks[i].desired, "running")
Ends(i) == tasks[i].state = "running" /\ \E state \in {"complete", "failed"} : Set(i, "shutdown", state)
Rejected(i) == tasks[i].state = "starting" /\ tasks[i].desired # "ready" /\ Set(i, "shutdown", "failed")

\* The old task of a slot under way is stopped; so is a replicated one that lost its node.
Stop(i) ==
  /\ i \in Wanted(tasks[i].slot)
  /\ \/ update = "updating" /\ tasks[i].gen # gen
     \/ ~perNode /\ ~active(i)
  /\ Set(i, "shutdown", tasks[i].state)

\* The daemon resets the status with the spec, and the updater sets it when it begins.
UpdateSpec ==
  /\ gen < MaxGens /\ gen' = gen + 1 /\ update' = "unset"
  /\ UNCHANGED <<mode, startedAt, tasks, nodes>>

Updater ==
  /\ ~native
  /\ \/ update = "unset" /\ (\E s \in Slots : Dirty(s)) /\ update' = "updating" /\ startedAt' = Len(tasks)
     \/ update = "updating" /\ (\E i \in DOMAIN tasks : i > startedAt /\ tasks[i].state = "failed")
        /\ update' \in {"paused", "rollback"} /\ UNCHANGED startedAt
     \/ update = "updating" /\ (\A s \in Slots : ~Dirty(s) /\ Wanted(s) # {}) /\ update' = "completed" /\ UNCHANGED startedAt
  /\ UNCHANGED <<mode, gen, tasks, nodes>>

NodeChanges ==
  /\ \E n \in Nodes, to \in {"active", "away"} : nodes' = [nodes EXCEPT ![n] = to]
  /\ UNCHANGED <<mode, gen, update, startedAt, tasks>>

Init ==
  /\ mode \in Modes /\ gen = 1 /\ update = "unset" /\ startedAt = 0 /\ tasks = <<>>
  /\ nodes = [n \in Nodes |-> "active"]

Next ==
  \/ \E s \in Slots : Create(s) \/ StartFirst(s)
  \/ \E i \in DOMAIN tasks : DelayOver(i) \/ Runs(i) \/ Ends(i) \/ Rejected(i) \/ Stop(i)
  \/ UpdateSpec \/ Updater \/ NodeChanges

Spec == Init /\ [][Next]_vars

-----------------------------------------------------------------------------
(***************************************************************************)
(* What must hold                                                          *)
(***************************************************************************)
Read(what) == {s \in Slots : Reading(s) = what}
ReadNow(what) == {s \in Read(what) : tasks[Judged(s)].gen = gen}

\* Every piece of state keeps to its type.
TypeOK ==
  /\ mode \in Modes /\ gen \in 1..MaxGens /\ startedAt \in 0..MaxTasks
  /\ update \in {"unset", "updating", "paused", "completed", "rollback"}
  /\ nodes \in [Nodes -> {"active", "away"}]
  /\ \A i \in DOMAIN tasks : tasks[i].slot \in Slots /\ tasks[i].node \in Nodes /\ tasks[i].gen <= gen

\* While an update is in flight no task of the spec before is counted as up to date, and
\* no earlier run of a job as completed, whichever of restarts, node losses and the
\* updater made or ended the tasks in between; and no more run than the service wants, on
\* nodes that come and go ("a healthy global service read 3/2").
CountsOnlyTheCurrent ==
  /\ Cardinality(Read("running") \cup Read("starting") \cup Read("completed")) <= Desired
  /\ isRollingOut => \A s \in Slots : UpToDate(s) => tasks[Judged(s)].gen = gen
  /\ native => \A s \in Read("completed") : tasks[Judged(s)].gen = gen

\* Until the service is updated, a step leaves what has finished read as finished.
StaysFinished ==
  isJobService /\ ~perNode /\ gen' = gen =>
    /\ ReadNow("completed") \subseteq Read("completed")'
    /\ neverRestarts => ReadNow("dead") \subseteq Read("dead")'

\* "draining or losing its node afterwards does not undo the run", and of a dead task
\* "nothing about such a release will ever change": a run of the spec the service has that
\* finished is read as finished until the service is updated.
FinishedStaysFinished == [][StaysFinished]_vars
=============================================================================
