------------------------------ MODULE Rollout ------------------------------
(***************************************************************************)
(* The sequential rollout of charts/rollout.go: the deploy of a release    *)
(* whose manifest marks services that must not restart together.  The      *)
(* engine deploys partial manifests and watches each marked service; swarm *)
(* updates services on its own time, after the deploy call has returned.   *)
(*                                                                         *)
(* Swarm is external: a deploy stores each named service's spec, the       *)
(* update of a changed one begins later, stops the service and brings it   *)
(* up again or pauses.  A service's tasks are taken together.  The         *)
(* services are peers of one cluster, as in the mariadb-galera chart that  *)
(* the label exists for: a peer comes up when another one is up, or when   *)
(* its template tells it to bootstrap the cluster.                         *)
(***************************************************************************)
EXTENDS Integers, FiniteSets

CONSTANTS
  NumServices,   \* marked services, in the order of their names
  Templates,     \* task templates a manifest may give a service
  Bootstrap,     \* the templates whose tasks come up with no other peer up
  Starts,        \* what the cluster may be like at first: "up", "mixed", "stopped"
  MaxOps         \* bound: upgrades begun in a behaviour

Services == 1..NumServices

ASSUME RolloutAssumption ==
  /\ NumServices \in Nat \ {0} /\ MaxOps \in Nat
  /\ Bootstrap \subseteq Templates /\ Starts \subseteq {"up", "mixed", "stopped"}

VARIABLES
  spec, prev,  \* each service's task template and the one before its last update
  working,     \* the template swarm last set out to run
  task,        \* its tasks, taken together: "up", "starting" or "down"
  update,      \* UpdateStatus.State: "", "updating", "completed" or "paused"
  started,     \* UpdateStatus.StartedAt, as a count of the updates begun
  pc,          \* the engine's next step
  want,        \* the manifest being deployed: a template for each service
  others,      \* the manifest has services that are not marked
  held,        \* held services still to be rolled
  current,     \* the service being rolled, 0 when none is
  before,      \* its UpdateStartedAt as read before its deploy
  ops,         \* upgrades begun, bounded by MaxOps
  base,        \* history: each service's template when the upgrade began
  protected    \* history: the services whose availability it has to protect

swarm == <<spec, prev, working, task, update, started>>
vars  == <<swarm, pc, want, others, held, current, before, ops, base, protected>>

-----------------------------------------------------------------------------
(***************************************************************************)
(* Swarm                                                                   *)
(***************************************************************************)

\* An update stored and not begun.
Pending(s) == spec[s] # working[s]

\* A service restarts from the deploy that changes it until its tasks are up.
Restarting(s) == Pending(s) \/ task[s] # "up"

AnyUp == \E s \in Services : task[s] = "up"

\* DeployStack of the services in S, and of every unmarked one.
Deploy(S) ==
  /\ spec' = [s \in Services |-> IF s \in S THEN want[s] ELSE spec[s]]
  /\ prev' = [s \in Services |-> IF s \in S THEN spec[s] ELSE prev[s]]
  /\ UNCHANGED <<working, task, update, started>>

UpdateBegins(s) ==
  /\ Pending(s)
  /\ working' = [working EXCEPT ![s] = spec[s]]
  /\ task' = [task EXCEPT ![s] = "starting"]
  /\ update' = [update EXCEPT ![s] = "updating"]
  /\ started' = [started EXCEPT ![s] = @ + 1]
  /\ UNCHANGED <<spec, prev, pc, want, others, held, current, before, ops, base, protected>>

ComesUp(s) ==
  /\ task[s] = "starting"
  /\ AnyUp \/ working[s] \in Bootstrap
  /\ task' = [task EXCEPT ![s] = "up"]
  /\ UNCHANGED <<spec, prev, working, update, started,
                 pc, want, others, held, current, before, ops, base, protected>>

UpdateCompletes(s) ==
  /\ update[s] = "updating" /\ task[s] = "up"
  /\ update' = [update EXCEPT ![s] = "completed"]
  /\ UNCHANGED <<spec, prev, working, task, started,
                 pc, want, others, held, current, before, ops, base, protected>>

UpdatePauses(s) ==
  /\ update[s] = "updating" /\ task[s] = "starting"
  /\ update' = [update EXCEPT ![s] = "paused"]
  /\ task' = [task EXCEPT ![s] = "down"]
  /\ UNCHANGED <<spec, prev, working, started,
                 pc, want, others, held, current, before, ops, base, protected>>

-----------------------------------------------------------------------------
(***************************************************************************)
(* What the engine reads                                                   *)
(***************************************************************************)

TaskSpecChanged(s) == prev[s] # spec[s]

\* Convergence, of a service with these tasks and this update.
Phase(s) ==
  CASE update[s] = "paused" /\ task[s] # "up" -> "wedged"
    [] update[s] = "updating"                 -> "progressing"
    [] task[s] # "up"                         -> "progressing"
    [] OTHER                                  -> "converged"

\* heldForRollout without its last case: only services that are up are held.
HeldUpOnly == {s \in Services : task[s] = "up"}

\* heldForRollout without anyUp: what is coming up is held in any case.
HeldWhenStarting == {s \in Services : task[s] # "down"}

\* heldForRollout: what is up, and what is coming up while another is up.
HeldForRollout ==
  {s \in Services : task[s] = "up" \/ (task[s] = "starting" /\ AnyUp)}

First(S) == CHOOSE s \in S : \A t \in S : s <= t

-----------------------------------------------------------------------------
(***************************************************************************)
(* deployAndRecord and rollOneAtATime                                      *)
(***************************************************************************)

Init ==
  /\ \E t \in Templates :
       /\ spec = [s \in Services |-> t]
       /\ prev = spec
       /\ working = spec
       /\ want = spec
  /\ \/ "up" \in Starts      /\ task = [s \in Services |-> "up"]
     \/ "stopped" \in Starts /\ task = [s \in Services |-> "starting"]
     \/ "mixed" \in Starts   /\ task \in [Services -> {"up", "starting"}]
  /\ update = [s \in Services |-> ""]
  /\ started = [s \in Services |-> 0]
  /\ pc = "idle"
  /\ others \in BOOLEAN
  /\ held = {} /\ current = 0 /\ before = 0 /\ ops = 0
  /\ base = spec /\ protected = {}

\* An upgrade, rollback or apply of a manifest reads which services to hold.
\* When that is all of them the first goes out with the first deploy, and its
\* update is waited for like the others': its state is read first.  Swarm begins
\* an update within moments, so the last upgrade's have begun by then; they need
\* not be over.
BeginUpgrade ==
  /\ pc = "idle"
  /\ ops < MaxOps
  /\ \A s \in Services : ~Pending(s)
  /\ ops' = ops + 1
  /\ pc' = "first"
  /\ want' \in [Services -> Templates]
  /\ base' = spec
  /\ protected' = IF AnyUp THEN {s \in Services : task[s] # "down"} ELSE {}
  /\ IF HeldForRollout = Services /\ ~others
     THEN /\ current' = First(Services)
          /\ held' = Services \ {current'}
          /\ before' = started[current']
     ELSE current' = 0 /\ held' = HeldForRollout /\ before' = 0
  /\ UNCHANGED <<swarm, others>>

\* The first deploy leaves the held services out; the revision is recorded.
FirstDeploy ==
  /\ pc = "first"
  /\ Deploy(Services \ held)
  /\ pc' = IF current # 0 THEN "wait" ELSE "next"
  /\ UNCHANGED <<want, others, held, current, before, ops, base, protected>>

\* The next held service: its state is read, then it is deployed.
NextService ==
  /\ pc = "next" /\ held # {}
  /\ current' = First(held)
  /\ held' = held \ {current'}
  /\ before' = started[current']
  /\ pc' = "deploy"
  /\ UNCHANGED <<swarm, want, others, ops, base, protected>>

\* The deploy carries the manifest minus the services still to come.
DeployService ==
  /\ pc = "deploy"
  /\ Deploy(Services \ held)
  /\ pc' = "wait"
  /\ UNCHANGED <<want, others, held, current, before, ops, base, protected>>

\* waitRolled: nothing to wait for, or the update that followed has converged.
Rolled(s) ==
  \/ ~TaskSpecChanged(s)
  \/ started[s] > before /\ Phase(s) = "converged"

\* The loop going to the next service by index where the wait ends.
WaitEndsStepping ==
  /\ pc = "wait"
  /\ Rolled(current)
  /\ current' = current + 1
  /\ pc' = "next"
  /\ UNCHANGED <<swarm, want, others, held, before, ops, base, protected>>

\* The loop ending where a service with nothing to wait for should be passed over.
WaitEndsReturning ==
  /\ pc = "wait"
  /\ Rolled(current)
  /\ current' = 0
  /\ pc' = "next"
  /\ held' = IF TaskSpecChanged(current) THEN held ELSE {}
  /\ UNCHANGED <<swarm, want, others, before, ops, base, protected>>

WaitEnds ==
  /\ pc = "wait"
  /\ Rolled(current)
  /\ current' = 0
  /\ pc' = "next"
  /\ UNCHANGED <<swarm, want, others, held, before, ops, base, protected>>

\* Swarm paused the update, the deadline passed, or the context was cancelled.
WaitFails ==
  /\ pc = "wait"
  /\ current' = 0
  /\ pc' = "failed"
  /\ UNCHANGED <<swarm, want, others, held, before, ops, base, protected>>

\* The first deploy or one of the following fails, or the process dies.
DeployFails ==
  /\ pc \in {"first", "deploy"}
  /\ current' = 0
  /\ pc' = "failed"
  /\ UNCHANGED <<swarm, want, others, held, before, ops, base, protected>>

Finished ==
  /\ \/ pc = "next" /\ held = {}
     \/ pc = "failed"
  /\ pc' = "idle"
  /\ held' = {} /\ current' = 0 /\ before' = 0 /\ base' = spec /\ protected' = {}
  /\ UNCHANGED <<swarm, want, others, ops>>

EngineForward == FirstDeploy \/ NextService \/ DeployService \/ WaitEnds \/ Finished
EngineStep    == EngineForward \/ WaitFails \/ DeployFails

SwarmForward(s) == UpdateBegins(s) \/ ComesUp(s) \/ UpdateCompletes(s)

Next ==
  \/ BeginUpgrade
  \/ EngineStep
  \/ \E s \in Services : SwarmForward(s) \/ UpdatePauses(s)

\* The engine runs, and its waits have a deadline.
Spec == Init /\ [][Next]_vars /\ WF_vars(EngineStep)

\* No deadline passes, no call fails and swarm does its part: what is left to
\* hold an upgrade up is the engine waiting for what does not come.
PatientNext ==
  BeginUpgrade \/ EngineForward \/ \E s \in Services : SwarmForward(s)

PatientSpec ==
  /\ Init /\ [][PatientNext]_vars
  /\ WF_vars(EngineForward)
  /\ \A s \in Services : WF_vars(SwarmForward(s))

-----------------------------------------------------------------------------
(***************************************************************************)
(* Properties                                                              *)
(***************************************************************************)

TypeOK ==
  /\ spec \in [Services -> Templates] /\ prev \in [Services -> Templates]
  /\ working \in [Services -> Templates] /\ want \in [Services -> Templates]
  /\ task \in [Services -> {"up", "starting", "down"}]
  /\ update \in [Services -> {"", "updating", "completed", "paused"}]
  /\ started \in [Services -> 0..MaxOps]
  /\ pc \in {"idle", "first", "next", "deploy", "wait", "failed"}
  /\ held \subseteq Services /\ current \in Services \cup {0}
  /\ before \in 0..MaxOps /\ ops \in 0..MaxOps /\ protected \subseteq Services

\* "Services that must not restart together" (RolloutLabel): of the services
\* whose availability an upgrade protects, no two of those it changes restart
\* together, the held ones still to come aside.
OneAtATime ==
  pc \notin {"idle", "failed"} =>
    Cardinality({s \in protected \ held : base[s] # want[s] /\ Restarting(s)}) <= 1

\* The label's words, "each marked service on its own, in name order, waiting
\* for it to converge before the next": when a service is deployed on its own
\* to be restarted, none of those that went before it is still restarting.
NextWaitsForTheLast ==
  [][pc = "deploy" /\ pc' = "wait" /\ base[current] # want[current]
       => \A s \in protected \ (held \cup {current}) : ~Restarting(s)]_vars

\* A finished upgrade has given every marked service its manifest's template:
\* holding services back loses none of them.
EveryServiceDeployed ==
  pc = "next" /\ held = {} => \A s \in Services : spec[s] = want[s]

\* "Holding it back could deadlock a recovery" (heldForRollout): an upgrade of a
\* cluster that is up, or that tells some peer of a stopped one to bootstrap it,
\* ends with every peer up and with no wait cut short.
RolloutCompletes ==
  pc = "first" /\ (protected # {} \/ \E s \in Services : want[s] \in Bootstrap)
    ~> pc = "idle" /\ \A s \in Services : task[s] = "up"
=============================================================================
