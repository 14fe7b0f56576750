--------------------------- MODULE RolloutProofs ---------------------------
(***************************************************************************)
(* What holds of Rollout for any number of marked services, templates and  *)
(* upgrades, and of Convergence for any number of nodes, replicas, tasks   *)
(* and updates of the service that is read.                                *)
(***************************************************************************)
EXTENDS MCRollout, FiniteSetTheorems, SequenceTheorems, WellFoundedInduction, TLAPS

Rolling == pc \in {"first", "next", "deploy", "wait"}

\* The services that the upgrade under way has deployed so far.
Deployed ==
  CASE pc = "first"  -> {}
    [] pc = "deploy" -> Services \ (held \cup {current})
    [] OTHER         -> Services \ held

\* Every update begun is owed to an upgrade: one that is stored and not begun counts too.
UpdatesCounted ==
  \A s \in Services : started[s] <= ops /\ (Pending(s) => started[s] < ops)

\* What the upgrade has not yet deployed is as it was found, with an update to spare.
RestUntouched ==
  Rolling => \A s \in Services \ Deployed :
               spec[s] = base[s] /\ working[s] = base[s] /\ started[s] < ops

DeployedIsWanted == Rolling => \A s \in Deployed : spec[s] = want[s]

\* Which service is being rolled, at each of the engine's steps.
CurrentInOrder ==
  /\ pc = "first" => protected \subseteq held \cup {current} /\ current \notin held
  /\ pc = "next"  => current = 0
  /\ pc \in {"deploy", "wait"} => current \in Services \ held
  /\ pc \in {"first", "deploy"} /\ current # 0 => before = started[current]

\* While it is waited for, it shows by its previous template that it was to be restarted,
\* and until its update begins the count is what was read before its deploy.
WaitSeesTheUpdate ==
  pc = "wait" =>
    /\ spec[current] = want[current]
    /\ base[current] # want[current] => prev[current] = base[current]
    /\ Pending(current) => started[current] = before

\* Of the protected services that went, only the one being rolled restarts.
OnlyCurrentRestarts ==
  Rolling => \A s \in protected \ held :
               base[s] # want[s] /\ Restarting(s) => s = current

Inv ==
  /\ TypeOK /\ base \in [Services -> Templates]
  /\ UpdatesCounted /\ RestUntouched /\ DeployedIsWanted
  /\ CurrentInOrder /\ WaitSeesTheUpdate /\ OnlyCurrentRestarts

-----------------------------------------------------------------------------
\* The first of some services is one of them.
LEMMA FirstIsOne ==
  ASSUME NEW S \in SUBSET Services, S # {}
  PROVE  First(S) \in S
  <1>1. S \subseteq Nat
    BY RolloutAssumption DEF Services
  <1>2. PICK s \in S : \A t \in S : ~ (<<t, s>> \in OpToRel(<, Nat))
    <2>1. IsWellFoundedOn(OpToRel(<, Nat), Nat)
      BY NatLessThanWellFounded
    <2>. HIDE DEF OpToRel
    <2>. QED
      BY <1>1, <2>1, WFMin
  <1>3. \A t \in S : s <= t
    <2>1. ASSUME NEW t \in S, t < s
          PROVE  <<t, s>> \in OpToRel(<, Nat)
      BY <1>1, <2>1 DEF OpToRel
    <2>2. \A t \in S : ~ (t < s)
      BY <1>2, <2>1, Zenon
    <2>. QED
      BY <1>1, <2>2
  <1>. QED
    BY <1>3 DEF First

-----------------------------------------------------------------------------
\* The counts are numbers.
LEMMA Counts ==
  ASSUME TypeOK
  PROVE  /\ MaxOps \in Nat
         /\ ops \in Nat /\ ops <= MaxOps /\ before \in Nat /\ before <= MaxOps
         /\ \A s \in Services : started[s] \in Nat /\ started[s] <= MaxOps
  <1>1. ops \in 0..MaxOps /\ before \in 0..MaxOps /\ started \in [Services -> 0..MaxOps]
    BY Zenon DEF TypeOK
  <1>2. MaxOps \in Nat
    BY RolloutAssumption
  <1>. QED
    BY <1>1, <1>2

LEMMA InitInv == Init => Inv
  <1>. SUFFICES ASSUME Init  PROVE  Inv
    OBVIOUS
  <1>1. TypeOK /\ base \in [Services -> Templates]
    <2>1. PICK t \in Templates :
            spec = [s \in Services |-> t] /\ prev = spec /\ working = spec /\ want = spec
      BY DEF Init
    <2>2. spec \in [Services -> Templates] /\ base = spec
      BY <2>1 DEF Init
    <2>3. task \in [Services -> {"up", "starting", "down"}]
      BY DEF Init
    <2>4. update \in [Services -> {"", "updating", "completed", "paused"}]
      BY DEF Init
    <2>5. started \in [Services -> 0..MaxOps] /\ 0 \in 0..MaxOps
      <3>1. MaxOps \in Nat
        BY RolloutAssumption
      <3>2. 0 \in 0..MaxOps
        BY <3>1
      <3>. QED
        BY <3>2 DEF Init
    <2>6. held \subseteq Services /\ current = 0 /\ protected \subseteq Services /\ pc = "idle"
      BY DEF Init
    <2>7. before = 0 /\ ops = 0
      BY DEF Init
    <2>. QED
      BY <2>1, <2>2, <2>3, <2>4, <2>5, <2>6, <2>7 DEF TypeOK
  <1>2. UpdatesCounted
    <2>1. \A s \in Services : spec[s] = working[s] /\ started[s] = 0
      BY DEF Init
    <2>2. ops = 0
      BY DEF Init
    <2>. QED
      BY <2>1, <2>2 DEF UpdatesCounted, Pending
  <1>3. ~ Rolling /\ pc = "idle"
    BY DEF Init, Rolling
  <1>. QED
    BY <1>1, <1>2, <1>3 DEF Inv, RestUntouched, DeployedIsWanted, CurrentInOrder,
       WaitSeesTheUpdate, OnlyCurrentRestarts

-----------------------------------------------------------------------------
(***************************************************************************)
(* The engine's steps                                                      *)
(***************************************************************************)

LEMMA BeginKeepsInv ==
  ASSUME Inv, BeginUpgrade
  PROVE  Inv'
  <1>. USE DEF BeginUpgrade, swarm
  <1>1. HeldForRollout \subseteq Services
    BY DEF HeldForRollout
  <1>2. Services # {} /\ 0 \notin Services
    BY RolloutAssumption DEF Services
  <1>3. /\ current' \in Services \cup {0} /\ held' \subseteq Services /\ current' \notin held'
        /\ before' = IF current' = 0 THEN 0 ELSE started[current']
    <2>1. CASE HeldForRollout = Services /\ ~others
      <3>1. First(Services) \in Services
        BY <1>2, FirstIsOne
      <3>. QED
        BY <1>2, <2>1, <3>1
    <2>2. CASE ~ (HeldForRollout = Services /\ ~others)
      BY <1>1, <1>2, <2>2
    <2>. QED
      BY <2>1, <2>2
  <1>4. TypeOK' /\ base' \in [Services -> Templates]
    <2>1. ops' \in 0..MaxOps
      <3>1. ops \in Nat /\ MaxOps \in Nat
        BY Counts DEF Inv
      <3>2. ops < MaxOps /\ ops' = ops + 1
        OBVIOUS
      <3>. QED
        BY ONLY <3>1, <3>2
    <2>2. before' \in 0..MaxOps
      <3>1. MaxOps \in Nat /\ \A s \in Services : started[s] \in Nat /\ started[s] <= MaxOps
        BY Counts DEF Inv
      <3>2. current' \in Services \cup {0} /\ before' = IF current' = 0 THEN 0 ELSE started[current']
        BY <1>3
      <3>. QED
        BY ONLY <3>1, <3>2
    <2>3. protected' \subseteq Services
      OBVIOUS
    <2>4. want' \in [Services -> Templates] /\ base' = spec /\ pc' = "first"
      OBVIOUS
    <2>5. UNCHANGED <<spec, prev, working, task, update, started>>
      OBVIOUS
    <2>. QED
      BY <1>3, <2>1, <2>2, <2>3, <2>4, <2>5 DEF Inv, TypeOK
  <1>5. UpdatesCounted' /\ \A s \in Services : started'[s] < ops'
    <2>1. ops' = ops + 1 /\ started' = started /\ spec' = spec /\ working' = working
      OBVIOUS
    <2>2. ops \in Nat /\ \A s \in Services : started[s] \in Nat /\ started[s] <= ops
      BY Counts DEF Inv, UpdatesCounted
    <2>3. \A s \in Services : started'[s] < ops'
      BY ONLY <2>1, <2>2
    <2>4. \A s \in Services : started'[s] <= ops'
      BY ONLY <2>1, <2>2
    <2>. QED
      BY <2>3, <2>4 DEF UpdatesCounted
  <1>6. RestUntouched' /\ DeployedIsWanted'
    BY <1>5 DEF Inv, RestUntouched, DeployedIsWanted, Rolling, Deployed, Pending
  <1>7. protected' \subseteq held' \cup {current'}
    <2>1. HeldForRollout \subseteq held' \cup {current'}
      BY <1>1
    <2>2. AnyUp => {s \in Services : task[s] # "down"} \subseteq HeldForRollout
      BY DEF Inv, TypeOK, HeldForRollout
    <2>3. protected' = IF AnyUp THEN {s \in Services : task[s] # "down"} ELSE {}
      OBVIOUS
    <2>. QED
      BY <2>1, <2>2, <2>3
  <1>8. CurrentInOrder'
    BY <1>2, <1>3, <1>7 DEF CurrentInOrder
  <1>9. WaitSeesTheUpdate' /\ OnlyCurrentRestarts'
    BY <1>7 DEF WaitSeesTheUpdate, OnlyCurrentRestarts
  <1>. QED
    BY <1>4, <1>5, <1>6, <1>8, <1>9 DEF Inv

LEMMA FirstDeployKeepsInv ==
  ASSUME Inv, FirstDeploy
  PROVE  Inv'
  <1>. USE DEF FirstDeploy, Deploy
  <1>1. TypeOK' /\ base' \in [Services -> Templates]
    BY DEF Inv, TypeOK
  <1>2. \A s \in Services : spec[s] = base[s] /\ working[s] = base[s] /\ started[s] < ops
    BY DEF Inv, RestUntouched, Rolling, Deployed
  <1>3. pc' \in {"wait", "next"} /\ Deployed' = Services \ held
    BY DEF Deployed
  <1>4. UpdatesCounted'
    BY <1>2, <1>1 DEF UpdatesCounted, Pending, Inv, TypeOK
  <1>5. RestUntouched' /\ DeployedIsWanted'
    BY <1>2, <1>3 DEF RestUntouched, DeployedIsWanted
  <1>6. CurrentInOrder'
    BY <1>3 DEF Inv, TypeOK, CurrentInOrder
  <1>7. WaitSeesTheUpdate'
    BY <1>2, <1>6 DEF Inv, TypeOK, CurrentInOrder, WaitSeesTheUpdate, Pending
  <1>8. OnlyCurrentRestarts'
    BY <1>3 DEF Inv, CurrentInOrder, OnlyCurrentRestarts, Restarting, Pending
  <1>. QED
    BY <1>1, <1>4, <1>5, <1>6, <1>7, <1>8 DEF Inv

LEMMA NextServiceKeepsInv ==
  ASSUME Inv, NextService
  PROVE  Inv'
  <1>. USE DEF NextService, swarm
  <1>1. current' \in held /\ current' \notin held' /\ held' = held \ {current'} /\ current' \in Services
    BY FirstIsOne DEF Inv, TypeOK
  <1>2. TypeOK' /\ base' \in [Services -> Templates]
    BY <1>1 DEF Inv, TypeOK
  <1>3. Rolling /\ Rolling' /\ Deployed' = Deployed /\ Deployed = Services \ held
    BY <1>1 DEF Rolling, Deployed
  <1>4. UpdatesCounted'
    BY DEF Inv, UpdatesCounted, Pending
  <1>5. RestUntouched' /\ DeployedIsWanted'
    BY <1>3 DEF Inv, RestUntouched, DeployedIsWanted
  <1>6. CurrentInOrder'
    BY <1>1 DEF CurrentInOrder
  <1>7. WaitSeesTheUpdate'
    BY DEF WaitSeesTheUpdate
  <1>8. OnlyCurrentRestarts'
    <2>1. current = 0 /\ 0 \notin Services
      BY RolloutAssumption DEF Inv, CurrentInOrder, Services
    <2>. SUFFICES ASSUME NEW s \in protected \ held', base[s] # want[s], Restarting(s)
                  PROVE  s = current'
      BY DEF OnlyCurrentRestarts, Restarting, Pending
    <2>2. CASE s \in held
      BY <1>1, <2>2
    <2>3. CASE s \notin held
      BY <1>3, <2>1, <2>3 DEF Inv, TypeOK, OnlyCurrentRestarts
    <2>. QED
      BY <2>2, <2>3
  <1>. QED
    BY <1>2, <1>4, <1>5, <1>6, <1>7, <1>8 DEF Inv

LEMMA DeployServiceKeepsInv ==
  ASSUME Inv, DeployService
  PROVE  Inv'
  <1>. USE DEF DeployService, Deploy
  <1>1. TypeOK' /\ base' \in [Services -> Templates]
    BY DEF Inv, TypeOK
  <1>2. /\ Rolling /\ Rolling' /\ current \in Services \ held
        /\ Deployed = Services \ (held \cup {current}) /\ Deployed' = Services \ held
    BY DEF Inv, CurrentInOrder, Rolling, Deployed
  <1>3. /\ spec[current] = base[current] /\ working[current] = base[current]
        /\ started[current] < ops /\ before = started[current] /\ current # 0
    BY <1>2, RolloutAssumption DEF Inv, RestUntouched, CurrentInOrder, Services
  <1>4. \A s \in Services : s # current => spec'[s] = spec[s]
    BY <1>2 DEF Inv, TypeOK, DeployedIsWanted
  <1>5. UpdatesCounted'
    BY <1>3, <1>4, <1>1 DEF Inv, TypeOK, UpdatesCounted, Pending
  <1>6. RestUntouched'
    BY <1>2, <1>4 DEF Inv, RestUntouched
  <1>7. DeployedIsWanted'
    BY <1>2 DEF DeployedIsWanted
  <1>8. CurrentInOrder'
    BY <1>2 DEF CurrentInOrder
  <1>9. WaitSeesTheUpdate'
    BY <1>2, <1>3 DEF Inv, TypeOK, WaitSeesTheUpdate
  <1>10. OnlyCurrentRestarts'
    BY <1>2, <1>4 DEF Inv, TypeOK, OnlyCurrentRestarts, Restarting, Pending
  <1>. QED
    BY <1>1, <1>5, <1>6, <1>7, <1>8, <1>9, <1>10 DEF Inv

\* The wait ends only when the service that was to restart is up again.
LEMMA WaitEndsKeepsInv ==
  ASSUME Inv, WaitEnds
  PROVE  Inv'
  <1>. USE DEF WaitEnds, swarm
  <1>1. TypeOK' /\ base' \in [Services -> Templates]
    BY DEF Inv, TypeOK
  <1>2. Rolling /\ Rolling' /\ Deployed' = Deployed /\ current \in Services
    BY DEF Inv, CurrentInOrder, Rolling, Deployed
  <1>3. UpdatesCounted' /\ RestUntouched' /\ DeployedIsWanted' /\ WaitSeesTheUpdate'
    BY <1>2 DEF Inv, UpdatesCounted, RestUntouched, DeployedIsWanted, WaitSeesTheUpdate, Pending
  <1>4. CurrentInOrder'
    BY DEF CurrentInOrder
  <1>5. base[current] # want[current] => ~ Restarting(current)
    <2>. SUFFICES ASSUME base[current] # want[current]
                  PROVE  ~ Restarting(current)
      OBVIOUS
    <2>1. started[current] > before /\ Phase(current) = "converged"
      BY DEF Inv, WaitSeesTheUpdate, Rolled, TaskSpecChanged
    <2>2. ~ Pending(current)
      <3>1. started[current] # before
        <4>1. started[current] \in Nat /\ before \in Nat
          BY <1>2, Counts DEF Inv
        <4>. QED
          BY ONLY <4>1, <2>1
      <3>. QED
        BY <3>1 DEF Inv, WaitSeesTheUpdate
    <2>3. task[current] = "up"
      BY <2>1 DEF Phase
    <2>. QED
      BY <2>2, <2>3 DEF Restarting
  <1>6. OnlyCurrentRestarts'
    BY <1>2, <1>5 DEF Inv, OnlyCurrentRestarts, Restarting, Pending
  <1>. QED
    BY <1>1, <1>3, <1>4, <1>6 DEF Inv

\* An upgrade that fails, and the end of one, leave nothing to say but the counts.
LEMMA EndsKeepInv ==
  ASSUME Inv, WaitFails \/ DeployFails \/ Finished
  PROVE  Inv'
  <1>. USE DEF WaitFails, DeployFails, Finished, swarm
  <1>1. TypeOK' /\ base' \in [Services -> Templates]
    <2>1. 0 \in 0..MaxOps
      BY Counts DEF Inv
    <2>2. held' \subseteq Services /\ protected' \subseteq Services /\ current' = 0
      BY DEF Inv, TypeOK
    <2>3. pc' \in {"idle", "failed"} /\ before' \in {before, 0} /\ base' \in {base, spec}
      OBVIOUS
    <2>4. UNCHANGED <<spec, prev, working, task, update, started, want, ops>>
      OBVIOUS
    <2>. QED
      BY <2>1, <2>2, <2>3, <2>4 DEF Inv, TypeOK
  <1>2. UpdatesCounted'
    BY DEF Inv, UpdatesCounted, Pending
  <1>3. ~ Rolling' /\ pc' \in {"idle", "failed"}
    BY DEF Rolling
  <1>. QED
    BY <1>1, <1>2, <1>3 DEF Inv, RestUntouched, DeployedIsWanted, CurrentInOrder,
       WaitSeesTheUpdate, OnlyCurrentRestarts

-----------------------------------------------------------------------------
(***************************************************************************)
(* Swarm's steps                                                           *)
(***************************************************************************)

LEMMA UpdateBeginsKeepsInv ==
  ASSUME Inv, NEW s \in Services, UpdateBegins(s)
  PROVE  Inv'
  <1>. USE DEF UpdateBegins
  <1>1. started[s] < ops
    BY DEF Inv, UpdatesCounted
  <1>2. TypeOK' /\ base' \in [Services -> Templates]
    <2>1. started[s] + 1 \in 0..MaxOps
      <3>1. started[s] \in Nat /\ ops \in Nat /\ MaxOps \in Nat /\ ops <= MaxOps
        BY Counts DEF Inv
      <3>. QED
        BY ONLY <1>1, <3>1
    <2>2. started' \in [Services -> 0..MaxOps]
      BY <2>1, Zenon DEF Inv, TypeOK
    <2>. QED
      BY <2>2 DEF Inv, TypeOK
  <1>3. UpdatesCounted'
    <2>1. started' = [started EXCEPT ![s] = @ + 1] /\ working' = [working EXCEPT ![s] = spec[s]]
      OBVIOUS
    <2>2. spec' = spec /\ ops' = ops
      OBVIOUS
    <2>3. ops \in Nat /\ \A t \in Services : started[t] \in Nat
      BY Counts DEF Inv
    <2>4. DOMAIN started = Services /\ DOMAIN working = Services
      BY DEF Inv, TypeOK
    <2>5. UpdatesCounted
      BY DEF Inv
    <2>. QED
      BY ONLY <1>1, <2>1, <2>2, <2>3, <2>4, <2>5, s \in Services DEF UpdatesCounted, Pending
  <1>4. Rolling' = Rolling /\ Deployed' = Deployed
    BY DEF Rolling, Deployed
  <1>5. Rolling => s \in Deployed
    BY DEF Inv, RestUntouched, Pending
  <1>6. RestUntouched' /\ DeployedIsWanted'
    BY <1>4, <1>5 DEF Inv, TypeOK, RestUntouched, DeployedIsWanted
  <1>7. CurrentInOrder'
    <2>1. pc \in {"first", "deploy"} => s # current
      BY <1>5 DEF Rolling, Deployed
    <2>. QED
      BY <2>1 DEF Inv, TypeOK, CurrentInOrder
  <1>8. WaitSeesTheUpdate'
    BY DEF Inv, TypeOK, CurrentInOrder, WaitSeesTheUpdate, Pending
  <1>9. OnlyCurrentRestarts'
    BY <1>4 DEF Inv, TypeOK, OnlyCurrentRestarts, Restarting, Pending
  <1>. QED
    BY <1>2, <1>3, <1>6, <1>7, <1>8, <1>9 DEF Inv

\* A service whose tasks come up or fail, or whose update is over, was restarting before.
LEMMA TasksKeepInv ==
  ASSUME Inv, NEW s \in Services, ComesUp(s) \/ UpdateCompletes(s) \/ UpdatePauses(s)
  PROVE  Inv'
  <1>. USE DEF ComesUp, UpdateCompletes, UpdatePauses
  <1>1. TypeOK' /\ base' \in [Services -> Templates]
    BY DEF Inv, TypeOK
  <1>2. Rolling' = Rolling /\ Deployed' = Deployed
    BY DEF Rolling, Deployed
  <1>3. UpdatesCounted' /\ RestUntouched' /\ DeployedIsWanted' /\ CurrentInOrder' /\ WaitSeesTheUpdate'
    BY <1>2 DEF Inv, UpdatesCounted, RestUntouched, DeployedIsWanted, CurrentInOrder,
                WaitSeesTheUpdate, Pending
  <1>4. \A t \in Services : Restarting(t)' => Restarting(t)
    BY DEF Inv, TypeOK, Restarting, Pending
  <1>5. OnlyCurrentRestarts'
    BY <1>2, <1>4 DEF Inv, TypeOK, OnlyCurrentRestarts
  <1>. QED
    BY <1>1, <1>3, <1>5 DEF Inv

-----------------------------------------------------------------------------
\* Inv is inductive, and so holds of every state of Rollout.
THEOREM Invariance == Spec => []Inv
  <1>1. Inv /\ [Next]_vars => Inv'
    <2>. SUFFICES ASSUME Inv, [Next]_vars  PROVE  Inv'
      OBVIOUS
    <2>1. CASE BeginUpgrade
      BY <2>1, BeginKeepsInv
    <2>2. CASE FirstDeploy
      BY <2>2, FirstDeployKeepsInv
    <2>3. CASE NextService
      BY <2>3, NextServiceKeepsInv
    <2>4. CASE DeployService
      BY <2>4, DeployServiceKeepsInv
    <2>5. CASE WaitEnds
      BY <2>5, WaitEndsKeepsInv
    <2>6. CASE WaitFails \/ DeployFails \/ Finished
      BY <2>6, EndsKeepInv
    <2>7. ASSUME NEW s \in Services, UpdateBegins(s)  PROVE  Inv'
      BY <2>7, UpdateBeginsKeepsInv
    <2>8. ASSUME NEW s \in Services, ComesUp(s) \/ UpdateCompletes(s) \/ UpdatePauses(s)  PROVE  Inv'
      BY <2>8, TasksKeepInv
    <2>9. CASE UNCHANGED vars
      BY <2>9 DEF vars, swarm, Inv, TypeOK, UpdatesCounted, RestUntouched, DeployedIsWanted,
         CurrentInOrder, WaitSeesTheUpdate, OnlyCurrentRestarts, Rolling, Deployed, Restarting, Pending
    <2>. QED
      BY <2>1, <2>2, <2>3, <2>4, <2>5, <2>6, <2>7, <2>8, <2>9
      DEF Next, EngineStep, EngineForward, SwarmForward
  <1>. QED
    BY InitInv, <1>1, PTL DEF Spec

\* Every variable of the rollout keeps its type; in particular no service's updates
\* outnumber the upgrades begun, so the counts that waitRolled compares stay in range.
THEOREM TypeCorrect == Spec => []TypeOK
  <1>1. Inv => TypeOK
    BY DEF Inv
  <1>. QED
    BY <1>1, Invariance, PTL

\* rollOneAtATime takes down one protected service at a time, however many there are:
\* those that went and are restarting are at most the one being waited for.
THEOREM RestartsOneAtATime == Spec => []OneAtATime
  <1>1. Inv => OneAtATime
    <2>. SUFFICES ASSUME Inv, pc \notin {"idle", "failed"}
                  PROVE  Cardinality({s \in protected \ held : base[s] # want[s] /\ Restarting(s)}) <= 1
      BY DEF OneAtATime
    <2>. DEFINE R == {s \in protected \ held : base[s] # want[s] /\ Restarting(s)}
    <2>1. R \subseteq {current}
      BY DEF Inv, TypeOK, Rolling, OnlyCurrentRestarts
    <2>2. IsFiniteSet({current}) /\ Cardinality({current}) = 1
      BY FS_Singleton
    <2>. HIDE DEF R
    <2>3. Cardinality(R) <= Cardinality({current})
      BY <2>1, <2>2, FS_Subset
    <2>. QED
      BY <2>2, <2>3 DEF R
  <1>. QED
    BY <1>1, Invariance, PTL

\* Holding services back loses none of them: when the last has been waited for, every
\* marked service has the template of the manifest that the revision records.
THEOREM NoServiceLost == Spec => []EveryServiceDeployed
  <1>1. Inv => EveryServiceDeployed
    BY DEF Inv, EveryServiceDeployed, DeployedIsWanted, Rolling, Deployed
  <1>. QED
    BY <1>1, Invariance, PTL

-----------------------------------------------------------------------------
(***************************************************************************)
(* How far one service has come: the newest task of a slot                 *)
(***************************************************************************)
TaskShape ==
  [slot : Tasks!Slots, node : Nodes, gen : Nat, state : {"starting", "running", "complete", "failed"},
   desired : {"running", "ready", "complete", "shutdown"}]

ReadingShape ==
  /\ mode \in Tasks!Modes /\ gen \in 1..MaxGens /\ startedAt \in 0..MaxTasks
  /\ inFlight \in {"unset", "updating", "paused", "completed", "rollback"}
  /\ nodes \in [Nodes -> {"active", "away"}]
  /\ tasks \in Seq(TaskShape) /\ Len(tasks) <= MaxTasks

\* No task is of a spec that is still to come, the task of a node is on it, and one that ended
\* is not wanted.
TasksKnown ==
  \A i \in DOMAIN tasks :
    /\ tasks[i].gen <= gen
    /\ Tasks!perNode => tasks[i].node = tasks[i].slot
    /\ Tasks!Ended(i) => tasks[i].desired = "shutdown"

\* What was made since the update under way began is of the spec that it rolls out.
UpdateKnown ==
  Tasks!isRollingOut => \A i \in DOMAIN tasks : i > startedAt => tasks[i].gen = gen

ReadInv == ReadingShape /\ TasksKnown /\ UpdateKnown

\* Of numbers that are no larger than some number, one is the largest.
LEMMA LargestIs ==
  ASSUME NEW n \in Nat, NEW S \in SUBSET (1..n), S # {}
  PROVE  \E i \in S : \A j \in S : j <= i
  <1>. DEFINE T == {n - i : i \in S}
  <1>1. T \subseteq Nat /\ T # {}
    <2>1. \A i \in S : i \in 1..n /\ n - i \in Nat
      OBVIOUS
    <2>. QED
      BY <2>1
  <1>2. PICK s \in T : \A t \in T : ~ (<<t, s>> \in OpToRel(<, Nat))
    <2>1. IsWellFoundedOn(OpToRel(<, Nat), Nat)
      BY NatLessThanWellFounded
    <2>. HIDE DEF OpToRel, T
    <2>. QED
      BY <1>1, <2>1, WFMin
  <1>3. \A t \in T : s <= t
    <2>1. ASSUME NEW t \in T, t < s
          PROVE  <<t, s>> \in OpToRel(<, Nat)
      BY <1>1, <2>1 DEF OpToRel
    <2>2. \A t \in T : ~ (t < s)
      BY <1>2, <2>1, Zenon
    <2>. HIDE DEF T
    <2>. QED
      BY <1>1, <2>2
  <1>4. PICK i \in S : s = n - i
    BY <1>2
  <1>5. \A j \in S : j <= i
    <2>1. ASSUME NEW j \in S
          PROVE  j <= i
      <3>1. n - j \in T
        OBVIOUS
      <3>2. n - i <= n - j
        BY <1>3, <1>4, <3>1
      <3>. QED
        BY <3>2
    <2>. QED
      BY <2>1
  <1>. QED
    BY <1>5

LEMMA TasksAre ==
  ASSUME ReadInv
  PROVE  /\ Len(tasks) \in Nat /\ DOMAIN tasks = 1..Len(tasks)
         /\ \A i \in DOMAIN tasks : tasks[i] \in TaskShape
  BY DEF ReadInv, ReadingShape

\* newestTaskPerSlot
LEMMA NewestIs ==
  ASSUME ReadInv, NEW s, Tasks!Of(s) # {}
  PROVE  Tasks!Newest(s) \in Tasks!Of(s) /\ \A j \in Tasks!Of(s) : j <= Tasks!Newest(s)
  <1>1. Tasks!Of(s) \in SUBSET (1..Len(tasks)) /\ Len(tasks) \in Nat
    BY TasksAre DEF Tasks!Of
  <1>2. \E i \in Tasks!Of(s) : \A j \in Tasks!Of(s) : j <= i
    BY <1>1, LargestIs
  <1>. QED
    BY <1>2 DEF Tasks!Newest

LEMMA JudgedIs ==
  ASSUME ReadInv, NEW s, Tasks!Of(s) # {}
  PROVE  Tasks!Judged(s) \in Tasks!Of(s) /\ Tasks!Judged(s) \in DOMAIN tasks
  <1>. DEFINE E == Tasks!Of(s) \ {Tasks!Newest(s)}
  <1>1. Tasks!Of(s) \subseteq DOMAIN tasks
    BY DEF Tasks!Of
  <1>2. CASE Tasks!Resting(s)
    <2>1. E # {} /\ E \in SUBSET (1..Len(tasks)) /\ Len(tasks) \in Nat
      BY <1>1, <1>2, TasksAre DEF Tasks!Resting
    <2>2. \E i \in E : \A j \in E : j <= i
      <3>. HIDE DEF E
      <3>. QED
        BY <2>1, LargestIs
    <2>3. Tasks!Judged(s) = CHOOSE i \in E : \A j \in E : j <= i
      BY <1>2 DEF Tasks!Judged
    <2>4. Tasks!Judged(s) \in E
      <3>. HIDE DEF E
      <3>. QED
        BY <2>2, <2>3
    <2>. QED
      BY <1>1, <2>4
  <1>3. CASE ~Tasks!Resting(s)
    BY <1>1, <1>3, NewestIs DEF Tasks!Judged
  <1>. QED
    BY <1>2, <1>3

-----------------------------------------------------------------------------
(***************************************************************************)
(* How far one service has come: every step                                *)
(***************************************************************************)
LEMMA ReadInit == Tasks!Init => ReadInv
  <1>. SUFFICES ASSUME Tasks!Init
               PROVE  ReadInv
    OBVIOUS
  <1>1. MaxGens \in Nat \ {0} /\ MaxTasks \in Nat
    BY ReadingAssumption
  <1>2. tasks = <<>> /\ Len(tasks) = 0 /\ tasks \in Seq(TaskShape) /\ DOMAIN tasks = {}
    BY DEF Tasks!Init
  <1>3. nodes \in [Nodes -> {"active", "away"}]
    BY DEF Tasks!Init
  <1>4. ReadingShape
    BY <1>1, <1>2, <1>3 DEF Tasks!Init, ReadingShape
  <1>. QED
    BY <1>2, <1>4 DEF ReadInv, TasksKnown, UpdateKnown

\* A task that is made is of the spec the service has, and its node's own when each has one.
LEMMA MakeHolds ==
  ASSUME ReadInv, NEW s \in Tasks!Slots, NEW desired \in {"running", "ready"}, Tasks!Make(s, desired)
  PROVE  ReadInv'
  <1>1. PICK n \in Tasks!NodesFor(s) :
          tasks' = Append(tasks, [slot |-> s, node |-> n, gen |-> gen, state |-> "starting",
                                  desired |-> IF Tasks!native THEN "complete" ELSE desired])
    BY DEF Tasks!Make
  <1>. DEFINE t == [slot |-> s, node |-> n, gen |-> gen, state |-> "starting",
                    desired |-> IF Tasks!native THEN "complete" ELSE desired]
  <1>2. UNCHANGED <<mode, gen, inFlight, startedAt, nodes>> /\ Len(tasks) < MaxTasks
    BY DEF Tasks!Make
  <1>3. n \in Nodes /\ (Tasks!perNode => n = s)
    BY DEF Tasks!NodesFor
  <1>4. gen \in Nat /\ MaxTasks \in Nat /\ Len(tasks) \in Nat /\ tasks \in Seq(TaskShape)
    BY ReadingAssumption DEF ReadInv, ReadingShape
  <1>5. t \in TaskShape /\ t.gen = gen /\ t.node = n /\ t.slot = s /\ t.state = "starting"
    BY <1>3, <1>4 DEF TaskShape
  <1>6. TaskShape' = TaskShape /\ Tasks!perNode' = Tasks!perNode /\ Tasks!isRollingOut' = Tasks!isRollingOut
    BY <1>2 DEF TaskShape, Tasks!Slots, Tasks!perNode, Tasks!isRollingOut
  <1>. HIDE DEF t
  <1>7. tasks' = Append(tasks, t)
    BY <1>1 DEF t
  <1>8. tasks' \in Seq(TaskShape) /\ Len(tasks') = Len(tasks) + 1 /\ DOMAIN tasks' = 1..(Len(tasks) + 1)
        /\ (\A i \in DOMAIN tasks : tasks'[i] = tasks[i]) /\ tasks'[Len(tasks) + 1] = t /\ DOMAIN tasks = 1..Len(tasks)
    BY <1>4, <1>5, <1>7
  <1>9. ReadingShape'
    BY <1>2, <1>4, <1>6, <1>8 DEF ReadInv, ReadingShape
  <1>10. \A i \in DOMAIN tasks' : (i \in DOMAIN tasks /\ tasks'[i] = tasks[i]) \/ tasks'[i] = t
    BY <1>4, <1>8
  <1>11. TasksKnown'
    BY <1>2, <1>3, <1>4, <1>5, <1>6, <1>10 DEF ReadInv, TasksKnown, Tasks!Ended
  <1>12. UpdateKnown'
    BY <1>2, <1>5, <1>6, <1>10 DEF ReadInv, UpdateKnown
  <1>. QED
    BY <1>9, <1>11, <1>12 DEF ReadInv

\* A task that goes on keeps its slot, its node and its spec.
LEMMA SetIs ==
  ASSUME ReadInv, NEW i \in DOMAIN tasks, NEW desired, NEW state, Tasks!Set(i, desired, state)
  PROVE  /\ DOMAIN tasks' = DOMAIN tasks /\ Len(tasks') = Len(tasks)
         /\ \A j \in DOMAIN tasks : j # i => tasks'[j] = tasks[j]
         /\ tasks'[i].slot = tasks[i].slot /\ tasks'[i].node = tasks[i].node /\ tasks'[i].gen = tasks[i].gen
         /\ tasks'[i].state = state /\ tasks'[i].desired = desired
         /\ desired \in {"running", "ready", "complete", "shutdown"}
              /\ state \in {"starting", "running", "complete", "failed"} => tasks' \in Seq(TaskShape)
  <1>. DEFINE a == [tasks[i] EXCEPT !.desired = desired]
              t == [a EXCEPT !.state = state]
  <1>1. tasks' = [tasks EXCEPT ![i] = t]
    BY DEF Tasks!Set
  <1>2. tasks \in Seq(TaskShape) /\ tasks[i] \in TaskShape
    BY TasksAre DEF ReadInv, ReadingShape
  <1>3. a.slot = tasks[i].slot /\ a.node = tasks[i].node /\ a.gen = tasks[i].gen /\ a.desired = desired
        /\ DOMAIN a = DOMAIN tasks[i]
    BY <1>2 DEF TaskShape
  <1>4. desired \in {"running", "ready", "complete", "shutdown"} => a \in TaskShape
    BY <1>2 DEF TaskShape
  <1>5. DOMAIN tasks[i] = {"slot", "node", "gen", "state", "desired"}
    BY <1>2 DEF TaskShape
  <1>. HIDE DEF a
  <1>6. t.slot = tasks[i].slot /\ t.node = tasks[i].node /\ t.gen = tasks[i].gen /\ t.desired = desired /\ t.state = state
    BY <1>3, <1>5
  <1>7. desired \in {"running", "ready", "complete", "shutdown"} /\ state \in {"starting", "running", "complete", "failed"}
          => t \in TaskShape
    BY <1>4 DEF TaskShape
  <1>. HIDE DEF t
  <1>8. DOMAIN tasks' = DOMAIN tasks /\ Len(tasks') = Len(tasks) /\ tasks'[i] = t
        /\ \A j \in DOMAIN tasks : j # i => tasks'[j] = tasks[j]
    BY <1>1, <1>2
  <1>9. t \in TaskShape => tasks' \in Seq(TaskShape)
    BY <1>1, <1>2
  <1>. QED
    BY <1>6, <1>7, <1>8, <1>9

LEMMA SetHolds ==
  ASSUME ReadInv, NEW i \in DOMAIN tasks, NEW desired \in {"running", "ready", "complete", "shutdown"},
         NEW state \in {"starting", "running", "complete", "failed"}, Tasks!Set(i, desired, state),
         state \in {"complete", "failed"} => desired = "shutdown"
  PROVE  ReadInv'
  <1>1. UNCHANGED <<mode, gen, inFlight, startedAt, nodes>>
    BY DEF Tasks!Set
  <1>2. TaskShape' = TaskShape /\ Tasks!perNode' = Tasks!perNode /\ Tasks!isRollingOut' = Tasks!isRollingOut
    BY <1>1 DEF TaskShape, Tasks!Slots, Tasks!perNode, Tasks!isRollingOut
  <1>3. ReadingShape'
    BY <1>1, <1>2, SetIs DEF ReadInv, ReadingShape
  <1>4. TasksKnown'
    BY <1>1, <1>2, SetIs DEF ReadInv, TasksKnown, Tasks!Ended
  <1>5. UpdateKnown'
    BY <1>1, <1>2, SetIs DEF ReadInv, UpdateKnown
  <1>. QED
    BY <1>3, <1>4, <1>5 DEF ReadInv

LEMMA ReadStep == ReadInv /\ [Tasks!Next]_reading => ReadInv'
  <1>. SUFFICES ASSUME ReadInv, [Tasks!Next]_reading
               PROVE  ReadInv'
    OBVIOUS
  <1>. USE DEF Tasks!Ended
  <1>1. CASE UNCHANGED reading
    BY <1>1 DEF reading, ReadInv, ReadingShape, TasksKnown, UpdateKnown, TaskShape, Tasks!Slots, Tasks!perNode,
                Tasks!isRollingOut
  <1>2. ASSUME NEW s \in Tasks!Slots, Tasks!Create(s) \/ Tasks!StartFirst(s)
        PROVE  ReadInv'
    BY <1>2, MakeHolds DEF Tasks!Create, Tasks!StartFirst
  <1>3. ASSUME NEW i \in DOMAIN tasks,
               Tasks!DelayOver(i) \/ Tasks!Runs(i) \/ Tasks!Ends(i) \/ Tasks!Rejected(i) \/ Tasks!Stop(i)
        PROVE  ReadInv'
    <2>1. tasks[i] \in TaskShape /\ (Tasks!Ended(i) => tasks[i].desired = "shutdown")
      BY TasksAre DEF ReadInv, TasksKnown
    <2>2. PICK desired \in {"running", "ready", "complete", "shutdown"},
               state \in {"starting", "running", "complete", "failed"} :
            Tasks!Set(i, desired, state) /\ (state \in {"complete", "failed"} => desired = "shutdown")
      <3>1. CASE Tasks!DelayOver(i)
        BY <2>1, <3>1 DEF Tasks!DelayOver, TaskShape
      <3>2. CASE Tasks!Runs(i)
        BY <2>1, <3>2 DEF Tasks!Runs, TaskShape
      <3>3. CASE Tasks!Ends(i)
        BY <2>1, <3>3 DEF Tasks!Ends, TaskShape
      <3>4. CASE Tasks!Rejected(i)
        BY <2>1, <3>4 DEF Tasks!Rejected, TaskShape
      <3>5. CASE Tasks!Stop(i)
        BY <2>1, <3>5 DEF Tasks!Stop, TaskShape
      <3>. QED
        BY <1>3, <3>1, <3>2, <3>3, <3>4, <3>5
    <2>. QED
      BY <2>2, SetHolds
  <1>4. CASE Tasks!UpdateSpec
    <2>1. UNCHANGED <<mode, startedAt, tasks, nodes>> /\ gen < MaxGens /\ gen' = gen + 1 /\ inFlight' = "unset"
      BY <1>4 DEF Tasks!UpdateSpec
    <2>2. TaskShape' = TaskShape /\ Tasks!perNode' = Tasks!perNode /\ ~Tasks!isRollingOut'
      BY <2>1 DEF TaskShape, Tasks!Slots, Tasks!perNode, Tasks!isRollingOut
    <2>3. gen \in Nat /\ gen' \in 1..MaxGens
      BY <2>1, ReadingAssumption DEF ReadInv, ReadingShape
    <2>4. ReadingShape'
      BY <2>1, <2>2, <2>3 DEF ReadInv, ReadingShape
    <2>5. TasksKnown'
      <3>1. \A i \in DOMAIN tasks : tasks[i].gen \in Nat
        BY TasksAre DEF TaskShape
      <3>. QED
        BY <2>1, <2>2, <2>3, <3>1 DEF ReadInv, TasksKnown
    <2>. QED
      BY <2>2, <2>4, <2>5 DEF ReadInv, UpdateKnown
  <1>5. CASE Tasks!Updater
    <2>1. UNCHANGED <<mode, gen, tasks, nodes>>
      BY <1>5 DEF Tasks!Updater
    <2>2. TaskShape' = TaskShape /\ Tasks!perNode' = Tasks!perNode
      BY <2>1 DEF TaskShape, Tasks!Slots, Tasks!perNode
    <2>3. inFlight' \in {"unset", "updating", "paused", "completed", "rollback"} /\ startedAt' \in 0..MaxTasks
      <3>1. Len(tasks) \in 0..MaxTasks
        BY TasksAre, ReadingAssumption DEF ReadInv, ReadingShape
      <3>. QED
        BY <1>5, <3>1 DEF Tasks!Updater, ReadInv, ReadingShape
    <2>4. UpdateKnown'
      <3>1. CASE startedAt' = Len(tasks)
        BY <2>1, <3>1, TasksAre DEF UpdateKnown
      <3>2. CASE startedAt' = startedAt /\ (Tasks!isRollingOut' => Tasks!isRollingOut)
        BY <2>1, <3>2 DEF ReadInv, UpdateKnown
      <3>. QED
        BY <1>5, <3>1, <3>2 DEF Tasks!Updater, Tasks!isRollingOut
    <2>5. ReadingShape'
      BY <2>1, <2>2, <2>3 DEF ReadInv, ReadingShape
    <2>6. TasksKnown'
      BY <2>1, <2>2 DEF ReadInv, TasksKnown
    <2>. QED
      BY <2>4, <2>5, <2>6 DEF ReadInv
  <1>6. CASE Tasks!NodeChanges
    <2>1. UNCHANGED <<mode, gen, inFlight, startedAt, tasks>>
      BY <1>6 DEF Tasks!NodeChanges
    <2>2. nodes' \in [Nodes -> {"active", "away"}]
      BY <1>6 DEF Tasks!NodeChanges, ReadInv, ReadingShape
    <2>3. TaskShape' = TaskShape /\ Tasks!perNode' = Tasks!perNode /\ Tasks!isRollingOut' = Tasks!isRollingOut
      BY <2>1 DEF TaskShape, Tasks!Slots, Tasks!perNode, Tasks!isRollingOut
    <2>. QED
      BY <2>1, <2>2, <2>3 DEF ReadInv, ReadingShape, TasksKnown, UpdateKnown
  <1>. QED
    BY <1>1, <1>2, <1>3, <1>4, <1>5, <1>6 DEF Tasks!Next

-----------------------------------------------------------------------------
(***************************************************************************)
(* How far one service has come: what is counted                           *)
(***************************************************************************)
LEMMA ReadIsOfATask ==
  ASSUME NEW s, NEW what, what # "skipped", Tasks!Reading(s) = what
  PROVE  Tasks!Of(s) # {} /\ ~Tasks!Skipped(s)
  BY DEF Tasks!Reading

\* A global service's task is read where its node is active, and is the one on that node.
LEMMA OnActiveNodes ==
  ASSUME ReadInv, Tasks!perNode, NEW s \in Tasks!Slots, Tasks!Of(s) # {}, ~Tasks!Skipped(s)
  PROVE  s \in Nodes /\ nodes[s] = "active"
  <1>1. Tasks!Judged(s) \in Tasks!Of(s) /\ Tasks!Judged(s) \in DOMAIN tasks
    BY JudgedIs
  <1>2. Tasks!active(Tasks!Judged(s))
    BY DEF Tasks!Skipped
  <1>3. tasks[Tasks!Judged(s)].node = s
    BY <1>1 DEF ReadInv, TasksKnown, Tasks!Of
  <1>. QED
    BY <1>2, <1>3 DEF Tasks!active, Tasks!Slots

LEMMA NoMoreThanDesired ==
  ASSUME ReadInv
  PROVE  Tasks!Cardinality(Tasks!Read("running") \cup Tasks!Read("starting") \cup Tasks!Read("completed")) <= Tasks!Desired
  <1>. DEFINE R == Tasks!Read("running") \cup Tasks!Read("starting") \cup Tasks!Read("completed")
              N == {n \in Nodes : nodes[n] = "active"}
  <1>1. \A s \in R : s \in Tasks!Slots /\ Tasks!Of(s) # {} /\ ~Tasks!Skipped(s)
    BY ReadIsOfATask DEF Tasks!Read
  <1>2. Tasks!Cardinality(R) = Cardinality(R) /\ Tasks!Cardinality(N) = Cardinality(N)
        /\ Tasks!Cardinality(Tasks!Slots) = Cardinality(Tasks!Slots)
    BY DEF Cardinality, Tasks!Cardinality
  <1>3. CASE Tasks!perNode
    <2>1. R \subseteq N
      BY <1>1, <1>3, OnActiveNodes
    <2>2. IsFiniteSet(N)
      BY ReadingAssumption, FS_Subset
    <2>3. Tasks!Desired = Cardinality(N)
      BY <1>2, <1>3 DEF Tasks!Desired
    <2>. HIDE DEF R, N
    <2>. QED
      BY <1>2, <2>1, <2>2, <2>3, FS_Subset DEF R
  <1>4. CASE ~Tasks!perNode
    <2>1. R \subseteq Tasks!Slots
      BY <1>1
    <2>2. IsFiniteSet(Tasks!Slots)
      <3>1. Tasks!Slots = 1..Replicas /\ Replicas \in Nat
        BY <1>4, ReadingAssumption DEF Tasks!Slots
      <3>. QED
        BY <3>1, FS_Interval
    <2>3. Tasks!Desired = Cardinality(Tasks!Slots)
      BY <1>2, <1>4 DEF Tasks!Desired
    <2>. HIDE DEF R
    <2>. QED
      BY <1>2, <2>1, <2>2, <2>3, FS_Subset DEF R
  <1>. QED
    BY <1>3, <1>4

LEMMA ReadCounts == ReadInv => Tasks!TypeOK /\ Tasks!CountsOnlyTheCurrent
  <1>. SUFFICES ASSUME ReadInv
               PROVE  Tasks!TypeOK /\ Tasks!CountsOnlyTheCurrent
    OBVIOUS
  <1>1. Tasks!TypeOK
    BY TasksAre DEF ReadInv, ReadingShape, TasksKnown, TaskShape, Tasks!TypeOK
  <1>2. ASSUME Tasks!isRollingOut, NEW s \in Tasks!Slots, Tasks!UpToDate(s)
        PROVE  tasks[Tasks!Judged(s)].gen = gen
    <2>1. Tasks!Judged(s) \in DOMAIN tasks
      BY <1>2, ReadIsOfATask, JudgedIs DEF Tasks!UpToDate
    <2>2. Tasks!Judged(s) > startedAt
      BY <1>2 DEF Tasks!UpToDate, Tasks!AfterSince, Tasks!rolloutStart
    <2>. QED
      BY <1>2, <2>1, <2>2 DEF ReadInv, UpdateKnown
  <1>3. ASSUME Tasks!native, NEW s \in Tasks!Read("completed")
        PROVE  tasks[Tasks!Judged(s)].gen = gen
    BY <1>3, ReadIsOfATask DEF Tasks!Read, Tasks!Skipped
  <1>. QED
    BY <1>1, <1>2, <1>3, NoMoreThanDesired DEF Tasks!CountsOnlyTheCurrent

\* Whatever the swarm's tasks, its updater and its nodes do, no task of a superseded spec is
\* counted as up to date while an update is under way, no earlier run of a job as completed,
\* and no more as running than the service wants (docker/convergence.go).
THEOREM OnlyTheCurrentCounts == MCSpec => []CountsOnlyTheCurrent
  <1>1. MCInit => ReadInv
    BY ReadInit DEF MCInit
  <1>2. ReadInv /\ [MCNext]_<<part, vars, reading>> => ReadInv'
    BY ReadStep DEF MCNext
  <1>3. ReadInv => CountsOnlyTheCurrent
    BY ReadCounts DEF CountsOnlyTheCurrent
  <1>. QED
    BY <1>1, <1>2, <1>3, PTL DEF MCSpec

-----------------------------------------------------------------------------
(***************************************************************************)
(* How far one service has come: what has finished                         *)
(***************************************************************************)
\* The task that ended last in its slot, of the spec the service has.
FinishedAs(s, state) ==
  /\ Tasks!Of(s) # {} /\ tasks[Tasks!Newest(s)].state = state /\ tasks[Tasks!Newest(s)].gen = gen

\* Of a service that rests not and is no node's own, the newest task is what is read.
LEMMA ReadsFinished ==
  ASSUME Tasks!isJobService, ~Tasks!perNode, NEW s \in Tasks!Slots
  PROVE  /\ s \in Tasks!ReadNow("completed") => FinishedAs(s, "complete")
         /\ FinishedAs(s, "complete") => s \in Tasks!Read("completed")
         /\ Tasks!neverRestarts => (s \in Tasks!ReadNow("dead") => FinishedAs(s, "failed"))
         /\ Tasks!neverRestarts => (FinishedAs(s, "failed") => s \in Tasks!Read("dead"))
  <1>1. ~Tasks!Resting(s)
    BY DEF Tasks!Resting, Tasks!rests, Tasks!isJobService
  <1>2. Tasks!Judged(s) = Tasks!Newest(s)
    BY <1>1 DEF Tasks!Judged
  <1>. DEFINE t == tasks[Tasks!Newest(s)]
  <1>3. ASSUME s \in Tasks!ReadNow("completed")
        PROVE  FinishedAs(s, "complete")
    BY <1>1, <1>2, <1>3 DEF Tasks!ReadNow, Tasks!Read, Tasks!Reading, FinishedAs
  <1>4. ASSUME FinishedAs(s, "complete")
        PROVE  s \in Tasks!Read("completed")
    <2>1. ~Tasks!Skipped(s)
      BY <1>2, <1>4 DEF FinishedAs, Tasks!Skipped
    <2>. QED
      BY <1>2, <1>4, <2>1 DEF FinishedAs, Tasks!Read, Tasks!Reading
  <1>5. ASSUME Tasks!neverRestarts, s \in Tasks!ReadNow("dead")
        PROVE  FinishedAs(s, "failed")
    BY <1>2, <1>5 DEF Tasks!ReadNow, Tasks!Read, Tasks!Reading, FinishedAs, Tasks!isDead
  <1>6. ASSUME Tasks!neverRestarts, FinishedAs(s, "failed")
        PROVE  s \in Tasks!Read("dead")
    <2>1. ~Tasks!Skipped(s)
      BY <1>2, <1>6 DEF FinishedAs, Tasks!Skipped, Tasks!isDead
    <2>. QED
      BY <1>1, <1>2, <1>6, <2>1 DEF FinishedAs, Tasks!Read, Tasks!Reading, Tasks!isDead
  <1>. QED
    BY <1>3, <1>4, <1>5, <1>6

\* While the service is not updated its slot gets no other task, and the one that ended stays
\* as it ended.
LEMMA FinishedStays ==
  ASSUME ReadInv, [Tasks!Next]_reading, Tasks!isJobService, ~Tasks!perNode, gen' = gen,
         NEW s \in Tasks!Slots, NEW state \in {"complete", "failed"}, FinishedAs(s, state),
         state = "failed" => Tasks!neverRestarts
  PROVE  FinishedAs(s, state)'
  <1>. DEFINE n == Tasks!Newest(s)
  <1>1. n \in Tasks!Of(s) /\ n \in DOMAIN tasks /\ tasks[n].state = state /\ tasks[n].gen = gen /\ tasks[n].slot = s
    BY NewestIs DEF FinishedAs, Tasks!Of
  <1>2. tasks[n].desired = "shutdown" /\ n \notin Tasks!Wanted(s)
    BY <1>1 DEF ReadInv, TasksKnown, Tasks!Ended, Tasks!Wanted
  <1>3. ASSUME Tasks!Of(s)' = Tasks!Of(s), tasks'[n] = tasks[n]
        PROVE  FinishedAs(s, state)'
    <2>1. Tasks!Newest(s)' = n
      BY <1>3 DEF Tasks!Newest
    <2>. HIDE DEF n
    <2>. QED
      BY <1>1, <1>3, <2>1 DEF FinishedAs
  <1>4. ASSUME NEW r \in Tasks!Slots, Tasks!Create(r) \/ Tasks!StartFirst(r)
        PROVE  FinishedAs(s, state)'
    <2>1. r # s
      <3>1. ~Tasks!Due(s)
        BY <1>1 DEF Tasks!Due, Tasks!Ended, FinishedAs, Tasks!isJobService, Tasks!perNode, Tasks!neverRestarts
      <3>2. ~Tasks!Dirty(s)
        BY <1>1, <1>2 DEF Tasks!Dirty
      <3>. QED
        BY <1>4, <3>1, <3>2 DEF Tasks!Create, Tasks!StartFirst
    <2>2. \E t : tasks' = Append(tasks, t) /\ t.slot = r
      <3>1. \E desired : Tasks!Make(r, desired)
        BY <1>4 DEF Tasks!Create, Tasks!StartFirst
      <3>2. PICK desired : Tasks!Make(r, desired)
        BY <3>1
      <3>3. PICK m \in Tasks!NodesFor(r) :
              tasks' = Append(tasks, [slot |-> r, node |-> m, gen |-> gen, state |-> "starting",
                                      desired |-> IF Tasks!native THEN "complete" ELSE desired])
        BY <3>2 DEF Tasks!Make
      <3>. DEFINE t == [slot |-> r, node |-> m, gen |-> gen, state |-> "starting",
                        desired |-> IF Tasks!native THEN "complete" ELSE desired]
      <3>4. t.slot = r
        OBVIOUS
      <3>. QED
        BY <3>3, <3>4
    <2>3. PICK t : tasks' = Append(tasks, t) /\ t.slot = r
      BY <2>2
    <2>4. DOMAIN tasks' = 1..(Len(tasks) + 1) /\ (\A i \in DOMAIN tasks : tasks'[i] = tasks[i])
          /\ tasks'[Len(tasks) + 1] = t /\ DOMAIN tasks = 1..Len(tasks) /\ Len(tasks) \in Nat
      BY <2>3 DEF ReadInv, ReadingShape
    <2>5. Tasks!Of(s)' = Tasks!Of(s)
      BY <2>1, <2>3, <2>4 DEF Tasks!Of
    <2>. QED
      BY <1>1, <1>3, <2>4, <2>5
  <1>5. ASSUME NEW i \in DOMAIN tasks,
               Tasks!DelayOver(i) \/ Tasks!Runs(i) \/ Tasks!Ends(i) \/ Tasks!Rejected(i) \/ Tasks!Stop(i)
        PROVE  FinishedAs(s, state)'
    <2>1. i # n
      BY <1>1, <1>2, <1>5 DEF Tasks!DelayOver, Tasks!Runs, Tasks!Ends, Tasks!Rejected, Tasks!Stop
    <2>2. \E desired, to : Tasks!Set(i, desired, to)
      BY <1>5 DEF Tasks!DelayOver, Tasks!Runs, Tasks!Ends, Tasks!Rejected, Tasks!Stop
    <2>3. DOMAIN tasks' = DOMAIN tasks /\ (\A j \in DOMAIN tasks : j # i => tasks'[j] = tasks[j])
          /\ tasks'[i].slot = tasks[i].slot
      BY <2>2, SetIs
    <2>4. Tasks!Of(s)' = Tasks!Of(s)
      BY <2>3 DEF Tasks!Of
    <2>. QED
      BY <1>1, <1>3, <2>1, <2>3, <2>4
  <1>6. CASE Tasks!UpdateSpec
    <2>1. gen \in Nat /\ gen' = gen + 1
      BY <1>6 DEF Tasks!UpdateSpec, ReadInv, ReadingShape
    <2>. QED
      BY <2>1
  <1>7. CASE tasks' = tasks
    BY <1>3, <1>7 DEF Tasks!Of
  <1>8. Tasks!Updater \/ Tasks!NodeChanges \/ UNCHANGED reading => tasks' = tasks
    BY DEF Tasks!Updater, Tasks!NodeChanges, reading
  <1>. QED
    BY <1>4, <1>5, <1>6, <1>7, <1>8 DEF Tasks!Next

FinishedIsRead ==
  Tasks!isJobService /\ ~Tasks!perNode =>
    \A s \in Tasks!Slots :
      /\ FinishedAs(s, "complete") => s \in Tasks!Read("completed")
      /\ Tasks!neverRestarts /\ FinishedAs(s, "failed") => s \in Tasks!Read("dead")

LEMMA FinishedIsReadNow == FinishedIsRead
  BY ReadsFinished DEF FinishedIsRead

LEMMA FinishedIsReadThen == FinishedIsRead'
  BY FinishedIsReadNow, PTL

LEMMA FinishedRead ==
  ReadInv /\ [Tasks!Next]_reading => [Tasks!StaysFinished]_(Tasks!vars)
  <1>. SUFFICES ASSUME ReadInv, [Tasks!Next]_reading, Tasks!isJobService, ~Tasks!perNode, gen' = gen
               PROVE  /\ Tasks!ReadNow("completed") \subseteq Tasks!Read("completed")'
                      /\ Tasks!neverRestarts => Tasks!ReadNow("dead") \subseteq Tasks!Read("dead")'
    BY DEF Tasks!StaysFinished
  <1>1. mode' = mode
    BY DEF reading, Tasks!Next, Tasks!Create, Tasks!StartFirst, Tasks!Make, Tasks!DelayOver, Tasks!Runs, Tasks!Ends,
           Tasks!Rejected, Tasks!Stop, Tasks!Set, Tasks!UpdateSpec, Tasks!Updater, Tasks!NodeChanges
  <1>2. /\ Tasks!isJobService' /\ ~Tasks!perNode' /\ Tasks!Slots' = Tasks!Slots
        /\ Tasks!neverRestarts' = Tasks!neverRestarts
    BY <1>1 DEF Tasks!isJobService, Tasks!perNode, Tasks!Slots, Tasks!neverRestarts
  <1>3. \A s \in Tasks!Slots :
          /\ FinishedAs(s, "complete")' => s \in Tasks!Read("completed")'
          /\ Tasks!neverRestarts' => (FinishedAs(s, "failed")' => s \in Tasks!Read("dead")')
    BY <1>2, FinishedIsReadThen DEF FinishedIsRead
  <1>4. ASSUME NEW s \in Tasks!ReadNow("completed")
        PROVE  s \in Tasks!Read("completed")'
    <2>1. s \in Tasks!Slots /\ FinishedAs(s, "complete")
      BY ReadsFinished DEF Tasks!ReadNow, Tasks!Read
    <2>2. FinishedAs(s, "complete")'
      BY <2>1, FinishedStays
    <2>. QED
      BY <1>3, <2>1, <2>2
  <1>5. ASSUME Tasks!neverRestarts, NEW s \in Tasks!ReadNow("dead")
        PROVE  s \in Tasks!Read("dead")'
    <2>1. s \in Tasks!Slots /\ FinishedAs(s, "failed")
      BY <1>5, ReadsFinished DEF Tasks!ReadNow, Tasks!Read
    <2>2. FinishedAs(s, "failed")'
      BY <1>5, <2>1, FinishedStays
    <2>. QED
      BY <1>2, <1>3, <1>5, <2>1, <2>2
  <1>. QED
    BY <1>4, <1>5

\* A run that finished is read as finished until the service is updated, whichever nodes come
\* and go meanwhile, and so is a task that nothing restarts (docker/convergence.go).
THEOREM FinishedIsFinal == MCSpec => FinishedStaysFinished
  <1>1. MCInit => ReadInv
    BY ReadInit DEF MCInit
  <1>2. [MCNext]_<<part, vars, reading>> => [Tasks!Next]_reading
    BY DEF MCNext
  <1>3. ReadInv /\ [Tasks!Next]_reading => ReadInv'
    BY ReadStep
  <1>4. ReadInv /\ [Tasks!Next]_reading => [Tasks!StaysFinished]_(Tasks!vars)
    BY FinishedRead
  <1>. QED
    BY <1>1, <1>2, <1>3, <1>4, PTL DEF MCSpec, FinishedStaysFinished, Tasks!FinishedStaysFinished
=============================================================================
