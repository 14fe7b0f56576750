----------------------------- MODULE MCRollout -----------------------------
(***************************************************************************)
(* The rollout of marked services and, beside it, the reading of one       *)
(* service's tasks on which such waits rest, each in its own detail. They  *)
(* share nothing: a behaviour is one of them from its initial states on    *)
(* while the other rests.                                                  *)
(***************************************************************************)
EXTENDS Rollout, Sequences

CONSTANTS Nodes, Replicas, MaxTasks, MaxGens

ASSUME ReadingAssumption ==
  IsFiniteSet(Nodes) /\ {Replicas, MaxTasks} \subseteq Nat /\ MaxGens \in Nat \ {0}

VARIABLES part, mode, gen, inFlight, startedAt, tasks, nodes

Tasks == INSTANCE Convergence WITH update <- inFlight

reading == <<mode, gen, inFlight, startedAt, tasks, nodes>>

MCInit ==
  /\ part \in {"rollout", "tasks"}
  /\ Init /\ (part # "rollout" => ~others /\ (\A s \in Services : task[s] = "up") /\ spec[1] = CHOOSE t \in Templates : TRUE)
  /\ Tasks!Init /\ (part # "tasks" => mode = "any")

MCNext ==
  \/ part = "rollout" /\ Next /\ UNCHANGED <<part, reading>>
  \/ part = "tasks" /\ Tasks!Next /\ UNCHANGED <<part, vars>>

MCSpec == MCInit /\ [][MCNext]_<<part, vars, reading>>

-----------------------------------------------------------------------------
\* Convergence: no superseded task is counted as up to date, no earlier run of a job as
\* completed, and no more than the service wants.
CountsOnlyTheCurrent == part = "tasks" => Tasks!TypeOK /\ Tasks!CountsOnlyTheCurrent

\* Convergence: what has finished is read as finished until the service is updated.
FinishedStaysFinished == Tasks!FinishedStaysFinished
=============================================================================
