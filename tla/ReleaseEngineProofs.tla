------------------------ MODULE ReleaseEngineProofs ------------------------
(***************************************************************************)
(* What holds of ReleaseEngine for any number of processes, manifests,     *)
(* networks and operations, and that it implements ReleaseLog: every step  *)
(* of the engine maps to a step of the log or leaves it as it is.          *)
(***************************************************************************)
EXTENDS ReleaseEngineRefinement, FiniteSetTheorems, SequenceTheorems, TLAPS

DeployPoints == {"scopes", "create", "deploy", "undo", "record", "reread"}

\* TypeOK is not inductive: a record takes its manifest from the job, which
\* holds one only between the beginning of a deploy and its record.
TypeInv ==
  /\ TypeOK
  /\ \A c \in Clients : pc[c] \in DeployPoints => job[c].man \in Manifests

-----------------------------------------------------------------------------
(***************************************************************************)
(* Jobs                                                                    *)
(***************************************************************************)

\* An idle process holds a well-formed job.
LEMMA IdleJobType == IdleJob \in Jobs
  BY DEF IdleJob, Jobs, Results

\* Ending an operation, with any result, leaves a well-formed job.
LEMMA FinishKeepsType ==
  ASSUME job \in [Clients -> Jobs], NEW c \in Clients, NEW from, NEW r \in Results,
         Finish(c, from, r)
  PROVE  job' \in [Clients -> Jobs]
  <1>1. job[c].kept \in SUBSET Networks
    BY DEF Jobs
  <1>2. [IdleJob EXCEPT !.result = r, !.kept = job[c].kept] \in Jobs
    BY <1>1, IdleJobType DEF Jobs
  <1>. QED
    BY <1>2 DEF Finish

\* Beginning a deploy of a manifest leaves a well-formed job.
LEMMA BeginDeployKeepsType ==
  ASSUME TypeOK, NEW c \in Clients, NEW man \in Manifests, BeginDeploy(c, man)
  PROVE  job' \in [Clients -> Jobs]
  <1>1. PICK rev \in NextRevisions(Revisions), keep \in Keeps :
          job' = [job EXCEPT ![c] = [IdleJob EXCEPT !.kind = "deploy", !.man = man,
                                                    !.rev = rev, !.keep = keep]]
    BY DEF BeginDeploy, Begin
  <1>2. rev \in Nat \ {0} /\ keep \in Nat
    BY ConstantsAssumption DEF NextRevisions
  <1>3. [IdleJob EXCEPT !.kind = "deploy", !.man = man, !.rev = rev, !.keep = keep] \in Jobs
    BY <1>2, IdleJobType DEF Jobs
  <1>. QED
    BY <1>1, <1>3 DEF TypeOK

\* A rollback is the deploy of a manifest: the one its target revision stored.
LEMMA RollbackDeploys ==
  ASSUME TypeOK, NEW c \in Clients, Rollback(c)
  PROVE  \E man \in Manifests : BeginDeploy(c, man)
  BY DEF Rollback, TypeOK, Revisions, IsRecord, Slots

LEMMA UninstallKeepsType ==
  ASSUME TypeOK, NEW c \in Clients, Uninstall(c)
  PROVE  job' \in [Clients -> Jobs]
  <1>. DEFINE managed == UNION {configs[n].managed : n \in Revisions}
  <1>1. managed \in SUBSET Networks
    BY DEF TypeOK, Revisions, IsRecord, Slots
  <1>2. Revisions \in SUBSET Revs
    BY DEF Revisions
  <1>3. [IdleJob EXCEPT !.kind = "uninstall", !.todoRevs = Revisions, !.managed = managed]
          \in Jobs
    BY <1>1, <1>2, IdleJobType DEF Jobs
  <1>. QED
    BY <1>3 DEF Uninstall, Begin, TypeOK

LEMMA PruneKeepsType ==
  ASSUME TypeOK, NEW c \in Clients, Prune(c)
  PROVE  job' \in [Clients -> Jobs]
  <1>1. PICK keep \in Keeps :
          job' = [job EXCEPT ![c] = [IdleJob EXCEPT !.kind = "prune", !.keep = keep,
                                       !.todoRevs = PlanPrune(Revisions, keep)]]
    BY DEF Prune, Begin
  <1>2. keep \in Nat /\ PlanPrune(Revisions, keep) \in SUBSET Revs
    BY ConstantsAssumption DEF Revisions, PlanPrune
  <1>3. [IdleJob EXCEPT !.kind = "prune", !.keep = keep,
                        !.todoRevs = PlanPrune(Revisions, keep)] \in Jobs
    BY <1>2, IdleJobType DEF Jobs
  <1>. QED
    BY <1>1, <1>3 DEF TypeOK

LEMMA ReadScopesKeepsType ==
  ASSUME TypeInv, NEW c \in Clients, ReadScopes(c)
  PROVE  job' \in [Clients -> Jobs]
  <1>1. PICK need \in SUBSET Networks :
          LET missing == {net \in need : scope[net] = "absent"}
          IN job' = [job EXCEPT ![c].todoNets = missing \cap AutoCreate,
                                ![c].bad = {net \in need : scope[net] = "local"}
                                             \cup (missing \ AutoCreate)]
    <2>1. pc[c] = "scopes" /\ Uses[job[c].man] \in SUBSET Networks
      BY ConstantsAssumption DEF ReadScopes, Step, TypeInv, DeployPoints
    <2>. QED
      BY <2>1 DEF ReadScopes
  <1>2. PICK s \in SUBSET Networks, b \in SUBSET Networks :
          job' = [job EXCEPT ![c].todoNets = s, ![c].bad = b]
    BY <1>1
  <1>3. job \in [Clients -> Jobs]
    BY DEF TypeInv, TypeOK
  <1>4. job[c] \in Jobs
    BY <1>3
  <1>5. [job[c] EXCEPT !.todoNets = s, !.bad = b] \in Jobs
    BY <1>4 DEF Jobs
  <1>6. job' = [job EXCEPT ![c] = [job[c] EXCEPT !.todoNets = s, !.bad = b]]
    BY <1>2
  <1>. QED
    BY <1>3, <1>5, <1>6

-----------------------------------------------------------------------------
(***************************************************************************)
(* Type correctness                                                        *)
(***************************************************************************)

LEMMA TypeInit == Init => TypeInv
  <1>. SUFFICES ASSUME Init
               PROVE  TypeInv
    OBVIOUS
  <1>1. job \in [Clients -> Jobs]
    BY IdleJobType DEF Init
  <1>2. configs \in [Revs -> Slots]
    BY DEF Init, Slots
  <1>. QED
    BY <1>1, <1>2, ConstantsAssumption DEF Init, TypeInv, TypeOK, DeployPoints, Points

\* Every step leaves well-formed jobs.
LEMMA JobStep == TypeInv /\ [Next]_vars => job' \in [Clients -> Jobs]
  <1>. SUFFICES ASSUME TypeInv, [Next]_vars
               PROVE  job' \in [Clients -> Jobs]
    OBVIOUS
  <1>. USE ConstantsAssumption
  <1>a. job \in [Clients -> Jobs]
    BY DEF TypeInv, TypeOK
  <1>1. ASSUME NEW c \in Clients, Install(c) PROVE job' \in [Clients -> Jobs]
    BY <1>1, BeginDeployKeepsType DEF Install, TypeInv
  <1>2. ASSUME NEW c \in Clients, Upgrade(c) PROVE job' \in [Clients -> Jobs]
    BY <1>2, BeginDeployKeepsType DEF Upgrade, TypeInv
  <1>3. ASSUME NEW c \in Clients, Rollback(c) PROVE job' \in [Clients -> Jobs]
    BY <1>3, RollbackDeploys, BeginDeployKeepsType DEF TypeInv
  <1>4. ASSUME NEW c \in Clients, Uninstall(c) PROVE job' \in [Clients -> Jobs]
    BY <1>4, UninstallKeepsType DEF TypeInv
  <1>5. ASSUME NEW c \in Clients, Prune(c) PROVE job' \in [Clients -> Jobs]
    BY <1>5, PruneKeepsType DEF TypeInv
  <1>6. ASSUME NEW c \in Clients, RefusePreflight(c) PROVE job' \in [Clients -> Jobs]
    BY <1>6, FinishKeepsType DEF RefusePreflight, Results, TypeInv, TypeOK
  <1>7. ASSUME NEW c \in Clients, ReadScopes(c) PROVE job' \in [Clients -> Jobs]
    BY <1>7, ReadScopesKeepsType DEF TypeInv, TypeOK
  <1>8. ASSUME NEW c \in Clients, CreateNetwork(c) PROVE job' \in [Clients -> Jobs]
    BY <1>a, <1>8 DEF CreateNetwork, Jobs
  <1>9. ASSUME NEW c \in Clients, NetworksEnsured(c) PROVE job' \in [Clients -> Jobs]
    BY <1>a, <1>9 DEF NetworksEnsured, Step, Jobs
  <1>10. ASSUME NEW c \in Clients, DeployStack(c) PROVE job' \in [Clients -> Jobs]
    BY <1>a, <1>10 DEF DeployStack, Step, Jobs
  <1>11. ASSUME NEW c \in Clients, DeployFails(c) PROVE job' \in [Clients -> Jobs]
    BY <1>a, <1>11 DEF DeployFails, Step, Jobs
  <1>12. ASSUME NEW c \in Clients, UndoNetwork(c) PROVE job' \in [Clients -> Jobs]
    BY <1>a, <1>12 DEF UndoNetwork, Jobs
  <1>13. ASSUME NEW c \in Clients, Undone(c) PROVE job' \in [Clients -> Jobs]
    BY <1>13, FinishKeepsType DEF Undone, Results, TypeInv, TypeOK
  <1>14. ASSUME NEW c \in Clients, Store(c) PROVE job' \in [Clients -> Jobs]
    BY <1>a, <1>14 DEF Store, Step, Jobs
  <1>15. ASSUME NEW c \in Clients, StoreCollides(c) PROVE job' \in [Clients -> Jobs]
    BY <1>a, <1>15 DEF StoreCollides, Step, Jobs
  <1>16. ASSUME NEW c \in Clients, Reread(c) PROVE job' \in [Clients -> Jobs]
    BY <1>a, <1>16 DEF Reread, Step, AfterCollision, NextRevisions, Jobs
  <1>17. ASSUME NEW c \in Clients, Unrecorded(c) PROVE job' \in [Clients -> Jobs]
    BY <1>17, FinishKeepsType DEF Unrecorded, Results, TypeInv, TypeOK
  <1>18. ASSUME NEW c \in Clients, RollFails(c) PROVE job' \in [Clients -> Jobs]
    BY <1>18, FinishKeepsType DEF RollFails, Results, TypeInv, TypeOK
  <1>19. ASSUME NEW c \in Clients, RollDone(c) PROVE job' \in [Clients -> Jobs]
    BY <1>19, FinishKeepsType DEF RollDone, Step, Results, TypeInv, TypeOK
  <1>20. ASSUME NEW c \in Clients, PruneHistory(c) PROVE job' \in [Clients -> Jobs]
    <2>1. PlanPrune(Revisions, job[c].keep) \in SUBSET Revs
      BY DEF PlanPrune, Revisions
    <2>2. PICK doomed \in SUBSET Revs : job' = [job EXCEPT ![c].todoRevs = doomed]
      BY <1>20, <2>1 DEF PruneHistory
    <2>. QED
      BY <1>a, <2>2 DEF Jobs
  <1>21. ASSUME NEW c \in Clients, RemoveStack(c) PROVE job' \in [Clients -> Jobs]
    BY <1>a, <1>21 DEF RemoveStack, Step, Jobs
  <1>22. ASSUME NEW c \in Clients, OrphanedManagedNetworks(c) PROVE job' \in [Clients -> Jobs]
    <2>1. job[c].managed \in SUBSET Networks
      BY <1>a DEF Jobs
    <2>2. UNCHANGED job \/ \E s \in SUBSET Networks : job' = [job EXCEPT ![c].managed = s]
      BY <1>22, <2>1 DEF OrphanedManagedNetworks
    <2>. QED
      BY <1>a, <2>2 DEF Jobs
  <1>23. ASSUME NEW c \in Clients, DeleteConfig(c) PROVE job' \in [Clients -> Jobs]
    BY <1>a, <1>23 DEF DeleteConfig, Jobs
  <1>24. ASSUME NEW c \in Clients, Deleted(c) PROVE job' \in [Clients -> Jobs]
    BY <1>24, FinishKeepsType DEF Deleted, Results, TypeInv, TypeOK
  <1>25. ASSUME NEW c \in Clients, Crash(c) PROVE job' \in [Clients -> Jobs]
    <2>1. [IdleJob EXCEPT !.result = "crashed"] \in Jobs
      BY IdleJobType DEF Jobs, Results
    <2>. QED
      BY <1>25, <2>1 DEF Crash, TypeInv, TypeOK
  <1>26. ASSUME NEW net \in Networks, NetworkRemovedByHand(net) PROVE job' \in [Clients -> Jobs]
    BY <1>a, <1>26 DEF NetworkRemovedByHand, Jobs
  <1>27. CASE UNCHANGED vars
    BY <1>a, <1>27 DEF vars, Jobs
  <1>28. QED
    BY <1>1, <1>2, <1>3, <1>4, <1>5, <1>6, <1>7, <1>8, <1>9, <1>10, <1>11, <1>12, <1>13, <1>14, <1>15, <1>16, <1>17, <1>18, <1>19, <1>20, <1>21, <1>22, <1>23, <1>24, <1>25, <1>26, <1>27
       DEF Next, Beginning, Deploying, Recording, Finishing

\* Every step leaves well-formed configs, a manifest or nothing for the stack, ...
LEMMA SwarmStep ==
  TypeInv /\ [Next]_vars =>
    /\ configs' \in [Revs -> Slots]
    /\ stack' \in Manifests \cup {NoStack}
    /\ scope' \in [Networks -> {"absent", "swarm", "local"}]
    /\ pc' \in [Clients -> Points]
    /\ ops' \in Nat
  <1>. DEFINE Swarm == /\ configs \in [Revs -> Slots]
                       /\ stack \in Manifests \cup {NoStack}
                       /\ scope \in [Networks -> {"absent", "swarm", "local"}]
                       /\ pc \in [Clients -> Points]
                       /\ ops \in Nat
  <1>. SUFFICES ASSUME TypeInv, [Next]_vars
               PROVE  Swarm'
    OBVIOUS
  <1>. USE ConstantsAssumption
  <1>1. ASSUME NEW c \in Clients, Install(c) PROVE Swarm'
    BY <1>1 DEF Install, BeginDeploy, Begin, TypeInv, TypeOK, Points, swarm
  <1>2. ASSUME NEW c \in Clients, Upgrade(c) PROVE Swarm'
    BY <1>2 DEF Upgrade, BeginDeploy, Begin, TypeInv, TypeOK, Points, swarm
  <1>3. ASSUME NEW c \in Clients, Rollback(c) PROVE Swarm'
    BY <1>3 DEF Rollback, BeginDeploy, Begin, TypeInv, TypeOK, Points, swarm
  <1>4. ASSUME NEW c \in Clients, Uninstall(c) PROVE Swarm'
    BY <1>4 DEF Uninstall, Begin, TypeInv, TypeOK, Points, swarm
  <1>5. ASSUME NEW c \in Clients, Prune(c) PROVE Swarm'
    BY <1>5 DEF Prune, Begin, TypeInv, TypeOK, Points, swarm
  <1>6. ASSUME NEW c \in Clients, RefusePreflight(c) PROVE Swarm'
    BY <1>6 DEF RefusePreflight, Finish, Step, TypeInv, TypeOK, Points, swarm
  <1>7. ASSUME NEW c \in Clients, ReadScopes(c) PROVE Swarm'
    BY <1>7 DEF ReadScopes, Step, TypeInv, TypeOK, Points, swarm
  <1>8. ASSUME NEW c \in Clients, CreateNetwork(c) PROVE Swarm'
    BY <1>8 DEF CreateNetwork, TypeInv, TypeOK, Points, swarm
  <1>9. ASSUME NEW c \in Clients, NetworksEnsured(c) PROVE Swarm'
    BY <1>9 DEF NetworksEnsured, Step, TypeInv, TypeOK, Points, swarm
  <1>10. ASSUME NEW c \in Clients, DeployStack(c) PROVE Swarm'
    BY <1>10 DEF DeployStack, Step, DeployPoints, TypeInv, TypeOK, Points, swarm
  <1>11. ASSUME NEW c \in Clients, DeployFails(c) PROVE Swarm'
    BY <1>11 DEF DeployFails, Step, DeployPoints, TypeInv, TypeOK, Points, swarm
  <1>12. ASSUME NEW c \in Clients, UndoNetwork(c) PROVE Swarm'
    BY <1>12 DEF UndoNetwork, TypeInv, TypeOK, Points, swarm
  <1>13. ASSUME NEW c \in Clients, Undone(c) PROVE Swarm'
    BY <1>13 DEF Undone, Finish, Step, TypeInv, TypeOK, Points, swarm
  <1>14. ASSUME NEW c \in Clients, Store(c) PROVE Swarm'
    <2>1. job[c].man \in Manifests /\ job[c].created \in SUBSET Networks
      BY <1>14 DEF Store, Step, TypeInv, TypeOK, Jobs, DeployPoints
    <2>2. [manifest |-> job[c].man, managed |-> job[c].created] \in Slots
      BY <2>1 DEF Slots
    <2>. QED
      BY <1>14, <2>2 DEF Store, Step, TypeInv, TypeOK, Points
  <1>15. ASSUME NEW c \in Clients, StoreCollides(c) PROVE Swarm'
    BY <1>15 DEF StoreCollides, Step, TypeInv, TypeOK, Points, swarm
  <1>16. ASSUME NEW c \in Clients, Reread(c) PROVE Swarm'
    BY <1>16 DEF Reread, Step, TypeInv, TypeOK, Points, swarm
  <1>17. ASSUME NEW c \in Clients, Unrecorded(c) PROVE Swarm'
    BY <1>17 DEF Unrecorded, Finish, Step, TypeInv, TypeOK, Points, swarm
  <1>18. ASSUME NEW c \in Clients, RollFails(c) PROVE Swarm'
    BY <1>18 DEF RollFails, Finish, Step, TypeInv, TypeOK, Points, swarm
  <1>19. ASSUME NEW c \in Clients, RollDone(c) PROVE Swarm'
    BY <1>19 DEF RollDone, Finish, Step, TypeInv, TypeOK, Points, swarm
  <1>20. ASSUME NEW c \in Clients, PruneHistory(c) PROVE Swarm'
    BY <1>20 DEF PruneHistory, Step, TypeInv, TypeOK, Points, swarm
  <1>21. ASSUME NEW c \in Clients, RemoveStack(c) PROVE Swarm'
    BY <1>21 DEF RemoveStack, Step, TypeInv, TypeOK, Points, swarm
  <1>22. ASSUME NEW c \in Clients, OrphanedManagedNetworks(c) PROVE Swarm'
    BY <1>22 DEF OrphanedManagedNetworks, Step, TypeInv, TypeOK, Points, swarm
  <1>23. ASSUME NEW c \in Clients, DeleteConfig(c) PROVE Swarm'
    BY <1>23 DEF DeleteConfig, TypeInv, TypeOK, Slots
  <1>24. ASSUME NEW c \in Clients, Deleted(c) PROVE Swarm'
    BY <1>24 DEF Deleted, Finish, Step, TypeInv, TypeOK, Points, swarm
  <1>25. ASSUME NEW c \in Clients, Crash(c) PROVE Swarm'
    BY <1>25 DEF Crash, TypeInv, TypeOK, Points, swarm
  <1>26. ASSUME NEW net \in Networks, NetworkRemovedByHand(net) PROVE Swarm'
    BY <1>26 DEF NetworkRemovedByHand, TypeInv, TypeOK, Points, swarm
  <1>27. CASE UNCHANGED vars
    BY <1>27 DEF vars, TypeInv, TypeOK, Points
  <1>28. QED
    BY <1>1, <1>2, <1>3, <1>4, <1>5, <1>6, <1>7, <1>8, <1>9, <1>10, <1>11, <1>12, <1>13, <1>14, <1>15, <1>16, <1>17, <1>18, <1>19, <1>20, <1>21, <1>22, <1>23, <1>24, <1>25, <1>26, <1>27
       DEF Next, Beginning, Deploying, Recording, Finishing

\* ... well-formed history variables, ...
LEMMA HistoryStep ==
  TypeInv /\ [Next]_vars =>
    /\ maker' \in [Networks -> Clients \cup {Nobody}]
    /\ owned' \in SUBSET Networks
    /\ trimmed' \in BOOLEAN /\ wiped' \in BOOLEAN
    /\ removed' \in BOOLEAN /\ disturbed' \in BOOLEAN
  <1>. DEFINE History == /\ maker \in [Networks -> Clients \cup {Nobody}]
                         /\ owned \in SUBSET Networks
                         /\ trimmed \in BOOLEAN /\ wiped \in BOOLEAN
                         /\ removed \in BOOLEAN /\ disturbed \in BOOLEAN
  <1>. SUFFICES ASSUME TypeInv, [Next]_vars
               PROVE  History'
    OBVIOUS
  <1>1. ASSUME NEW c \in Clients, Install(c) PROVE History'
    BY <1>1 DEF Install, BeginDeploy, Begin, TypeInv, TypeOK, history
  <1>2. ASSUME NEW c \in Clients, Upgrade(c) PROVE History'
    BY <1>2 DEF Upgrade, BeginDeploy, Begin, TypeInv, TypeOK, history
  <1>3. ASSUME NEW c \in Clients, Rollback(c) PROVE History'
    BY <1>3 DEF Rollback, BeginDeploy, Begin, TypeInv, TypeOK, history
  <1>4. ASSUME NEW c \in Clients, Uninstall(c) PROVE History'
    BY <1>4 DEF Uninstall, Begin, TypeInv, TypeOK, history
  <1>5. ASSUME NEW c \in Clients, Prune(c) PROVE History'
    BY <1>5 DEF Prune, Begin, TypeInv, TypeOK, history
  <1>6. ASSUME NEW c \in Clients, RefusePreflight(c) PROVE History'
    BY <1>6 DEF RefusePreflight, Finish, Step, TypeInv, TypeOK, history
  <1>7. ASSUME NEW c \in Clients, ReadScopes(c) PROVE History'
    BY <1>7 DEF ReadScopes, Step, TypeInv, TypeOK, history
  <1>8. ASSUME NEW c \in Clients, CreateNetwork(c) PROVE History'
    BY <1>8 DEF CreateNetwork, TypeInv, TypeOK, history
  <1>9. ASSUME NEW c \in Clients, NetworksEnsured(c) PROVE History'
    BY <1>9 DEF NetworksEnsured, Step, TypeInv, TypeOK, history
  <1>10. ASSUME NEW c \in Clients, DeployStack(c) PROVE History'
    BY <1>10 DEF DeployStack, Step, TypeInv, TypeOK, history
  <1>11. ASSUME NEW c \in Clients, DeployFails(c) PROVE History'
    BY <1>11 DEF DeployFails, Step, TypeInv, TypeOK, history
  <1>12. ASSUME NEW c \in Clients, UndoNetwork(c) PROVE History'
    BY <1>12 DEF UndoNetwork, TypeInv, TypeOK, history
  <1>13. ASSUME NEW c \in Clients, Undone(c) PROVE History'
    BY <1>13 DEF Undone, Finish, Step, TypeInv, TypeOK, history
  <1>14. ASSUME NEW c \in Clients, Store(c) PROVE History'
    BY <1>14 DEF Store, Step, Jobs, TypeInv, TypeOK, history
  <1>15. ASSUME NEW c \in Clients, StoreCollides(c) PROVE History'
    BY <1>15 DEF StoreCollides, Step, TypeInv, TypeOK, history
  <1>16. ASSUME NEW c \in Clients, Reread(c) PROVE History'
    BY <1>16 DEF Reread, Step, TypeInv, TypeOK, history
  <1>17. ASSUME NEW c \in Clients, Unrecorded(c) PROVE History'
    BY <1>17 DEF Unrecorded, Finish, Step, TypeInv, TypeOK, history
  <1>18. ASSUME NEW c \in Clients, RollFails(c) PROVE History'
    BY <1>18 DEF RollFails, Finish, Step, TypeInv, TypeOK, history
  <1>19. ASSUME NEW c \in Clients, RollDone(c) PROVE History'
    BY <1>19 DEF RollDone, Finish, Step, TypeInv, TypeOK, history
  <1>20. ASSUME NEW c \in Clients, PruneHistory(c) PROVE History'
    BY <1>20 DEF PruneHistory, Step, TypeInv, TypeOK, history
  <1>21. ASSUME NEW c \in Clients, RemoveStack(c) PROVE History'
    BY <1>21 DEF RemoveStack, Step, TypeInv, TypeOK, history
  <1>22. ASSUME NEW c \in Clients, OrphanedManagedNetworks(c) PROVE History'
    BY <1>22 DEF OrphanedManagedNetworks, Step, TypeInv, TypeOK, history
  <1>23. ASSUME NEW c \in Clients, DeleteConfig(c) PROVE History'
    BY <1>23 DEF DeleteConfig, TypeInv, TypeOK, history
  <1>24. ASSUME NEW c \in Clients, Deleted(c) PROVE History'
    BY <1>24 DEF Deleted, Finish, Step, TypeInv, TypeOK, history
  <1>25. ASSUME NEW c \in Clients, Crash(c) PROVE History'
    BY <1>25 DEF Crash, TypeInv, TypeOK, history
  <1>26. ASSUME NEW net \in Networks, NetworkRemovedByHand(net) PROVE History'
    BY <1>26 DEF NetworkRemovedByHand, TypeInv, TypeOK, history
  <1>27. CASE UNCHANGED vars
    BY <1>27 DEF vars, TypeInv, TypeOK
  <1>28. QED
    BY <1>1, <1>2, <1>3, <1>4, <1>5, <1>6, <1>7, <1>8, <1>9, <1>10, <1>11, <1>12, <1>13, <1>14, <1>15, <1>16, <1>17, <1>18, <1>19, <1>20, <1>21, <1>22, <1>23, <1>24, <1>25, <1>26, <1>27
       DEF Next, Beginning, Deploying, Recording, Finishing

LEMMA BeginDeployHoldsManifest ==
  ASSUME TypeInv, NEW c \in Clients, NEW man \in Manifests, BeginDeploy(c, man)
  PROVE  \A d \in Clients : pc'[d] \in DeployPoints => job'[d].man \in Manifests
  <1>1. PICK rev, keep :
          job' = [job EXCEPT ![c] = [IdleJob EXCEPT !.kind = "deploy", !.man = man,
                                                    !.rev = rev, !.keep = keep]]
    BY DEF BeginDeploy, Begin
  <1>2. job'[c].man = man
    BY <1>1 DEF IdleJob, TypeInv, TypeOK
  <1>3. \A d \in Clients \ {c} : job'[d] = job[d] /\ pc'[d] = pc[d]
    BY <1>1 DEF BeginDeploy, Begin, TypeInv, TypeOK
  <1>. QED
    BY <1>2, <1>3 DEF TypeInv

\* ... and a manifest in every job that still has it to deploy or to record.
LEMMA ManifestStep ==
  TypeInv /\ [Next]_vars =>
    \A c \in Clients : pc'[c] \in DeployPoints => job'[c].man \in Manifests
  <1>. DEFINE Held == \A d \in Clients : pc[d] \in DeployPoints => job[d].man \in Manifests
  <1>. SUFFICES ASSUME TypeInv, [Next]_vars
               PROVE  Held'
    OBVIOUS
  <1>1. ASSUME NEW c \in Clients, Install(c) PROVE Held'
    BY <1>1, BeginDeployHoldsManifest DEF Install, TypeInv
  <1>2. ASSUME NEW c \in Clients, Upgrade(c) PROVE Held'
    BY <1>2, BeginDeployHoldsManifest DEF Upgrade, TypeInv
  <1>3. ASSUME NEW c \in Clients, Rollback(c) PROVE Held'
    BY <1>3, RollbackDeploys, BeginDeployHoldsManifest DEF TypeInv
  <1>4. ASSUME NEW c \in Clients, Uninstall(c) PROVE Held'
    BY <1>4 DEF Uninstall, Begin, TypeInv, TypeOK, Jobs, DeployPoints
  <1>5. ASSUME NEW c \in Clients, Prune(c) PROVE Held'
    BY <1>5 DEF Prune, Begin, TypeInv, TypeOK, Jobs, DeployPoints
  <1>6. ASSUME NEW c \in Clients, RefusePreflight(c) PROVE Held'
    BY <1>6 DEF RefusePreflight, Finish, Step, TypeInv, TypeOK, Jobs, DeployPoints
  <1>7. ASSUME NEW c \in Clients, ReadScopes(c) PROVE Held'
    BY <1>7 DEF ReadScopes, Step, TypeInv, TypeOK, Jobs, DeployPoints
  <1>8. ASSUME NEW c \in Clients, CreateNetwork(c) PROVE Held'
    BY <1>8 DEF CreateNetwork, TypeInv, TypeOK, Jobs, DeployPoints
  <1>9. ASSUME NEW c \in Clients, NetworksEnsured(c) PROVE Held'
    BY <1>9 DEF NetworksEnsured, Step, TypeInv, TypeOK, Jobs, DeployPoints
  <1>10. ASSUME NEW c \in Clients, DeployStack(c) PROVE Held'
    BY <1>10 DEF DeployStack, Step, TypeInv, TypeOK, Jobs, DeployPoints
  <1>11. ASSUME NEW c \in Clients, DeployFails(c) PROVE Held'
    BY <1>11 DEF DeployFails, Step, TypeInv, TypeOK, Jobs, DeployPoints
  <1>12. ASSUME NEW c \in Clients, UndoNetwork(c) PROVE Held'
    BY <1>12 DEF UndoNetwork, TypeInv, TypeOK, Jobs, DeployPoints
  <1>13. ASSUME NEW c \in Clients, Undone(c) PROVE Held'
    BY <1>13 DEF Undone, Finish, Step, TypeInv, TypeOK, Jobs, DeployPoints
  <1>14. ASSUME NEW c \in Clients, Store(c) PROVE Held'
    BY <1>14 DEF Store, Step, TypeInv, TypeOK, Jobs, DeployPoints
  <1>15. ASSUME NEW c \in Clients, StoreCollides(c) PROVE Held'
    BY <1>15 DEF StoreCollides, Step, TypeInv, TypeOK, Jobs, DeployPoints
  <1>16. ASSUME NEW c \in Clients, Reread(c) PROVE Held'
    BY <1>16 DEF Reread, Step, TypeInv, TypeOK, Jobs, DeployPoints
  <1>17. ASSUME NEW c \in Clients, Unrecorded(c) PROVE Held'
    BY <1>17 DEF Unrecorded, Finish, Step, TypeInv, TypeOK, Jobs, DeployPoints
  <1>18. ASSUME NEW c \in Clients, RollFails(c) PROVE Held'
    BY <1>18 DEF RollFails, Finish, Step, TypeInv, TypeOK, Jobs, DeployPoints
  <1>19. ASSUME NEW c \in Clients, RollDone(c) PROVE Held'
    BY <1>19 DEF RollDone, Finish, Step, TypeInv, TypeOK, Jobs, DeployPoints
  <1>20. ASSUME NEW c \in Clients, PruneHistory(c) PROVE Held'
    BY <1>20 DEF PruneHistory, Step, TypeInv, TypeOK, Jobs, DeployPoints
  <1>21. ASSUME NEW c \in Clients, RemoveStack(c) PROVE Held'
    BY <1>21 DEF RemoveStack, Step, TypeInv, TypeOK, Jobs, DeployPoints
  <1>22. ASSUME NEW c \in Clients, OrphanedManagedNetworks(c) PROVE Held'
    BY <1>22 DEF OrphanedManagedNetworks, Step, TypeInv, TypeOK, Jobs, DeployPoints
  <1>23. ASSUME NEW c \in Clients, DeleteConfig(c) PROVE Held'
    BY <1>23 DEF DeleteConfig, TypeInv, TypeOK, Jobs, DeployPoints
  <1>24. ASSUME NEW c \in Clients, Deleted(c) PROVE Held'
    BY <1>24 DEF Deleted, Finish, Step, TypeInv, TypeOK, Jobs, DeployPoints
  <1>25. ASSUME NEW c \in Clients, Crash(c) PROVE Held'
    BY <1>25 DEF Crash, TypeInv, TypeOK, Jobs, DeployPoints
  <1>26. ASSUME NEW net \in Networks, NetworkRemovedByHand(net) PROVE Held'
    BY <1>26 DEF NetworkRemovedByHand, TypeInv, TypeOK, Jobs, DeployPoints
  <1>27. CASE UNCHANGED vars
    BY <1>27 DEF vars, TypeInv, TypeOK, Jobs, DeployPoints
  <1>28. QED
    BY <1>1, <1>2, <1>3, <1>4, <1>5, <1>6, <1>7, <1>8, <1>9, <1>10, <1>11, <1>12, <1>13, <1>14, <1>15, <1>16, <1>17, <1>18, <1>19, <1>20, <1>21, <1>22, <1>23, <1>24, <1>25, <1>26, <1>27
       DEF Next, Beginning, Deploying, Recording, Finishing

LEMMA TypeStep == TypeInv /\ [Next]_vars => TypeInv'
  BY JobStep, SwarmStep, HistoryStep, ManifestStep DEF TypeInv, TypeOK

\* Every variable keeps its type, for every number of processes and operations.
THEOREM TypeCorrect == Spec => []TypeOK
  <1>1. TypeInv => TypeOK
    BY DEF TypeInv
  <1>. QED
    BY TypeInit, TypeStep, <1>1, PTL DEF Spec

-----------------------------------------------------------------------------
(***************************************************************************)
(* A prune spares the newest record                                        *)
(***************************************************************************)

\* Whatever planPrune picks has a newer revision among those it was given.
LEMMA PlanPruneSparesTop ==
  ASSUME NEW R, NEW keep, NEW n \in PlanPrune(R, keep)
  PROVE  n \in R /\ \E m \in R : n < m
  BY DEF PlanPrune

\* Only an uninstall removes the stack and looks for orphaned networks.
UninstallPoints == \A c \in Clients : pc[c] \in {"remove", "orphans"} => job[c].kind = "uninstall"

LEMMA UninstallPointsStep == TypeInv /\ UninstallPoints /\ [Next]_vars => UninstallPoints'
  <1>. SUFFICES ASSUME TypeInv, UninstallPoints, [Next]_vars
               PROVE  UninstallPoints'
    OBVIOUS
  <1>a. job \in [Clients -> Jobs] /\ pc \in [Clients -> Points]
    BY DEF TypeInv, TypeOK
  <1>1. ASSUME NEW c \in Clients, Install(c) PROVE UninstallPoints'
    BY <1>a, <1>1 DEF Install, BeginDeploy, Begin, IdleJob, UninstallPoints, Jobs
  <1>2. ASSUME NEW c \in Clients, Upgrade(c) PROVE UninstallPoints'
    BY <1>a, <1>2 DEF Upgrade, BeginDeploy, Begin, IdleJob, UninstallPoints, Jobs
  <1>3. ASSUME NEW c \in Clients, Rollback(c) PROVE UninstallPoints'
    BY <1>a, <1>3 DEF Rollback, BeginDeploy, Begin, IdleJob, UninstallPoints, Jobs
  <1>4. ASSUME NEW c \in Clients, Uninstall(c) PROVE UninstallPoints'
    BY <1>a, <1>4 DEF Uninstall, Begin, IdleJob, UninstallPoints, Jobs
  <1>5. ASSUME NEW c \in Clients, Prune(c) PROVE UninstallPoints'
    BY <1>a, <1>5 DEF Prune, Begin, IdleJob, UninstallPoints, Jobs
  <1>6. ASSUME NEW c \in Clients, RefusePreflight(c) PROVE UninstallPoints'
    BY <1>a, <1>6 DEF RefusePreflight, Finish, Step, UninstallPoints, Jobs
  <1>7. ASSUME NEW c \in Clients, ReadScopes(c) PROVE UninstallPoints'
    BY <1>a, <1>7 DEF ReadScopes, Step, UninstallPoints, Jobs
  <1>8. ASSUME NEW c \in Clients, CreateNetwork(c) PROVE UninstallPoints'
    BY <1>a, <1>8 DEF CreateNetwork, UninstallPoints, Jobs
  <1>9. ASSUME NEW c \in Clients, NetworksEnsured(c) PROVE UninstallPoints'
    BY <1>a, <1>9 DEF NetworksEnsured, Step, UninstallPoints, Jobs
  <1>10. ASSUME NEW c \in Clients, DeployStack(c) PROVE UninstallPoints'
    BY <1>a, <1>10 DEF DeployStack, Step, UninstallPoints, Jobs
  <1>11. ASSUME NEW c \in Clients, DeployFails(c) PROVE UninstallPoints'
    BY <1>a, <1>11 DEF DeployFails, Step, UninstallPoints, Jobs
  <1>12. ASSUME NEW c \in Clients, UndoNetwork(c) PROVE UninstallPoints'
    BY <1>a, <1>12 DEF UndoNetwork, UninstallPoints, Jobs
  <1>13. ASSUME NEW c \in Clients, Undone(c) PROVE UninstallPoints'
    BY <1>a, <1>13 DEF Undone, Finish, Step, UninstallPoints, Jobs
  <1>14. ASSUME NEW c \in Clients, Store(c) PROVE UninstallPoints'
    BY <1>a, <1>14 DEF Store, Step, UninstallPoints, Jobs
  <1>15. ASSUME NEW c \in Clients, StoreCollides(c) PROVE UninstallPoints'
    BY <1>a, <1>15 DEF StoreCollides, Step, UninstallPoints, Jobs
  <1>16. ASSUME NEW c \in Clients, Reread(c) PROVE UninstallPoints'
    BY <1>a, <1>16 DEF Reread, Step, UninstallPoints, Jobs
  <1>17. ASSUME NEW c \in Clients, Unrecorded(c) PROVE UninstallPoints'
    BY <1>a, <1>17 DEF Unrecorded, Finish, Step, UninstallPoints, Jobs
  <1>18. ASSUME NEW c \in Clients, RollFails(c) PROVE UninstallPoints'
    BY <1>a, <1>18 DEF RollFails, Finish, Step, UninstallPoints, Jobs
  <1>19. ASSUME NEW c \in Clients, RollDone(c) PROVE UninstallPoints'
    BY <1>a, <1>19 DEF RollDone, Finish, Step, UninstallPoints, Jobs
  <1>20. ASSUME NEW c \in Clients, PruneHistory(c) PROVE UninstallPoints'
    BY <1>a, <1>20 DEF PruneHistory, Step, UninstallPoints, Jobs
  <1>21. ASSUME NEW c \in Clients, RemoveStack(c) PROVE UninstallPoints'
    BY <1>a, <1>21 DEF RemoveStack, Step, UninstallPoints, Jobs
  <1>22. ASSUME NEW c \in Clients, OrphanedManagedNetworks(c) PROVE UninstallPoints'
    BY <1>a, <1>22 DEF OrphanedManagedNetworks, Step, UninstallPoints, Jobs
  <1>23. ASSUME NEW c \in Clients, DeleteConfig(c) PROVE UninstallPoints'
    BY <1>a, <1>23 DEF DeleteConfig, UninstallPoints, Jobs
  <1>24. ASSUME NEW c \in Clients, Deleted(c) PROVE UninstallPoints'
    BY <1>a, <1>24 DEF Deleted, Finish, Step, UninstallPoints, Jobs
  <1>25. ASSUME NEW c \in Clients, Crash(c) PROVE UninstallPoints'
    BY <1>a, <1>25 DEF Crash, UninstallPoints, Jobs
  <1>26. ASSUME NEW net \in Networks, NetworkRemovedByHand(net) PROVE UninstallPoints'
    BY <1>a, <1>26 DEF NetworkRemovedByHand, UninstallPoints, Jobs
  <1>27. CASE UNCHANGED vars
    BY <1>a, <1>27 DEF vars, UninstallPoints, Jobs
  <1>28. QED
    BY <1>1, <1>2, <1>3, <1>4, <1>5, <1>6, <1>7, <1>8, <1>9, <1>10, <1>11, <1>12, <1>13, <1>14, <1>15, <1>16, <1>17, <1>18, <1>19, <1>20, <1>21, <1>22, <1>23, <1>24, <1>25, <1>26, <1>27
       DEF Next, Beginning, Deploying, Recording, Finishing

\* PruneSparesNewest is inductive given these: a prune that deletes the
\* newer record another prune counted on has itself a still newer one to spare.
LEMMA NewestSparedStep ==
  TypeInv /\ UninstallPoints /\ PruneSparesNewest /\ [Next]_vars => PruneSparesNewest'
  <1>. SUFFICES ASSUME TypeInv, UninstallPoints, PruneSparesNewest, [Next]_vars
               PROVE  PruneSparesNewest'
    OBVIOUS
  <1>a. job \in [Clients -> Jobs] /\ pc \in [Clients -> Points] /\ configs \in [Revs -> Slots]
    BY DEF TypeInv, TypeOK
  <1>b. Revs \subseteq Int
    BY ConstantsAssumption DEF Revs
  <1>1. ASSUME NEW c \in Clients, Install(c) PROVE PruneSparesNewest'
    BY <1>a, <1>1 DEF Install, BeginDeploy, Begin, IdleJob, PruneSparesNewest, Revisions, swarm, history
  <1>2. ASSUME NEW c \in Clients, Upgrade(c) PROVE PruneSparesNewest'
    BY <1>a, <1>2 DEF Upgrade, BeginDeploy, Begin, IdleJob, PruneSparesNewest, Revisions, swarm, history
  <1>3. ASSUME NEW c \in Clients, Rollback(c) PROVE PruneSparesNewest'
    BY <1>a, <1>3 DEF Rollback, BeginDeploy, Begin, IdleJob, PruneSparesNewest, Revisions, swarm, history
  <1>4. ASSUME NEW c \in Clients, Uninstall(c) PROVE PruneSparesNewest'
    BY <1>a, <1>4 DEF Uninstall, Begin, IdleJob, PruneSparesNewest, Revisions, swarm, history
  <1>5. ASSUME NEW c \in Clients, Prune(c) PROVE PruneSparesNewest'
    <2>1. PICK keep \in Keeps :
            job' = [job EXCEPT ![c] = [IdleJob EXCEPT !.kind = "prune", !.keep = keep,
                                         !.todoRevs = PlanPrune(Revisions, keep)]]
      BY <1>5 DEF Prune, Begin
    <2>2. job'[c].todoRevs = PlanPrune(Revisions, keep)
      BY <2>1, <1>a DEF IdleJob
    <2>3. Revisions' = Revisions
      BY <1>5 DEF Prune, Begin, Revisions
    <2>4. \A n \in job'[c].todoRevs : \E m \in Revisions : n < m
      BY <2>2, PlanPruneSparesTop
    <2>5. \A d \in Clients \ {c} : job'[d] = job[d] /\ pc'[d] = pc[d]
      BY <1>5, <2>1, <1>a DEF Prune, Begin
    <2>6. wiped' = wiped
      BY <1>5 DEF Prune, Begin
    <2>. QED
      BY <2>3, <2>4, <2>5, <2>6 DEF PruneSparesNewest
  <1>6. ASSUME NEW c \in Clients, RefusePreflight(c) PROVE PruneSparesNewest'
    BY <1>a, <1>6 DEF RefusePreflight, Finish, Step, PruneSparesNewest, Revisions, swarm, history
  <1>7. ASSUME NEW c \in Clients, ReadScopes(c) PROVE PruneSparesNewest'
    BY <1>a, <1>7 DEF ReadScopes, Step, PruneSparesNewest, Revisions, swarm, history
  <1>8. ASSUME NEW c \in Clients, CreateNetwork(c) PROVE PruneSparesNewest'
    BY <1>a, <1>8 DEF CreateNetwork, PruneSparesNewest, Revisions, swarm, history
  <1>9. ASSUME NEW c \in Clients, NetworksEnsured(c) PROVE PruneSparesNewest'
    BY <1>a, <1>9 DEF NetworksEnsured, Step, PruneSparesNewest, Revisions, swarm, history
  <1>10. ASSUME NEW c \in Clients, DeployStack(c) PROVE PruneSparesNewest'
    BY <1>a, <1>10 DEF DeployStack, Step, PruneSparesNewest, Revisions, swarm, history
  <1>11. ASSUME NEW c \in Clients, DeployFails(c) PROVE PruneSparesNewest'
    BY <1>a, <1>11 DEF DeployFails, Step, PruneSparesNewest, Revisions, swarm, history
  <1>12. ASSUME NEW c \in Clients, UndoNetwork(c) PROVE PruneSparesNewest'
    BY <1>a, <1>12 DEF UndoNetwork, PruneSparesNewest, Revisions, swarm, history
  <1>13. ASSUME NEW c \in Clients, Undone(c) PROVE PruneSparesNewest'
    BY <1>a, <1>13 DEF Undone, Finish, Step, PruneSparesNewest, Revisions, swarm, history
  <1>14. ASSUME NEW c \in Clients, Store(c) PROVE PruneSparesNewest'
    BY <1>a, <1>14 DEF Store, Step, IsRecord, PruneSparesNewest, Revisions, swarm, history
  <1>15. ASSUME NEW c \in Clients, StoreCollides(c) PROVE PruneSparesNewest'
    BY <1>a, <1>15 DEF StoreCollides, Step, PruneSparesNewest, Revisions, swarm, history
  <1>16. ASSUME NEW c \in Clients, Reread(c) PROVE PruneSparesNewest'
    BY <1>a, <1>16 DEF Reread, Step, PruneSparesNewest, Revisions, swarm, history
  <1>17. ASSUME NEW c \in Clients, Unrecorded(c) PROVE PruneSparesNewest'
    BY <1>a, <1>17 DEF Unrecorded, Finish, Step, PruneSparesNewest, Revisions, swarm, history
  <1>18. ASSUME NEW c \in Clients, RollFails(c) PROVE PruneSparesNewest'
    BY <1>a, <1>18 DEF RollFails, Finish, Step, PruneSparesNewest, Revisions, swarm, history
  <1>19. ASSUME NEW c \in Clients, RollDone(c) PROVE PruneSparesNewest'
    BY <1>a, <1>19 DEF RollDone, Finish, Step, PruneSparesNewest, Revisions, swarm, history
  <1>20. ASSUME NEW c \in Clients, PruneHistory(c) PROVE PruneSparesNewest'
    <2>1. job'[c].todoRevs \in {PlanPrune(Revisions, job[c].keep), {}}
      BY <1>20, <1>a DEF PruneHistory, Jobs
    <2>2. Revisions' = Revisions /\ wiped' = wiped
      BY <1>20 DEF PruneHistory, swarm, history, Revisions
    <2>3. \A n \in job'[c].todoRevs : \E m \in Revisions : n < m
      BY <2>1, PlanPruneSparesTop
    <2>4. \A d \in Clients \ {c} : job'[d] = job[d] /\ pc'[d] = pc[d]
      BY <1>20, <1>a DEF PruneHistory, Step
    <2>. QED
      BY <2>2, <2>3, <2>4 DEF PruneSparesNewest
  <1>21. ASSUME NEW c \in Clients, RemoveStack(c) PROVE PruneSparesNewest'
    BY <1>a, <1>21 DEF RemoveStack, Step, Jobs, PruneSparesNewest, Revisions, swarm, history
  <1>22. ASSUME NEW c \in Clients, OrphanedManagedNetworks(c) PROVE PruneSparesNewest'
    BY <1>a, <1>22 DEF OrphanedManagedNetworks, Step, Jobs, UninstallPoints, PruneSparesNewest,
                    Revisions, swarm, history
  <1>23. ASSUME NEW c \in Clients, DeleteConfig(c) PROVE PruneSparesNewest'
    <2>1. PICK n \in job[c].todoRevs :
            /\ pc[c] = "delete"
            /\ job' = [job EXCEPT ![c].todoRevs = @ \ {n}]
            /\ \/ /\ configs' = [configs EXCEPT ![n] = NoConfig]
                  /\ wiped' = (wiped \/ job[c].kind = "uninstall")
               \/ UNCHANGED <<configs, wiped>>
            /\ UNCHANGED pc
      BY <1>23 DEF DeleteConfig
    <2>. SUFFICES ASSUME ~wiped', NEW d \in Clients,
                         pc[d] = "delete", job'[d].kind # "uninstall", NEW k \in job'[d].todoRevs
                  PROVE  \E m \in Revisions' : k < m
      BY <2>1 DEF PruneSparesNewest
    <2>2. k \in job[d].todoRevs /\ job[d].kind # "uninstall" /\ n \in Revs /\ k \in Revs
      BY <2>1, <1>a DEF Jobs
    <2>3. ~wiped
      BY <2>1
    <2>4. PICK m \in Revisions : k < m
      BY <2>1, <2>2, <2>3 DEF PruneSparesNewest
    <2>5. CASE UNCHANGED configs
      BY <2>4, <2>5 DEF Revisions
    <2>6. CASE configs' = [configs EXCEPT ![n] = NoConfig] /\ wiped' = (wiped \/ job[c].kind = "uninstall")
      <3>1. job[c].kind # "uninstall"
        BY <2>6
      <3>2. PICK top \in Revisions : n < top
        BY <2>1, <2>3, <3>1 DEF PruneSparesNewest
      <3>3. \A r \in Revisions : r # n => r \in Revisions'
        BY <2>6, <1>a DEF Revisions
      <3>4. top \in Revisions'
        BY <3>2, <3>3, <1>b DEF Revisions
      <3>5. CASE m # n
        BY <2>4, <3>3, <3>5
      <3>6. CASE m = n
        BY <2>4, <3>2, <3>4, <3>6, <2>2, <1>b DEF Revisions
      <3>. QED
        BY <3>5, <3>6
    <2>. QED
      BY <2>1, <2>5, <2>6
  <1>24. ASSUME NEW c \in Clients, Deleted(c) PROVE PruneSparesNewest'
    BY <1>a, <1>24 DEF Deleted, Finish, Step, PruneSparesNewest, Revisions, swarm, history
  <1>25. ASSUME NEW c \in Clients, Crash(c) PROVE PruneSparesNewest'
    BY <1>a, <1>25 DEF Crash, PruneSparesNewest, Revisions, swarm, history
  <1>26. ASSUME NEW net \in Networks, NetworkRemovedByHand(net) PROVE PruneSparesNewest'
    BY <1>a, <1>26 DEF NetworkRemovedByHand, PruneSparesNewest, Revisions, swarm, history
  <1>27. CASE UNCHANGED vars
    BY <1>a, <1>27 DEF vars, PruneSparesNewest, Revisions
  <1>28. QED
    BY <1>1, <1>2, <1>3, <1>4, <1>5, <1>6, <1>7, <1>8, <1>9, <1>10, <1>11, <1>12, <1>13, <1>14, <1>15, <1>16, <1>17, <1>18, <1>19, <1>20, <1>21, <1>22, <1>23, <1>24, <1>25, <1>26, <1>27
       DEF Next, Beginning, Deploying, Recording, Finishing

\* As long as no uninstall deletes records, the newest one outlives every prune
\* and every trim, whatever deploys and prunes interleave: the live release
\* keeps its record.
THEOREM NewestSpared == Spec => []PruneSparesNewest
  <1>1. Init => PruneSparesNewest /\ UninstallPoints
    BY DEF Init, PruneSparesNewest, UninstallPoints
  <1>. QED
    BY <1>1, TypeInit, TypeStep, UninstallPointsStep, NewestSparedStep, PTL DEF Spec

-----------------------------------------------------------------------------
(***************************************************************************)
(* The history is appended to                                              *)
(***************************************************************************)

\* As long as nothing has been deleted the names below a record are taken, and
\* so are the names below the number a deploy means to record under.
NamesTakenBelow ==
  ~trimmed =>
    /\ \A m \in Revisions, n \in Revs : n < m => configs[n] # NoConfig
    /\ \A c \in Clients : pc[c] \in DeployPoints =>
         \A n \in Revs : n < job[c].rev => configs[n] # NoConfig
    /\ \A c \in Clients : pc[c] = "reread" =>
         job[c].rev \in Revs /\ configs[job[c].rev] # NoConfig

\* The next revision is above every record, and right above one or the first.
LEMMA NextRevisionAbove ==
  ASSUME NEW R \in SUBSET Revs, NEW rev \in NextRevisions(R)
  PROVE  /\ rev \in Nat \ {0}
         /\ \A m \in R : m < rev
         /\ \A n \in Revs : n < rev => n \in R \/ \E m \in R : n < m
  <1>1. MaxRev \in Nat
    BY ConstantsAssumption
  <1>2. R \subseteq Nat \ {0} /\ Revs \subseteq Nat \ {0}
    BY <1>1 DEF Revs
  <1>3. rev \in Nat \ {0} /\ (\A m \in R : m < rev) /\ (rev = 1 \/ rev - 1 \in R)
    BY <1>1 DEF NextRevisions
  <1>4. ASSUME NEW n \in Revs, n < rev
        PROVE  n \in R \/ \E m \in R : n < m
    <2>1. n \in Nat \ {0}
      BY <1>2
    <2>2. rev - 1 \in R
      BY <1>3, <1>4, <2>1
    <2>3. n = rev - 1 \/ n < rev - 1
      BY <1>3, <1>4, <2>1
    <2>. QED
      BY <2>2, <2>3
  <1>. QED
    BY <1>3, <1>4

\* Below the next revision every name is taken while nothing has been deleted.
LEMMA TakenBelowNext ==
  ASSUME TypeInv, NamesTakenBelow, ~trimmed, NEW rev \in NextRevisions(Revisions)
  PROVE  rev \in Nat \ {0} /\ \A n \in Revs : n < rev => configs[n] # NoConfig
  <1>1. Revisions \in SUBSET Revs
    BY DEF Revisions
  <1>2. \A n \in Revisions : configs[n] # NoConfig
    BY DEF Revisions, IsRecord
  <1>. QED
    BY <1>1, <1>2, NextRevisionAbove DEF NamesTakenBelow

LEMMA BeginDeployTakenBelow ==
  ASSUME TypeInv, NamesTakenBelow, NEW c \in Clients, NEW man, BeginDeploy(c, man)
  PROVE  NamesTakenBelow'
  <1>a. job \in [Clients -> Jobs] /\ pc \in [Clients -> Points]
    BY DEF TypeInv, TypeOK
  <1>1. PICK rev \in NextRevisions(Revisions), keep \in Keeps :
          job' = [job EXCEPT ![c] = [IdleJob EXCEPT !.kind = "deploy", !.man = man,
                                                    !.rev = rev, !.keep = keep]]
    BY DEF BeginDeploy, Begin
  <1>2. job'[c].rev = rev /\ pc'[c] = "scopes"
    BY <1>1, <1>a DEF BeginDeploy, Begin, IdleJob
  <1>3. \A d \in Clients \ {c} : job'[d] = job[d] /\ pc'[d] = pc[d]
    BY <1>1, <1>a DEF BeginDeploy, Begin
  <1>4. UNCHANGED <<configs, trimmed, Revisions>>
    BY DEF BeginDeploy, Begin, Revisions
  <1>5. ~trimmed => \A n \in Revs : n < rev => configs[n] # NoConfig
    BY TakenBelowNext
  <1>. QED
    BY <1>2, <1>3, <1>4, <1>5 DEF NamesTakenBelow

LEMMA NamesTakenBelowStep == TypeInv /\ NamesTakenBelow /\ [Next]_vars => NamesTakenBelow'
  <1>. SUFFICES ASSUME TypeInv, NamesTakenBelow, [Next]_vars
               PROVE  NamesTakenBelow'
    OBVIOUS
  <1>a. job \in [Clients -> Jobs] /\ pc \in [Clients -> Points] /\ configs \in [Revs -> Slots]
    BY DEF TypeInv, TypeOK
  <1>b. Revs \subseteq Nat \ {0}
    BY ConstantsAssumption DEF Revs
  <1>1. ASSUME NEW c \in Clients, Install(c) PROVE NamesTakenBelow'
    BY <1>1, BeginDeployTakenBelow DEF Install
  <1>2. ASSUME NEW c \in Clients, Upgrade(c) PROVE NamesTakenBelow'
    BY <1>2, BeginDeployTakenBelow DEF Upgrade
  <1>3. ASSUME NEW c \in Clients, Rollback(c) PROVE NamesTakenBelow'
    BY <1>3, BeginDeployTakenBelow DEF Rollback
  <1>4. ASSUME NEW c \in Clients, Uninstall(c) PROVE NamesTakenBelow'
    BY <1>a, <1>4 DEF Uninstall, Begin, IdleJob, NamesTakenBelow, DeployPoints, Revisions, swarm, history
  <1>5. ASSUME NEW c \in Clients, Prune(c) PROVE NamesTakenBelow'
    BY <1>a, <1>5 DEF Prune, Begin, IdleJob, NamesTakenBelow, DeployPoints, Revisions, swarm, history
  <1>6. ASSUME NEW c \in Clients, RefusePreflight(c) PROVE NamesTakenBelow'
    BY <1>a, <1>6 DEF RefusePreflight, Finish, Step, NamesTakenBelow, DeployPoints, Revisions, swarm, history
  <1>7. ASSUME NEW c \in Clients, ReadScopes(c) PROVE NamesTakenBelow'
    BY <1>a, <1>7 DEF ReadScopes, Step, Jobs, NamesTakenBelow, DeployPoints, Revisions, swarm, history
  <1>8. ASSUME NEW c \in Clients, CreateNetwork(c) PROVE NamesTakenBelow'
    BY <1>a, <1>8 DEF CreateNetwork, Jobs, NamesTakenBelow, DeployPoints, Revisions, swarm, history
  <1>9. ASSUME NEW c \in Clients, NetworksEnsured(c) PROVE NamesTakenBelow'
    BY <1>a, <1>9 DEF NetworksEnsured, Step, NamesTakenBelow, DeployPoints, Revisions, swarm, history
  <1>10. ASSUME NEW c \in Clients, DeployStack(c) PROVE NamesTakenBelow'
    BY <1>a, <1>10 DEF DeployStack, Step, NamesTakenBelow, DeployPoints, Revisions, swarm, history
  <1>11. ASSUME NEW c \in Clients, DeployFails(c) PROVE NamesTakenBelow'
    BY <1>a, <1>11 DEF DeployFails, Step, NamesTakenBelow, DeployPoints, Revisions, swarm, history
  <1>12. ASSUME NEW c \in Clients, UndoNetwork(c) PROVE NamesTakenBelow'
    BY <1>a, <1>12 DEF UndoNetwork, Jobs, NamesTakenBelow, DeployPoints, Revisions, swarm, history
  <1>13. ASSUME NEW c \in Clients, Undone(c) PROVE NamesTakenBelow'
    BY <1>a, <1>13 DEF Undone, Finish, Step, NamesTakenBelow, DeployPoints, Revisions, swarm, history
  <1>14. ASSUME NEW c \in Clients, Store(c) PROVE NamesTakenBelow'
    <2>1. PICK rec \in Slots : configs' = [configs EXCEPT ![job[c].rev] = rec]
                               /\ rec # NoConfig /\ rec # Foreign
      <3>1. job[c].man \in Manifests /\ job[c].created \in SUBSET Networks
        BY <1>14, <1>a DEF Store, Step, TypeInv, Jobs, DeployPoints
      <3>. QED
        BY <1>14, <3>1, ConstantsAssumption DEF Store, Slots
    <2>2. job[c].rev \in Revs /\ pc[c] = "record" /\ pc' = [pc EXCEPT ![c] = "roll"] /\ UNCHANGED <<job, trimmed>>
      BY <1>14 DEF Store, Step
    <2>3. Revisions' = Revisions \cup {job[c].rev}
      BY <2>1, <2>2, <1>a DEF Revisions, IsRecord
    <2>4. \A n \in Revs : configs[n] # NoConfig => configs'[n] # NoConfig
      BY <2>1, <2>2, <1>a
    <2>. QED
      BY <2>2, <2>3, <2>4, <1>a DEF NamesTakenBelow, DeployPoints
  <1>15. ASSUME NEW c \in Clients, StoreCollides(c) PROVE NamesTakenBelow'
    BY <1>a, <1>15 DEF StoreCollides, Step, NamesTakenBelow, DeployPoints, Revisions, swarm, history
  <1>16. ASSUME NEW c \in Clients, Reread(c) PROVE NamesTakenBelow'
    <2>1. PICK next \in NextRevisions(Revisions) :
            job' = [job EXCEPT ![c].rev = IF next > job[c].rev + 1 THEN next ELSE job[c].rev + 1,
                               ![c].tries = @ + 1]
      BY <1>16 DEF Reread, AfterCollision
    <2>2. job'[c].rev = IF next > job[c].rev + 1 THEN next ELSE job[c].rev + 1
      BY <2>1, <1>a DEF Jobs
    <2>3. pc[c] = "reread" /\ pc' = [pc EXCEPT ![c] = "record"] /\ UNCHANGED <<configs, trimmed, Revisions>>
      BY <1>16 DEF Reread, Step, swarm, history, Revisions
    <2>4. \A d \in Clients \ {c} : job'[d] = job[d] /\ pc'[d] = pc[d]
      BY <2>1, <2>3, <1>a
    <2>. SUFFICES ASSUME ~trimmed
                  PROVE  NamesTakenBelow'
      BY <2>3 DEF NamesTakenBelow
    <2>5. \A n \in Revs : n < next => configs[n] # NoConfig
      BY TakenBelowNext
    <2>6. \A n \in Revs : n < job[c].rev + 1 => configs[n] # NoConfig
      <3>1. job[c].rev \in Nat
        BY <1>a DEF Jobs
      <3>2. \A n \in Revs : n < job[c].rev + 1 => n < job[c].rev \/ n = job[c].rev
        BY <3>1, <1>b
      <3>. QED
        BY <3>2, <2>3 DEF NamesTakenBelow, DeployPoints
    <2>7. \A n \in Revs : n < job'[c].rev => configs[n] # NoConfig
      BY <2>2, <2>5, <2>6
    <2>. QED
      BY <2>3, <2>4, <2>7, <1>a DEF NamesTakenBelow
  <1>17. ASSUME NEW c \in Clients, Unrecorded(c) PROVE NamesTakenBelow'
    BY <1>a, <1>17 DEF Unrecorded, Finish, Step, NamesTakenBelow, DeployPoints, Revisions, swarm, history
  <1>18. ASSUME NEW c \in Clients, RollFails(c) PROVE NamesTakenBelow'
    BY <1>a, <1>18 DEF RollFails, Finish, Step, NamesTakenBelow, DeployPoints, Revisions, swarm, history
  <1>19. ASSUME NEW c \in Clients, RollDone(c) PROVE NamesTakenBelow'
    BY <1>a, <1>19 DEF RollDone, Finish, Step, NamesTakenBelow, DeployPoints, Revisions, swarm, history
  <1>20. ASSUME NEW c \in Clients, PruneHistory(c) PROVE NamesTakenBelow'
    BY <1>a, <1>20 DEF PruneHistory, Step, NamesTakenBelow, DeployPoints, Revisions, swarm, history
  <1>21. ASSUME NEW c \in Clients, RemoveStack(c) PROVE NamesTakenBelow'
    BY <1>a, <1>21 DEF RemoveStack, Step, NamesTakenBelow, DeployPoints, Revisions, swarm, history
  <1>22. ASSUME NEW c \in Clients, OrphanedManagedNetworks(c) PROVE NamesTakenBelow'
    BY <1>a, <1>22 DEF OrphanedManagedNetworks, Step, NamesTakenBelow, DeployPoints, Revisions, swarm, history
  <1>23. ASSUME NEW c \in Clients, DeleteConfig(c) PROVE NamesTakenBelow'
    BY <1>a, <1>23 DEF DeleteConfig, NamesTakenBelow, DeployPoints, Revisions, swarm, history
  <1>24. ASSUME NEW c \in Clients, Deleted(c) PROVE NamesTakenBelow'
    BY <1>a, <1>24 DEF Deleted, Finish, Step, NamesTakenBelow, DeployPoints, Revisions, swarm, history
  <1>25. ASSUME NEW c \in Clients, Crash(c) PROVE NamesTakenBelow'
    BY <1>a, <1>25 DEF Crash, NamesTakenBelow, DeployPoints, Revisions, swarm, history
  <1>26. ASSUME NEW net \in Networks, NetworkRemovedByHand(net) PROVE NamesTakenBelow'
    BY <1>a, <1>26 DEF NetworkRemovedByHand, NamesTakenBelow, DeployPoints, Revisions, swarm, history
  <1>27. CASE UNCHANGED vars
    BY <1>a, <1>27 DEF vars, NamesTakenBelow, DeployPoints, Revisions
  <1>28. QED
    BY <1>1, <1>2, <1>3, <1>4, <1>5, <1>6, <1>7, <1>8, <1>9, <1>10, <1>11, <1>12, <1>13, <1>14, <1>15, <1>16, <1>17, <1>18, <1>19, <1>20, <1>21, <1>22, <1>23, <1>24, <1>25, <1>26, <1>27
       DEF Next, Beginning, Deploying, Recording, Finishing

LEMMA AppendsStep ==
  TypeInv /\ NamesTakenBelow /\ [Next]_vars =>
    (~trimmed => \A n \in Revisions' \ Revisions : \A m \in Revisions : m < n)
  <1>. SUFFICES ASSUME TypeInv, NamesTakenBelow, [Next]_vars, ~trimmed,
                      NEW n \in Revisions' \ Revisions, NEW m \in Revisions
               PROVE  m < n
    OBVIOUS
  <1>a. job \in [Clients -> Jobs] /\ configs \in [Revs -> Slots]
    BY DEF TypeInv, TypeOK
  <1>b. Revs \subseteq Nat \ {0}
    BY ConstantsAssumption DEF Revs
  <1>1. ASSUME NEW c \in Clients, Install(c) PROVE m < n
    BY <1>1 DEF Install, BeginDeploy, Begin, Revisions, swarm
  <1>2. ASSUME NEW c \in Clients, Upgrade(c) PROVE m < n
    BY <1>2 DEF Upgrade, BeginDeploy, Begin, Revisions, swarm
  <1>3. ASSUME NEW c \in Clients, Rollback(c) PROVE m < n
    BY <1>3 DEF Rollback, BeginDeploy, Begin, Revisions, swarm
  <1>4. ASSUME NEW c \in Clients, Uninstall(c) PROVE m < n
    BY <1>4 DEF Uninstall, Begin, Revisions, swarm
  <1>5. ASSUME NEW c \in Clients, Prune(c) PROVE m < n
    BY <1>5 DEF Prune, Begin, Revisions, swarm
  <1>6. ASSUME NEW c \in Clients, RefusePreflight(c) PROVE m < n
    BY <1>6 DEF RefusePreflight, Finish, Step, Revisions, swarm
  <1>7. ASSUME NEW c \in Clients, ReadScopes(c) PROVE m < n
    BY <1>7 DEF ReadScopes, Step, Revisions, swarm
  <1>8. ASSUME NEW c \in Clients, CreateNetwork(c) PROVE m < n
    BY <1>8 DEF CreateNetwork, Revisions, swarm
  <1>9. ASSUME NEW c \in Clients, NetworksEnsured(c) PROVE m < n
    BY <1>9 DEF NetworksEnsured, Step, Revisions, swarm
  <1>10. ASSUME NEW c \in Clients, DeployStack(c) PROVE m < n
    BY <1>10 DEF DeployStack, Step, Revisions, swarm
  <1>11. ASSUME NEW c \in Clients, DeployFails(c) PROVE m < n
    BY <1>11 DEF DeployFails, Step, Revisions, swarm
  <1>12. ASSUME NEW c \in Clients, UndoNetwork(c) PROVE m < n
    BY <1>12 DEF UndoNetwork, Revisions, swarm
  <1>13. ASSUME NEW c \in Clients, Undone(c) PROVE m < n
    BY <1>13 DEF Undone, Finish, Step, Revisions, swarm
  <1>14. ASSUME NEW c \in Clients, Store(c) PROVE m < n
    <2>1. n = job[c].rev /\ configs[n] = NoConfig
      BY <1>14, <1>a DEF Store, Revisions
    <2>2. n \in Revs /\ m \in Revs
      BY DEF Revisions
    <2>3. n # m
      BY <2>1 DEF Revisions, IsRecord
    <2>4. ~(n < m)
      BY <2>1, <2>2 DEF NamesTakenBelow
    <2>. QED
      BY <2>2, <2>3, <2>4, <1>b
  <1>15. ASSUME NEW c \in Clients, StoreCollides(c) PROVE m < n
    BY <1>15 DEF StoreCollides, Step, Revisions, swarm
  <1>16. ASSUME NEW c \in Clients, Reread(c) PROVE m < n
    BY <1>16 DEF Reread, Step, Revisions, swarm
  <1>17. ASSUME NEW c \in Clients, Unrecorded(c) PROVE m < n
    BY <1>17 DEF Unrecorded, Finish, Step, Revisions, swarm
  <1>18. ASSUME NEW c \in Clients, RollFails(c) PROVE m < n
    BY <1>18 DEF RollFails, Finish, Step, Revisions, swarm
  <1>19. ASSUME NEW c \in Clients, RollDone(c) PROVE m < n
    BY <1>19 DEF RollDone, Finish, Step, Revisions, swarm
  <1>20. ASSUME NEW c \in Clients, PruneHistory(c) PROVE m < n
    BY <1>20 DEF PruneHistory, Step, Revisions, swarm
  <1>21. ASSUME NEW c \in Clients, RemoveStack(c) PROVE m < n
    BY <1>21 DEF RemoveStack, Step, Revisions, swarm
  <1>22. ASSUME NEW c \in Clients, OrphanedManagedNetworks(c) PROVE m < n
    BY <1>22 DEF OrphanedManagedNetworks, Step, Revisions, swarm
  <1>23. ASSUME NEW c \in Clients, DeleteConfig(c) PROVE m < n
    <2>1. job[c].todoRevs \in SUBSET Revs
      BY <1>a DEF Jobs
    <2>. QED
      BY <1>23, <2>1, <1>a DEF DeleteConfig, Revisions, IsRecord
  <1>24. ASSUME NEW c \in Clients, Deleted(c) PROVE m < n
    BY <1>24 DEF Deleted, Finish, Step, Revisions, swarm
  <1>25. ASSUME NEW c \in Clients, Crash(c) PROVE m < n
    BY <1>25 DEF Crash, Revisions, swarm
  <1>26. ASSUME NEW net \in Networks, NetworkRemovedByHand(net) PROVE m < n
    BY <1>26 DEF NetworkRemovedByHand, Revisions, swarm
  <1>27. CASE UNCHANGED vars
    BY <1>27 DEF vars, Revisions
  <1>28. QED
    BY <1>1, <1>2, <1>3, <1>4, <1>5, <1>6, <1>7, <1>8, <1>9, <1>10, <1>11, <1>12, <1>13, <1>14, <1>15, <1>16, <1>17, <1>18, <1>19, <1>20, <1>21, <1>22, <1>23, <1>24, <1>25, <1>26, <1>27
       DEF Next, Beginning, Deploying, Recording, Finishing

\* While nothing has been deleted every record goes above all the others,
\* whichever of the concurrent deploys had picked its number first.
THEOREM HistoryAppends == Spec => AppendsAtEnd
  <1>1. Init => NamesTakenBelow
    BY DEF Init, NamesTakenBelow, DeployPoints, Revisions, IsRecord
  <1>2. Spec => [](TypeInv /\ NamesTakenBelow)
    BY <1>1, TypeInit, TypeStep, NamesTakenBelowStep, PTL DEF Spec
  <1>. QED
    BY <1>2, AppendsStep, PTL DEF Spec, AppendsAtEnd

-----------------------------------------------------------------------------
(***************************************************************************)
(* Deploy before record                                                    *)
(***************************************************************************)

\* Until an uninstall removes the stack, whoever is about to record has deployed.
DeployedBeforeRecord ==
  ~removed => \A c \in Clients : pc[c] \in {"record", "reread"} => stack # NoStack

LEMMA NoPhantomStep ==
  TypeInv /\ DeployedBeforeRecord /\ NoPhantomRelease /\ [Next]_vars =>
    (DeployedBeforeRecord /\ NoPhantomRelease)'
  <1>. DEFINE Inv == DeployedBeforeRecord /\ NoPhantomRelease
  <1>. SUFFICES ASSUME TypeInv, Inv, [Next]_vars
               PROVE  Inv'
    OBVIOUS
  <1>a. pc \in [Clients -> Points] /\ configs \in [Revs -> Slots] /\ NoStack \notin Manifests
    BY ConstantsAssumption DEF TypeInv, TypeOK
  <1>1. ASSUME NEW c \in Clients, Install(c) PROVE Inv'
    BY <1>a, <1>1 DEF Install, BeginDeploy, Begin, DeployedBeforeRecord, NoPhantomRelease, Revisions, swarm, history
  <1>2. ASSUME NEW c \in Clients, Upgrade(c) PROVE Inv'
    BY <1>a, <1>2 DEF Upgrade, BeginDeploy, Begin, DeployedBeforeRecord, NoPhantomRelease, Revisions, swarm, history
  <1>3. ASSUME NEW c \in Clients, Rollback(c) PROVE Inv'
    BY <1>a, <1>3 DEF Rollback, BeginDeploy, Begin, DeployedBeforeRecord, NoPhantomRelease, Revisions, swarm, history
  <1>4. ASSUME NEW c \in Clients, Uninstall(c) PROVE Inv'
    BY <1>a, <1>4 DEF Uninstall, Begin, DeployedBeforeRecord, NoPhantomRelease, Revisions, swarm, history
  <1>5. ASSUME NEW c \in Clients, Prune(c) PROVE Inv'
    BY <1>a, <1>5 DEF Prune, Begin, DeployedBeforeRecord, NoPhantomRelease, Revisions, swarm, history
  <1>6. ASSUME NEW c \in Clients, RefusePreflight(c) PROVE Inv'
    BY <1>a, <1>6 DEF RefusePreflight, Finish, Step, DeployedBeforeRecord, NoPhantomRelease, Revisions, swarm, history
  <1>7. ASSUME NEW c \in Clients, ReadScopes(c) PROVE Inv'
    BY <1>a, <1>7 DEF ReadScopes, Step, DeployedBeforeRecord, NoPhantomRelease, Revisions, swarm, history
  <1>8. ASSUME NEW c \in Clients, CreateNetwork(c) PROVE Inv'
    BY <1>a, <1>8 DEF CreateNetwork, DeployedBeforeRecord, NoPhantomRelease, Revisions, swarm, history
  <1>9. ASSUME NEW c \in Clients, NetworksEnsured(c) PROVE Inv'
    BY <1>a, <1>9 DEF NetworksEnsured, Step, DeployedBeforeRecord, NoPhantomRelease, Revisions, swarm, history
  <1>10. ASSUME NEW c \in Clients, DeployStack(c) PROVE Inv'
    <2>1. job[c].man \in Manifests
      BY <1>10 DEF DeployStack, Step, TypeInv, DeployPoints
    <2>. QED
      BY <1>10, <2>1, <1>a DEF DeployStack, Step, DeployedBeforeRecord, NoPhantomRelease, Revisions
  <1>11. ASSUME NEW c \in Clients, DeployFails(c) PROVE Inv'
    <2>1. job[c].man \in Manifests
      BY <1>11 DEF DeployFails, Step, TypeInv, DeployPoints
    <2>. QED
      BY <1>11, <2>1, <1>a DEF DeployFails, Step, DeployedBeforeRecord, NoPhantomRelease, Revisions
  <1>12. ASSUME NEW c \in Clients, UndoNetwork(c) PROVE Inv'
    BY <1>a, <1>12 DEF UndoNetwork, DeployedBeforeRecord, NoPhantomRelease, Revisions, swarm, history
  <1>13. ASSUME NEW c \in Clients, Undone(c) PROVE Inv'
    BY <1>a, <1>13 DEF Undone, Finish, Step, DeployedBeforeRecord, NoPhantomRelease, Revisions, swarm, history
  <1>14. ASSUME NEW c \in Clients, Store(c) PROVE Inv'
    BY <1>a, <1>14 DEF Store, Step, DeployedBeforeRecord, NoPhantomRelease, Revisions, swarm, history
  <1>15. ASSUME NEW c \in Clients, StoreCollides(c) PROVE Inv'
    BY <1>a, <1>15 DEF StoreCollides, Step, DeployedBeforeRecord, NoPhantomRelease, Revisions, swarm, history
  <1>16. ASSUME NEW c \in Clients, Reread(c) PROVE Inv'
    BY <1>a, <1>16 DEF Reread, Step, DeployedBeforeRecord, NoPhantomRelease, Revisions, swarm, history
  <1>17. ASSUME NEW c \in Clients, Unrecorded(c) PROVE Inv'
    BY <1>a, <1>17 DEF Unrecorded, Finish, Step, DeployedBeforeRecord, NoPhantomRelease, Revisions, swarm, history
  <1>18. ASSUME NEW c \in Clients, RollFails(c) PROVE Inv'
    BY <1>a, <1>18 DEF RollFails, Finish, Step, DeployedBeforeRecord, NoPhantomRelease, Revisions, swarm, history
  <1>19. ASSUME NEW c \in Clients, RollDone(c) PROVE Inv'
    BY <1>a, <1>19 DEF RollDone, Finish, Step, DeployedBeforeRecord, NoPhantomRelease, Revisions, swarm, history
  <1>20. ASSUME NEW c \in Clients, PruneHistory(c) PROVE Inv'
    BY <1>a, <1>20 DEF PruneHistory, Step, DeployedBeforeRecord, NoPhantomRelease, Revisions, swarm, history
  <1>21. ASSUME NEW c \in Clients, RemoveStack(c) PROVE Inv'
    BY <1>a, <1>21 DEF RemoveStack, Step, DeployedBeforeRecord, NoPhantomRelease, Revisions, swarm, history
  <1>22. ASSUME NEW c \in Clients, OrphanedManagedNetworks(c) PROVE Inv'
    BY <1>a, <1>22 DEF OrphanedManagedNetworks, Step, DeployedBeforeRecord, NoPhantomRelease, Revisions, swarm, history
  <1>23. ASSUME NEW c \in Clients, DeleteConfig(c) PROVE Inv'
    <2>1. Revisions' \subseteq Revisions
      <3>1. job[c].todoRevs \in SUBSET Revs
        BY DEF TypeInv, TypeOK, Jobs
      <3>. QED
        BY <1>23, <3>1, <1>a DEF DeleteConfig, Revisions, IsRecord
    <2>. QED
      BY <1>23, <2>1 DEF DeleteConfig, DeployedBeforeRecord, NoPhantomRelease
  <1>24. ASSUME NEW c \in Clients, Deleted(c) PROVE Inv'
    BY <1>a, <1>24 DEF Deleted, Finish, Step, DeployedBeforeRecord, NoPhantomRelease, Revisions, swarm, history
  <1>25. ASSUME NEW c \in Clients, Crash(c) PROVE Inv'
    BY <1>a, <1>25 DEF Crash, DeployedBeforeRecord, NoPhantomRelease, Revisions, swarm, history
  <1>26. ASSUME NEW net \in Networks, NetworkRemovedByHand(net) PROVE Inv'
    BY <1>a, <1>26 DEF NetworkRemovedByHand, DeployedBeforeRecord, NoPhantomRelease, Revisions, swarm, history
  <1>27. CASE UNCHANGED vars
    BY <1>a, <1>27 DEF vars, DeployedBeforeRecord, NoPhantomRelease, Revisions
  <1>28. QED
    BY <1>1, <1>2, <1>3, <1>4, <1>5, <1>6, <1>7, <1>8, <1>9, <1>10, <1>11, <1>12, <1>13, <1>14, <1>15, <1>16, <1>17, <1>18, <1>19, <1>20, <1>21, <1>22, <1>23, <1>24, <1>25, <1>26, <1>27
       DEF Next, Beginning, Deploying, Recording, Finishing

\* A release that nobody has uninstalled and that has a record has a stack,
\* although the record is written by a separate call after the deploy.
THEOREM NoPhantom == Spec => []NoPhantomRelease
  <1>1. Init => DeployedBeforeRecord /\ NoPhantomRelease
    BY DEF Init, DeployedBeforeRecord, NoPhantomRelease, Revisions, IsRecord
  <1>. QED
    BY <1>1, TypeInit, TypeStep, NoPhantomStep, PTL DEF Spec

-----------------------------------------------------------------------------
(***************************************************************************)
(* A failed deploy leaves no network                                       *)
(***************************************************************************)

BeforeRecord == {"scopes", "create", "deploy", "undo"}

\* Until its deploy is recorded a process knows each network that it made: it will undo
\* it, or has tried to.
MadeIsKnown ==
  \A c \in Clients, net \in Networks :
    maker[net] = c /\ pc[c] \in BeforeRecord => net \in job[c].created \cup job[c].kept

MadeInv == MadeIsKnown /\ FailedDeployLeavesNoNetwork

\* A step of a process that makes no network and ends in neither of the two cases.
LEMMA ElsewhereKeepsMade ==
  ASSUME TypeInv, MadeInv, NEW c \in Clients,
         pc' = [pc EXCEPT ![c] = pc'[c]] \/ pc' = pc,
         job' = [job EXCEPT ![c] = job'[c]],
         \A net \in Networks : maker'[net] \in {maker[net], Nobody},
         pc'[c] \notin BeforeRecord,
         ~ (pc'[c] = "idle" /\ job'[c].result = "failed")
  PROVE  MadeInv'
  <1>1. \A d \in Clients \ {c} : pc'[d] = pc[d] /\ job'[d] = job[d]
    BY DEF TypeInv, TypeOK
  <1>2. Nobody \notin Clients
    BY ConstantsAssumption
  <1>. QED
    BY <1>1, <1>2 DEF MadeInv, MadeIsKnown, FailedDeployLeavesNoNetwork

\* An operation that ends, with a result other than a failed deploy's.
LEMMA FinishKeepsMade ==
  ASSUME TypeInv, MadeInv, NEW c \in Clients, NEW from, NEW r, r # "failed",
         Finish(c, from, r), UNCHANGED maker
  PROVE  MadeInv'
  <1>1. /\ pc' = [pc EXCEPT ![c] = "idle"]
        /\ job' = [job EXCEPT ![c] = [IdleJob EXCEPT !.result = r, !.kept = job[c].kept]]
    BY DEF Finish, Step
  <1>2. pc'[c] = "idle" /\ job'[c] = [IdleJob EXCEPT !.result = r, !.kept = job[c].kept]
    BY <1>1 DEF TypeInv, TypeOK
  <1>3. job'[c].result = r
    BY <1>2 DEF IdleJob
  <1>. QED
    BY <1>1, <1>2, <1>3, ElsewhereKeepsMade DEF BeforeRecord

\* What an operation made, the next one of the same process answers for no longer.
LEMMA BeginKeepsMade ==
  ASSUME TypeInv, MadeInv, NEW c \in Clients, NEW next, next # "idle", NEW new, Begin(c, next, new)
  PROVE  MadeInv'
  <1>1. /\ pc'[c] = next
        /\ \A d \in Clients \ {c} : pc'[d] = pc[d] /\ job'[d] = job[d]
    BY DEF Begin, TypeInv, TypeOK
  <1>2. \A net \in Networks : maker'[net] # c /\ maker'[net] \in {maker[net], Nobody}
    BY ConstantsAssumption DEF Begin
  <1>3. Nobody \notin Clients
    BY ConstantsAssumption
  <1>. QED
    BY <1>1, <1>2, <1>3 DEF MadeInv, MadeIsKnown, FailedDeployLeavesNoNetwork

LEMMA ReadScopesKeepsMade ==
  ASSUME TypeInv, MadeInv, NEW c \in Clients, ReadScopes(c)
  PROVE  MadeInv'
  <1>1. PICK s, b : job' = [job EXCEPT ![c].todoNets = s, ![c].bad = b]
    BY DEF ReadScopes
  <1>2. /\ job'[c].created = job[c].created /\ job'[c].kept = job[c].kept
        /\ \A d \in Clients \ {c} : job'[d] = job[d]
    BY <1>1 DEF TypeInv, TypeOK, Jobs
  <1>3. /\ pc[c] = "scopes" /\ pc'[c] = "create" /\ maker' = maker
        /\ \A d \in Clients \ {c} : pc'[d] = pc[d]
    BY DEF ReadScopes, Step, history, TypeInv, TypeOK
  <1>. QED
    BY <1>2, <1>3 DEF MadeInv, MadeIsKnown, FailedDeployLeavesNoNetwork, BeforeRecord

LEMMA CreateNetworkKeepsMade ==
  ASSUME TypeInv, MadeInv, NEW c \in Clients, CreateNetwork(c)
  PROVE  MadeInv'
  <1>1. PICK net \in Networks :
          /\ pc[c] = "create" /\ pc' = pc
          /\ \/ /\ maker' = [maker EXCEPT ![net] = c]
                /\ job' = [job EXCEPT ![c].created = @ \cup {net}, ![c].todoNets = @ \ {net}]
             \/ /\ maker' = maker
                /\ job' = [job EXCEPT ![c].bad = @ \cup {net}, ![c].todoNets = @ \ {net}]
    BY DEF CreateNetwork, TypeInv, TypeOK, Jobs
  <1>2. /\ job'[c].created = job[c].created \cup {net} \/ (maker' = maker /\ job'[c].created = job[c].created)
        /\ job'[c].kept = job[c].kept
        /\ \A d \in Clients \ {c} : job'[d] = job[d]
    BY <1>1 DEF TypeInv, TypeOK, Jobs
  <1>3. \A m \in Networks : maker'[m] = maker[m] \/ (m = net /\ maker'[m] = c)
    BY <1>1 DEF TypeInv, TypeOK
  <1>. QED
    BY <1>1, <1>2, <1>3 DEF MadeInv, MadeIsKnown, FailedDeployLeavesNoNetwork, BeforeRecord

LEMMA UndoNetworkKeepsMade ==
  ASSUME TypeInv, MadeInv, NEW c \in Clients, UndoNetwork(c)
  PROVE  MadeInv'
  <1>1. PICK net \in Networks :
          /\ pc[c] = "undo" /\ pc' = pc
          /\ \/ /\ maker' = maker
                /\ job' = [job EXCEPT ![c].created = @ \ {net}, ![c].kept = @ \cup {net}]
             \/ /\ maker' = [maker EXCEPT ![net] = Nobody]
                /\ job' = [job EXCEPT ![c].created = @ \ {net}]
    BY DEF UndoNetwork, TypeInv, TypeOK, Jobs
  <1>2. /\ job'[c].created = job[c].created \ {net}
        /\ \/ maker' = maker /\ job'[c].kept = job[c].kept \cup {net}
           \/ maker' = [maker EXCEPT ![net] = Nobody] /\ job'[c].kept = job[c].kept
        /\ \A d \in Clients \ {c} : job'[d] = job[d]
    BY <1>1 DEF TypeInv, TypeOK, Jobs
  <1>3. /\ \A m \in Networks : maker'[m] \in {maker[m], Nobody}
        /\ maker'[net] = Nobody \/ job'[c].kept = job[c].kept \cup {net}
        /\ job[c].kept \subseteq job'[c].kept
    BY <1>2 DEF TypeInv, TypeOK
  <1>4. Nobody \notin Clients
    BY ConstantsAssumption
  <1>. QED
    BY <1>1, <1>2, <1>3, <1>4 DEF MadeInv, MadeIsKnown, FailedDeployLeavesNoNetwork, BeforeRecord

LEMMA UndoneKeepsMade ==
  ASSUME TypeInv, MadeInv, NEW c \in Clients, Undone(c)
  PROVE  MadeInv'
  <1>1. /\ pc[c] = "undo" /\ job[c].created = {} /\ maker' = maker
        /\ pc' = [pc EXCEPT ![c] = "idle"]
        /\ job' = [job EXCEPT ![c] = [IdleJob EXCEPT !.result = "failed", !.kept = job[c].kept]]
    BY DEF Undone, Finish, Step, history
  <1>2. /\ pc'[c] = "idle" /\ job'[c] = [IdleJob EXCEPT !.result = "failed", !.kept = job[c].kept]
        /\ \A d \in Clients \ {c} : pc'[d] = pc[d] /\ job'[d] = job[d]
    BY <1>1 DEF TypeInv, TypeOK
  <1>3. job'[c].kept = job[c].kept
    BY <1>2 DEF IdleJob
  <1>. QED
    BY <1>1, <1>2, <1>3 DEF MadeInv, MadeIsKnown, FailedDeployLeavesNoNetwork, BeforeRecord

LEMMA MadeStep == TypeInv /\ MadeInv /\ [Next]_vars => MadeInv'
  <1>. SUFFICES ASSUME TypeInv, MadeInv, [Next]_vars  PROVE  MadeInv'
    OBVIOUS
  <1>1. ASSUME NEW c \in Clients, Beginning(c)  PROVE  MadeInv'
    BY <1>1, BeginKeepsMade DEF Beginning, Install, Upgrade, Rollback, Uninstall, Prune, BeginDeploy
  <1>2. ASSUME NEW c \in Clients, ReadScopes(c)  PROVE  MadeInv'
    BY <1>2, ReadScopesKeepsMade
  <1>3. ASSUME NEW c \in Clients, CreateNetwork(c)  PROVE  MadeInv'
    BY <1>3, CreateNetworkKeepsMade
  <1>4. ASSUME NEW c \in Clients, NetworksEnsured(c) \/ DeployFails(c)  PROVE  MadeInv'
    <2>1. /\ pc[c] \in BeforeRecord /\ pc'[c] # "idle" /\ job' = job /\ maker' = maker
          /\ \A d \in Clients \ {c} : pc'[d] = pc[d]
      BY <1>4 DEF NetworksEnsured, DeployFails, Step, BeforeRecord, history, TypeInv, TypeOK
    <2>. QED
      BY <2>1 DEF MadeInv, MadeIsKnown, FailedDeployLeavesNoNetwork
  <1>5. ASSUME NEW c \in Clients, UndoNetwork(c)  PROVE  MadeInv'
    BY <1>5, UndoNetworkKeepsMade
  <1>6. ASSUME NEW c \in Clients, Undone(c)  PROVE  MadeInv'
    BY <1>6, UndoneKeepsMade
  <1>7. ASSUME NEW c \in Clients, RefusePreflight(c) \/ RollFails(c) \/ Deleted(c)  PROVE  MadeInv'
    BY <1>7, FinishKeepsMade DEF RefusePreflight, RollFails, Deleted, history
  <1>8. ASSUME NEW c \in Clients, Unrecorded(c)  PROVE  MadeInv'
    BY <1>8, FinishKeepsMade DEF Unrecorded
  <1>9. ASSUME NEW c \in Clients, DeployStack(c) \/ Store(c) \/ StoreCollides(c)  PROVE  MadeInv'
    <2>1. /\ pc'[c] \in {"record", "roll", "reread"} /\ job' = job /\ maker' = maker
          /\ \A d \in Clients \ {c} : pc'[d] = pc[d]
      BY <1>9 DEF DeployStack, Store, StoreCollides, Step, history, TypeInv, TypeOK
    <2>. QED
      BY <2>1 DEF MadeInv, MadeIsKnown, FailedDeployLeavesNoNetwork, BeforeRecord
  <1>10. ASSUME NEW c \in Clients, Reread(c) \/ PruneHistory(c) \/ OrphanedManagedNetworks(c)
         PROVE  MadeInv'
    <2>1. /\ pc'[c] \in {"record", "delete"} /\ maker' = maker
          /\ \A d \in Clients \ {c} : pc'[d] = pc[d] /\ job'[d] = job[d]
      BY <1>10 DEF Reread, PruneHistory, OrphanedManagedNetworks, Step, history, TypeInv, TypeOK
    <2>. QED
      BY <2>1 DEF MadeInv, MadeIsKnown, FailedDeployLeavesNoNetwork, BeforeRecord
  <1>11. ASSUME NEW c \in Clients, RollDone(c)  PROVE  MadeInv'
    <2>1. CASE job[c].keep > 0
      <3>1. /\ pc'[c] = "trim" /\ job' = job /\ maker' = maker
            /\ \A d \in Clients \ {c} : pc'[d] = pc[d]
        BY <1>11, <2>1 DEF RollDone, Step, history, TypeInv, TypeOK
      <3>. QED
        BY <3>1 DEF MadeInv, MadeIsKnown, FailedDeployLeavesNoNetwork, BeforeRecord
    <2>2. CASE ~ (job[c].keep > 0)
      BY <1>11, <2>2, FinishKeepsMade DEF RollDone, history
    <2>. QED
      BY <2>1, <2>2
  <1>12. ASSUME NEW c \in Clients, RemoveStack(c) \/ DeleteConfig(c)  PROVE  MadeInv'
    <2>1. /\ pc'[c] \in {"orphans", "delete"} /\ maker' = maker
          /\ \A d \in Clients \ {c} : pc'[d] = pc[d] /\ job'[d] = job[d]
      BY <1>12 DEF RemoveStack, DeleteConfig, Step, TypeInv, TypeOK
    <2>. QED
      BY <2>1 DEF MadeInv, MadeIsKnown, FailedDeployLeavesNoNetwork, BeforeRecord
  <1>13. ASSUME NEW c \in Clients, Crash(c)  PROVE  MadeInv'
    <2>1. /\ pc'[c] = "idle" /\ job'[c].result = "crashed" /\ maker' = maker
          /\ \A d \in Clients \ {c} : pc'[d] = pc[d] /\ job'[d] = job[d]
      BY <1>13 DEF Crash, IdleJob, TypeInv, TypeOK
    <2>. QED
      BY <2>1 DEF MadeInv, MadeIsKnown, FailedDeployLeavesNoNetwork, BeforeRecord
  <1>14. ASSUME NEW net \in Networks, NetworkRemovedByHand(net)  PROVE  MadeInv'
    <2>1. /\ UNCHANGED <<pc, job>> /\ \A m \in Networks : maker'[m] \in {maker[m], Nobody}
      BY <1>14 DEF NetworkRemovedByHand, TypeInv, TypeOK
    <2>2. Nobody \notin Clients
      BY ConstantsAssumption
    <2>. QED
      BY <2>1, <2>2 DEF MadeInv, MadeIsKnown, FailedDeployLeavesNoNetwork
  <1>15. CASE UNCHANGED vars
    BY <1>15 DEF vars, MadeInv, MadeIsKnown, FailedDeployLeavesNoNetwork
  <1>. QED
    BY <1>1, <1>2, <1>3, <1>4, <1>5, <1>6, <1>7, <1>8, <1>9, <1>10, <1>11, <1>12, <1>13, <1>14, <1>15
       DEF Next, Deploying, Recording, Finishing

\* A failed deploy leaves no trace: whatever it made before it failed, in the
\* pre-flight or after it, and whoever else makes and removes networks meanwhile, is
\* gone when it ends, unless the daemon would not let go of it.
THEOREM NoNetworkLeft == Spec => []FailedDeployLeavesNoNetwork
  <1>1. Init => MadeInv
    BY ConstantsAssumption DEF Init, MadeInv, MadeIsKnown, FailedDeployLeavesNoNetwork
  <1>2. MadeInv => FailedDeployLeavesNoNetwork
    BY DEF MadeInv
  <1>. QED
    BY <1>1, <1>2, TypeInit, TypeStep, MadeStep, PTL DEF Spec

-----------------------------------------------------------------------------
(***************************************************************************)
(* One operation after the other                                           *)
(***************************************************************************)

\* The newest record is the stack, and there is a stack exactly when there is a record.
StackIsNewest ==
  /\ stack = NoStack <=> Revisions = {}
  /\ \A n \in Revisions : (\A m \in Revisions : m <= n) => configs[n].manifest = stack

\* An uninstall at its deletions, which it shares with the prunes, and one that has
\* removed the stack.
Uninstalling(c) == pc[c] \in {"remove", "orphans"} \/ (pc[c] = "delete" /\ job[c].kind = "uninstall")
StackGone(c) == pc[c] # "remove" /\ Uninstalling(c)

\* The stack has changed, and the history is still to follow.
Between(c) == pc[c] \in {"record", "reread"} \/ StackGone(c)

\* What an operation that nobody disturbs knows at each of its points.
AtPoint(c) ==
  /\ pc[c] \notin {"idle", "remove", "orphans", "delete"} => job[c].kind # "uninstall"
  /\ pc[c] \in {"record", "reread"} => stack = job[c].man
  /\ pc[c] \in {"scopes", "create", "deploy", "record"} => \A n \in Revisions : n < job[c].rev
  /\ pc[c] = "delete" /\ job[c].kind # "uninstall" => \A n \in job[c].todoRevs : \E m \in Revisions : n < m
  /\ Uninstalling(c) => Revisions \subseteq job[c].todoRevs
  /\ StackGone(c) => stack = NoStack

Undisturbed ==
  ~disturbed =>
    /\ \A c, d \in Clients : pc[c] # "idle" /\ pc[d] # "idle" => c = d
    /\ (\A c \in Clients : ~Between(c)) => StackIsNewest
    /\ \A c \in Clients : AtPoint(c)

\* While the others idle, the process that runs is all there is to look at.
LEMMA OneRuns ==
  ASSUME NEW c \in Clients, \A d \in Clients \ {c} : pc[d] = "idle",
         AtPoint(c), ~Between(c) => StackIsNewest
  PROVE  Undisturbed
  BY DEF Undisturbed, AtPoint, Between, StackGone, Uninstalling

\* A process that takes a step of an operation runs alone, before and after it.
LEMMA RunsAlone ==
  ASSUME TypeInv, Undisturbed, ~disturbed, NEW c \in Clients, pc[c] # "idle",
         pc' = [pc EXCEPT ![c] = pc'[c]] \/ pc' = pc
  PROVE  /\ \A d \in Clients \ {c} : pc[d] = "idle" /\ pc'[d] = "idle"
         /\ AtPoint(c)
         /\ ~Between(c) => StackIsNewest
  <1>1. \A d \in Clients \ {c} : pc[d] = "idle"
    BY DEF Undisturbed
  <1>2. \A d \in Clients \ {c} : ~Between(d)
    BY <1>1 DEF Between, StackGone, Uninstalling
  <1>. QED
    BY <1>1, <1>2 DEF Undisturbed, TypeInv, TypeOK

LEMMA JobType ==
  ASSUME TypeInv
  PROVE  job \in [Clients -> Jobs]
  BY DEF TypeInv, TypeOK

\* Steps that touch neither the stack nor a config.
LEMMA SwarmStands ==
  ASSUME UNCHANGED <<configs, stack>>
  PROVE  Revisions' = Revisions /\ (StackIsNewest' <=> StackIsNewest)
  BY DEF Revisions, StackIsNewest

LEMMA BeginDeployUndisturbed ==
  ASSUME TypeInv, Undisturbed, ~disturbed', NEW c \in Clients, NEW man, BeginDeploy(c, man)
  PROVE  Undisturbed'
  <1>1. PICK rev \in NextRevisions(Revisions), keep \in Keeps :
          Begin(c, "scopes", [IdleJob EXCEPT !.kind = "deploy", !.man = man, !.rev = rev, !.keep = keep])
    BY DEF BeginDeploy
  <1>2. /\ UNCHANGED <<configs, stack>> /\ ~disturbed
        /\ \A d \in Clients : pc[d] = "idle"
        /\ pc'[c] = "scopes" /\ \A d \in Clients \ {c} : pc'[d] = "idle"
        /\ job'[c].rev = rev /\ job'[c].kind = "deploy"
    BY <1>1 DEF Begin, IdleJob, TypeInv, TypeOK
  <1>3. StackIsNewest
    BY <1>2 DEF Undisturbed, Between, StackGone, Uninstalling
  <1>4. AtPoint(c)'
    BY <1>2, SwarmStands DEF AtPoint, NextRevisions, StackGone, Uninstalling
  <1>. QED
    BY <1>2, <1>3, <1>4, SwarmStands, OneRuns DEF Undisturbed, AtPoint, Between, StackGone, Uninstalling

LEMMA UninstallUndisturbed ==
  ASSUME TypeInv, Undisturbed, ~disturbed', NEW c \in Clients, Uninstall(c)
  PROVE  Undisturbed'
  <1>1. PICK managed : Begin(c, "remove", [IdleJob EXCEPT !.kind = "uninstall", !.todoRevs = Revisions, !.managed = managed])
    BY DEF Uninstall
  <1>2. /\ UNCHANGED <<configs, stack>> /\ ~disturbed
        /\ \A d \in Clients : pc[d] = "idle"
        /\ pc'[c] = "remove" /\ \A d \in Clients \ {c} : pc'[d] = "idle"
        /\ job'[c].todoRevs = Revisions
    BY <1>1 DEF Begin, IdleJob, TypeInv, TypeOK
  <1>3. StackIsNewest
    BY <1>2 DEF Undisturbed, Between, StackGone, Uninstalling
  <1>4. AtPoint(c)'
    BY <1>2, SwarmStands DEF AtPoint, StackGone, Uninstalling
  <1>. QED
    BY <1>2, <1>3, <1>4, SwarmStands, OneRuns DEF Undisturbed, AtPoint, Between, StackGone, Uninstalling

LEMMA PruneUndisturbed ==
  ASSUME TypeInv, Undisturbed, ~disturbed', NEW c \in Clients, Prune(c)
  PROVE  Undisturbed'
  <1>1. PICK keep \in Keeps :
          Begin(c, "delete", [IdleJob EXCEPT !.kind = "prune", !.keep = keep, !.todoRevs = PlanPrune(Revisions, keep)])
    BY DEF Prune
  <1>2. /\ UNCHANGED <<configs, stack>> /\ ~disturbed
        /\ \A d \in Clients : pc[d] = "idle"
        /\ pc'[c] = "delete" /\ \A d \in Clients \ {c} : pc'[d] = "idle"
        /\ job'[c].kind = "prune" /\ job'[c].todoRevs = PlanPrune(Revisions, keep)
    BY <1>1 DEF Begin, IdleJob, TypeInv, TypeOK
  <1>3. StackIsNewest
    BY <1>2 DEF Undisturbed, Between, StackGone, Uninstalling
  <1>4. AtPoint(c)'
    BY <1>2, SwarmStands DEF AtPoint, PlanPrune, StackGone, Uninstalling
  <1>. QED
    BY <1>2, <1>3, <1>4, SwarmStands, OneRuns DEF Undisturbed, AtPoint, Between, StackGone, Uninstalling

\* An operation that ends with history and stack in agreement.
LEMMA EndUndisturbed ==
  ASSUME TypeInv, Undisturbed, ~disturbed', NEW c \in Clients, UNCHANGED <<configs, stack, disturbed>>,
         pc[c] # "idle", pc' = [pc EXCEPT ![c] = "idle"], StackIsNewest
  PROVE  Undisturbed'
  <1>1. /\ ~disturbed /\ \A d \in Clients \ {c} : pc'[d] = "idle"
        /\ pc'[c] = "idle"
    BY RunsAlone DEF TypeInv, TypeOK
  <1>2. AtPoint(c)'
    BY <1>1 DEF AtPoint, StackGone, Uninstalling
  <1>. QED
    BY <1>1, <1>2, SwarmStands, OneRuns DEF Undisturbed, AtPoint, Between, StackGone, Uninstalling

\* The steps of a deploy before anything is deployed, and of one that fails.
LEMMA BeforeDeployUndisturbed ==
  ASSUME TypeInv, Undisturbed, ~disturbed', NEW c \in Clients, UNCHANGED <<configs, stack>>, ~disturbed,
         pc' = [pc EXCEPT ![c] = pc'[c]] \/ pc' = pc,
         \/ pc[c] \in {"scopes", "create", "deploy"} /\ pc'[c] \in {"create", "deploy", "undo"}
         \/ pc[c] = "undo" /\ pc'[c] = "undo",
         job'[c].rev = job[c].rev, job'[c].kind = job[c].kind
  PROVE  Undisturbed'
  <1>1. /\ pc[c] # "idle" /\ ~Between(c) /\ pc'[c] \in {"create", "deploy", "undo"}
    BY DEF Between, StackGone, Uninstalling
  <1>2. /\ \A d \in Clients \ {c} : pc'[d] = "idle"
        /\ AtPoint(c) /\ StackIsNewest
    BY <1>1, RunsAlone
  <1>3. AtPoint(c)'
    BY <1>1, <1>2, SwarmStands DEF AtPoint, StackGone, Uninstalling
  <1>. QED
    BY <1>2, <1>3, SwarmStands, OneRuns DEF Undisturbed, AtPoint, Between, StackGone, Uninstalling

\* The stack runs what the deploy will record.
LEMMA DeployStackUndisturbed ==
  ASSUME TypeInv, Undisturbed, ~disturbed', NEW c \in Clients, DeployStack(c)
  PROVE  Undisturbed'
  <1>1. /\ UNCHANGED <<configs, job>> /\ ~disturbed /\ stack' = job[c].man
        /\ pc[c] = "deploy" /\ pc'[c] = "record" /\ pc' = [pc EXCEPT ![c] = "record"]
    BY DEF DeployStack, Step, history, TypeInv, TypeOK
  <1>2. /\ \A d \in Clients \ {c} : pc'[d] = "idle"
        /\ AtPoint(c)
    BY <1>1, RunsAlone
  <1>3. AtPoint(c)' /\ Between(c)'
    BY <1>1, <1>2 DEF AtPoint, Between, StackGone, Uninstalling, Revisions
  <1>. QED
    BY <1>2, <1>3, OneRuns DEF Undisturbed, AtPoint, Between, StackGone, Uninstalling, StackIsNewest, Revisions

\* The record goes above every other, so that the newest one is what the stack runs.
LEMMA StoreUndisturbed ==
  ASSUME TypeInv, Undisturbed, ~disturbed', NEW c \in Clients, Store(c)
  PROVE  Undisturbed'
  <1>. DEFINE rev == job[c].rev
              slot == [manifest |-> job[c].man, managed |-> job[c].created]
  <1>1. /\ UNCHANGED <<stack, job>> /\ ~disturbed /\ configs' = [configs EXCEPT ![rev] = slot]
        /\ pc[c] = "record" /\ pc'[c] = "roll" /\ pc' = [pc EXCEPT ![c] = "roll"]
        /\ rev \in Revs
    BY DEF Store, Step, TypeInv, TypeOK
  <1>2. /\ \A d \in Clients \ {c} : pc'[d] = "idle"
        /\ AtPoint(c)
    BY <1>1, RunsAlone
  <1>3. stack = job[c].man /\ stack \in Manifests /\ stack # NoStack /\ \A n \in Revisions : n < rev
    BY <1>1, <1>2, ConstantsAssumption DEF AtPoint, TypeInv, DeployPoints
  <1>4. IsRecord(slot)
    <2>1. job[c].created \in SUBSET Networks
      BY DEF TypeInv, TypeOK, Jobs
    <2>. QED
      BY <1>3, <2>1, ConstantsAssumption DEF IsRecord
  <1>5. configs'[rev] = slot /\ \A n \in Revs \ {rev} : configs'[n] = configs[n]
    BY <1>1 DEF TypeInv, TypeOK
  <1>6. Revisions' = Revisions \cup {rev}
    BY <1>1, <1>4, <1>5 DEF Revisions
  <1>7. StackIsNewest'
    <2>1. ASSUME NEW n \in Revisions', \A m \in Revisions' : m <= n
          PROVE  configs'[n].manifest = stack'
      <3>1. n = rev
        BY <1>1, <1>3, <1>6, <2>1, ConstantsAssumption DEF Revisions, Revs
      <3>. QED
        BY <1>1, <1>3, <1>5, <3>1
    <2>. QED
      BY <1>1, <1>3, <1>6, <2>1 DEF StackIsNewest
  <1>8. AtPoint(c)'
    BY <1>1, <1>2 DEF AtPoint, StackGone, Uninstalling
  <1>. QED
    BY <1>2, <1>7, <1>8, OneRuns DEF Undisturbed, AtPoint, Between, StackGone, Uninstalling

\* After a collision, also after a re-read, the stack runs what is still to be recorded.
LEMMA CollisionUndisturbed ==
  ASSUME TypeInv, Undisturbed, ~disturbed', NEW c \in Clients, StoreCollides(c) \/ Reread(c)
  PROVE  Undisturbed'
  <1>1. /\ UNCHANGED <<configs, stack>> /\ ~disturbed
        /\ pc[c] \in {"record", "reread"} /\ pc'[c] \in {"record", "reread"}
        /\ pc' = [pc EXCEPT ![c] = pc'[c]]
        /\ job'[c].man = job[c].man /\ job'[c].kind = job[c].kind
    <2>1. CASE StoreCollides(c)
      BY <2>1 DEF StoreCollides, Step, swarm, history, TypeInv, TypeOK
    <2>2. CASE Reread(c)
      <3>1. PICK rev : job' = [job EXCEPT ![c].rev = rev, ![c].tries = @ + 1]
        BY <2>2 DEF Reread
      <3>2. job'[c].man = job[c].man /\ job'[c].kind = job[c].kind
        BY <3>1, JobType DEF Jobs
      <3>. QED
        BY <2>2, <3>2 DEF Reread, Step, swarm, history, TypeInv, TypeOK
    <2>. QED
      BY <2>1, <2>2
  <1>2. /\ \A d \in Clients \ {c} : pc'[d] = "idle"
        /\ AtPoint(c)
    BY <1>1, RunsAlone
  <1>3. pc'[c] = "record" => \A n \in Revisions : n < job'[c].rev
    <2>1. CASE StoreCollides(c)
      BY <1>1, <2>1 DEF StoreCollides, Step, TypeInv, TypeOK
    <2>2. CASE Reread(c)
      <3>1. PICK rev \in AfterCollision(Revisions, job[c].rev) :
              job' = [job EXCEPT ![c].rev = rev, ![c].tries = @ + 1]
        BY <2>2 DEF Reread
      <3>2. job[c].rev \in Nat /\ Revisions \subseteq Nat
        BY ConstantsAssumption DEF TypeInv, TypeOK, Jobs, Revisions, Revs
      <3>3. PICK next \in NextRevisions(Revisions) : rev = IF next > job[c].rev + 1 THEN next ELSE job[c].rev + 1
        BY <3>1 DEF AfterCollision
      <3>4. next \in Nat /\ \A n \in Revisions : n < next
        BY ConstantsAssumption DEF NextRevisions
      <3>5. \A n \in Revisions : n < rev
        BY <3>2, <3>3, <3>4
      <3>. QED
        BY <3>1, <3>5 DEF TypeInv, TypeOK, Jobs
    <2>. QED
      BY <2>1, <2>2
  <1>4. AtPoint(c)' /\ Between(c)'
    BY <1>1, <1>2, <1>3, SwarmStands DEF AtPoint, Between, StackGone, Uninstalling
  <1>. QED
    BY <1>2, <1>4, OneRuns DEF Undisturbed, AtPoint, Between, StackGone, Uninstalling, StackIsNewest, Revisions

\* A trim plans from what it reads, and spares the newest.
LEMMA TrimUndisturbed ==
  ASSUME TypeInv, Undisturbed, ~disturbed', NEW c \in Clients,
         (RollDone(c) /\ pc'[c] = "trim") \/ (PruneHistory(c) /\ pc'[c] = "delete")
  PROVE  Undisturbed'
  <1>1. /\ UNCHANGED <<configs, stack>> /\ ~disturbed
        /\ pc[c] \in {"roll", "trim"} /\ pc'[c] \in {"trim", "delete"}
        /\ pc' = [pc EXCEPT ![c] = pc'[c]]
    BY DEF RollDone, PruneHistory, Finish, Step, swarm, history, TypeInv, TypeOK
  <1>2. /\ \A d \in Clients \ {c} : pc'[d] = "idle"
        /\ AtPoint(c) /\ StackIsNewest
    BY <1>1, RunsAlone DEF Between, StackGone, Uninstalling
  <1>3. pc'[c] = "delete" => \A n \in job'[c].todoRevs : \E m \in Revisions : n < m
    <2>1. ASSUME pc'[c] = "delete"
          PROVE  job'[c].todoRevs = {} \/ job'[c].todoRevs = PlanPrune(Revisions, job[c].keep)
      BY <2>1 DEF RollDone, PruneHistory, TypeInv, TypeOK, Jobs
    <2>. QED
      BY <2>1 DEF PlanPrune
  <1>4. job'[c].kind = job[c].kind
    <2>1. CASE RollDone(c) /\ pc'[c] = "trim"
      BY <2>1 DEF RollDone, Finish, Step, TypeInv, TypeOK
    <2>2. CASE PruneHistory(c)
      <3>1. PICK doomed : job' = [job EXCEPT ![c].todoRevs = doomed]
        BY <2>2 DEF PruneHistory
      <3>. QED
        BY <3>1, JobType DEF Jobs
    <2>. QED
      BY <2>1, <2>2
  <1>5. job'[c].kind # "uninstall" /\ ~Between(c)'
    BY <1>1, <1>2, <1>4 DEF AtPoint, Between, StackGone, Uninstalling
  <1>6. AtPoint(c)'
    BY <1>1, <1>3, <1>5, SwarmStands DEF AtPoint, StackGone, Uninstalling
  <1>. QED
    BY <1>1, <1>2, <1>5, <1>6, SwarmStands, OneRuns DEF Undisturbed, AtPoint, Between, StackGone, Uninstalling

\* An uninstall that removed the stack still has every record to delete.
LEMMA RemoveUndisturbed ==
  ASSUME TypeInv, UninstallPoints, Undisturbed, ~disturbed', NEW c \in Clients,
         RemoveStack(c) \/ OrphanedManagedNetworks(c)
  PROVE  Undisturbed'
  <1>1. /\ UNCHANGED configs /\ ~disturbed
        /\ pc[c] \in {"remove", "orphans"} /\ pc'[c] \in {"orphans", "delete"}
        /\ pc' = [pc EXCEPT ![c] = pc'[c]]
        /\ stack' = NoStack \/ (pc[c] = "orphans" /\ stack' = stack)
    BY DEF RemoveStack, OrphanedManagedNetworks, Step, swarm, history, TypeInv, TypeOK
  <1>2. job'[c].kind = job[c].kind /\ job'[c].todoRevs = job[c].todoRevs
    <2>1. CASE RemoveStack(c)
      BY <2>1 DEF RemoveStack
    <2>2. CASE OrphanedManagedNetworks(c)
      <3>1. PICK nets : UNCHANGED job \/ job' = [job EXCEPT ![c].managed = nets]
        BY <2>2 DEF OrphanedManagedNetworks
      <3>. QED
        BY <3>1, JobType DEF Jobs
    <2>. QED
      BY <2>1, <2>2
  <1>3. /\ \A d \in Clients \ {c} : pc'[d] = "idle"
        /\ AtPoint(c) /\ job[c].kind = "uninstall"
    BY <1>1, RunsAlone DEF UninstallPoints
  <1>4. AtPoint(c)' /\ Between(c)'
    BY <1>1, <1>2, <1>3 DEF AtPoint, Between, StackGone, Uninstalling, Revisions
  <1>. QED
    BY <1>3, <1>4, OneRuns DEF Undisturbed, AtPoint, Between, StackGone, Uninstalling, StackIsNewest, Revisions

\* Deleting keeps the newest record for a prune, and comes to all of them for an uninstall.
LEMMA DeleteUndisturbed ==
  ASSUME TypeInv, Undisturbed, ~disturbed', NEW c \in Clients, DeleteConfig(c)
  PROVE  Undisturbed'
  <1>a. PICK n \in job[c].todoRevs :
          /\ pc[c] = "delete" /\ UNCHANGED <<pc, stack>>
          /\ \A m \in job[c].todoRevs : n <= m
          /\ job' = [job EXCEPT ![c].todoRevs = @ \ {n}]
          /\ (configs' = [configs EXCEPT ![n] = NoConfig] /\ UNCHANGED disturbed) \/ disturbed' = TRUE
    BY Zenon DEF DeleteConfig
  <1>1. /\ pc[c] = "delete" /\ pc' = pc /\ ~disturbed /\ stack' = stack
        /\ \A m \in job[c].todoRevs : n <= m
        /\ job' = [job EXCEPT ![c].todoRevs = @ \ {n}]
        /\ configs' = [configs EXCEPT ![n] = NoConfig]
    BY <1>a
  <1>2. job'[c].kind = job[c].kind /\ job'[c].todoRevs = job[c].todoRevs \ {n}
    BY <1>1, JobType DEF Jobs
  <1>3. job[c].todoRevs \subseteq Revs /\ Revs \subseteq Nat
    BY JobType, ConstantsAssumption DEF Jobs, Revs
  <1>4. Revisions' = Revisions \ {n} /\ \A m \in Revs \ {n} : configs'[m] = configs[m]
    BY <1>1, <1>3 DEF Revisions, IsRecord, TypeInv, TypeOK
  <1>5. /\ \A d \in Clients \ {c} : pc'[d] = "idle"
        /\ AtPoint(c) /\ (~Between(c) => StackIsNewest)
    BY <1>1, RunsAlone
  <1>6. CASE job[c].kind = "uninstall"
    <2>1. AtPoint(c)' /\ Between(c)'
      BY <1>1, <1>2, <1>4, <1>5, <1>6 DEF AtPoint, Between, StackGone, Uninstalling
    <2>. QED
      BY <1>5, <2>1, OneRuns DEF Undisturbed, AtPoint, Between, StackGone, Uninstalling, StackIsNewest, Revisions
  <1>7. CASE job[c].kind # "uninstall"
    <2>1. StackIsNewest /\ \A k \in job[c].todoRevs : \E m \in Revisions : k < m
      BY <1>1, <1>5, <1>7 DEF AtPoint, Between, StackGone, Uninstalling
    <2>2. \A k \in job'[c].todoRevs : \E m \in Revisions' : k < m
      <3>1. SUFFICES ASSUME NEW k \in job[c].todoRevs \ {n}
                     PROVE  \E m \in Revisions' : k < m
        BY <1>2
      <3>2. PICK m \in Revisions : k < m
        BY <2>1
      <3>3. m # n
        BY <1>1, <1>3, <3>2 DEF Revisions
      <3>. QED
        BY <1>4, <3>2, <3>3
    <2>3. PICK m \in Revisions : n < m
      BY <2>1
    <2>4. m \in Revisions' /\ Revisions \subseteq Nat
      BY <1>1, <1>3, <1>4, <2>3 DEF Revisions
    <2>5. StackIsNewest'
      <3>1. ASSUME NEW k \in Revisions', \A l \in Revisions' : l <= k
            PROVE  configs'[k].manifest = stack'
        <4>1. \A l \in Revisions : l <= k
          BY <1>3, <1>4, <2>3, <2>4, <3>1 DEF Revisions
        <4>2. k \in Revisions /\ configs'[k] = configs[k]
          BY <1>4 DEF Revisions
        <4>. QED
          BY <1>1, <2>1, <4>1, <4>2 DEF StackIsNewest
      <3>2. stack' # NoStack /\ Revisions' # {}
        BY <1>1, <2>1, <2>3, <2>4 DEF StackIsNewest
      <3>. QED
        BY <3>1, <3>2 DEF StackIsNewest
    <2>6. AtPoint(c)'
      BY <1>1, <1>2, <1>7, <2>2 DEF AtPoint, StackGone, Uninstalling
    <2>. QED
      BY <1>5, <2>5, <2>6, OneRuns DEF Undisturbed, AtPoint, Between, StackGone, Uninstalling, StackIsNewest, Revisions
  <1>. QED
    BY <1>6, <1>7

\* An operation that goes on to its end: a refusal, an undo, a deploy, or deletions with
\* nothing left to delete.
LEMMA FinishUndisturbed ==
  ASSUME TypeInv, Undisturbed, ~disturbed', NEW c \in Clients,
         \/ RefusePreflight(c) \/ Undone(c) \/ RollFails(c) \/ Deleted(c)
         \/ (RollDone(c) /\ pc'[c] # "trim")
  PROVE  Undisturbed'
  <1>1. /\ UNCHANGED <<configs, stack, disturbed>>
        /\ pc[c] \in {"scopes", "undo", "roll", "delete"}
        /\ pc' = [pc EXCEPT ![c] = "idle"] /\ pc'[c] = "idle"
        /\ pc[c] = "delete" => job[c].todoRevs = {}
    <2>1. pc \in [Clients -> Points]
      BY DEF TypeInv, TypeOK
    <2>2. CASE RollDone(c) /\ pc'[c] # "trim"
      BY <2>1, <2>2 DEF RollDone, Finish, Step, swarm, history
    <2>3. CASE RefusePreflight(c) \/ Undone(c) \/ RollFails(c) \/ Deleted(c)
      BY <2>1, <2>3 DEF RefusePreflight, Undone, RollFails, Deleted, Finish, Step, swarm, history
    <2>. QED
      BY <2>2, <2>3
  <1>2. ~disturbed /\ AtPoint(c) /\ (~Between(c) => StackIsNewest)
    BY <1>1, RunsAlone
  <1>3. StackIsNewest
    BY <1>1, <1>2 DEF AtPoint, Between, StackGone, Uninstalling, StackIsNewest
  <1>. QED
    BY <1>1, <1>3, EndUndisturbed

LEMMA UndisturbedStep == TypeInv /\ UninstallPoints /\ Undisturbed /\ [Next]_vars => Undisturbed'
  <1>. SUFFICES ASSUME TypeInv, UninstallPoints, Undisturbed, [Next]_vars, ~disturbed'
               PROVE  Undisturbed'
    BY DEF Undisturbed
  <1>1. ASSUME NEW c \in Clients, Install(c) \/ Upgrade(c) \/ Rollback(c)  PROVE  Undisturbed'
    BY <1>1, BeginDeployUndisturbed DEF Install, Upgrade, Rollback
  <1>2. ASSUME NEW c \in Clients, Uninstall(c)  PROVE  Undisturbed'
    BY <1>2, UninstallUndisturbed
  <1>3. ASSUME NEW c \in Clients, Prune(c)  PROVE  Undisturbed'
    BY <1>3, PruneUndisturbed
  <1>4. ASSUME NEW c \in Clients, RefusePreflight(c) \/ Undone(c) \/ RollFails(c) \/ Deleted(c)
        PROVE  Undisturbed'
    BY <1>4, FinishUndisturbed
  <1>5. ASSUME NEW c \in Clients, ReadScopes(c) \/ CreateNetwork(c) \/ NetworksEnsured(c) \/ UndoNetwork(c)
        PROVE  Undisturbed'
    <2>1. job'[c].rev = job[c].rev /\ job'[c].kind = job[c].kind
      <3>1. CASE ReadScopes(c)
        <4>1. PICK s, b : job' = [job EXCEPT ![c].todoNets = s, ![c].bad = b]
          BY <3>1 DEF ReadScopes
        <4>. QED
          BY <4>1, JobType DEF Jobs
      <3>2. CASE CreateNetwork(c)
        <4>1. PICK made, s, b : \/ job' = [job EXCEPT ![c].created = made, ![c].todoNets = s]
                                \/ job' = [job EXCEPT ![c].bad = b, ![c].todoNets = s]
          BY <3>2 DEF CreateNetwork
        <4>. QED
          BY <4>1, JobType DEF Jobs
      <3>3. CASE NetworksEnsured(c)
        BY <3>3 DEF NetworksEnsured
      <3>4. CASE UndoNetwork(c)
        <4>1. PICK made, kept : \/ job' = [job EXCEPT ![c].created = made, ![c].kept = kept]
                                \/ job' = [job EXCEPT ![c].created = made]
          BY <3>4 DEF UndoNetwork
        <4>. QED
          BY <4>1, JobType DEF Jobs
      <3>. QED
        BY <1>5, <3>1, <3>2, <3>3, <3>4
    <2>2. /\ UNCHANGED <<configs, stack, disturbed>>
          /\ pc' = [pc EXCEPT ![c] = pc'[c]] \/ pc' = pc
          /\ \/ pc[c] \in {"scopes", "create", "deploy"} /\ pc'[c] \in {"create", "deploy", "undo"}
             \/ pc[c] = "undo" /\ pc'[c] = "undo"
      BY <1>5 DEF ReadScopes, CreateNetwork, NetworksEnsured, UndoNetwork, Step, swarm, history, TypeInv, TypeOK
    <2>. QED
      BY <2>1, <2>2, BeforeDeployUndisturbed
  <1>6. ASSUME NEW c \in Clients, DeployFails(c)  PROVE  Undisturbed'
    <2>1. /\ UNCHANGED <<configs, stack, disturbed, job>>
          /\ pc' = [pc EXCEPT ![c] = pc'[c]] /\ pc[c] = "deploy" /\ pc'[c] = "undo"
      BY <1>6 DEF DeployFails, Step, TypeInv, TypeOK
    <2>. QED
      BY <2>1, BeforeDeployUndisturbed
  <1>7. ASSUME NEW c \in Clients, DeployStack(c)  PROVE  Undisturbed'
    BY <1>7, DeployStackUndisturbed
  <1>8. ASSUME NEW c \in Clients, Store(c)  PROVE  Undisturbed'
    BY <1>8, StoreUndisturbed
  <1>9. ASSUME NEW c \in Clients, StoreCollides(c) \/ Reread(c)  PROVE  Undisturbed'
    BY <1>9, CollisionUndisturbed
  <1>10. ASSUME NEW c \in Clients, RollDone(c)  PROVE  Undisturbed'
    BY <1>10, TrimUndisturbed, FinishUndisturbed
  <1>11. ASSUME NEW c \in Clients, PruneHistory(c)  PROVE  Undisturbed'
    <2>1. pc'[c] = "delete"
      BY <1>11 DEF PruneHistory, Step, TypeInv, TypeOK
    <2>. QED
      BY <1>11, <2>1, TrimUndisturbed
  <1>12. ASSUME NEW c \in Clients, RemoveStack(c) \/ OrphanedManagedNetworks(c)  PROVE  Undisturbed'
    BY <1>12, RemoveUndisturbed
  <1>13. ASSUME NEW c \in Clients, DeleteConfig(c)  PROVE  Undisturbed'
    BY <1>13, DeleteUndisturbed
  <1>14. ASSUME NEW c \in Clients, Unrecorded(c) \/ Crash(c)  PROVE  Undisturbed'
    BY <1>14 DEF Unrecorded, Crash
  <1>15. CASE UNCHANGED <<configs, stack, pc, job, disturbed>>
    BY <1>15 DEF Undisturbed, AtPoint, Between, StackGone, Uninstalling, StackIsNewest, Revisions
  <1>16. (\E net \in Networks : NetworkRemovedByHand(net)) \/ UNCHANGED vars
           => UNCHANGED <<configs, stack, pc, job, disturbed>>
    BY DEF NetworkRemovedByHand, vars
  <1>. QED
    BY <1>1, <1>2, <1>3, <1>4, <1>5, <1>6, <1>7, <1>8, <1>9, <1>10, <1>11, <1>12, <1>13, <1>14, <1>15, <1>16
       DEF Next, Beginning, Deploying, Recording, Finishing

\* "The revision is what the swarm now runs": operations that follow one another, however
\* many, of whichever processes, and of which none died or failed half-way, leave the
\* newest record telling what the stack is.
THEOREM SerialHistory == Spec => []SerialHistoryMatchesStack
  <1>1. Init => Undisturbed /\ UninstallPoints
    BY DEF Init, IdleJob, Undisturbed, UninstallPoints, AtPoint, Between, StackGone, Uninstalling, StackIsNewest, Revisions, IsRecord
  <1>2. Undisturbed => SerialHistoryMatchesStack
    BY DEF Undisturbed, SerialHistoryMatchesStack, StackIsNewest, Between, StackGone, Uninstalling
  <1>. QED
    BY <1>1, <1>2, TypeInit, TypeStep, UninstallPointsStep, UndisturbedStep, PTL DEF Spec

-----------------------------------------------------------------------------
(***************************************************************************)
(* The elements of a finite set of numbers, by their rank                  *)
(***************************************************************************)
Rank(R, n) == Cardinality({m \in R : m <= n})
Nth(R, i) == CHOOSE n \in R : Rank(R, n) = i

LEMMA RankType ==
  ASSUME NEW R \in SUBSET Nat, IsFiniteSet(R), NEW n \in Nat
  PROVE  /\ IsFiniteSet({m \in R : m <= n})
         /\ Rank(R, n) \in Nat /\ Cardinality(R) \in Nat
         /\ Rank(R, n) <= Cardinality(R)
         /\ n \in R => Rank(R, n) >= 1
  <1>. DEFINE S == {m \in R : m <= n}
  <1>1. /\ IsFiniteSet(S) /\ Cardinality(S) <= Cardinality(R)
        /\ Cardinality(S) \in Nat /\ Cardinality(R) \in Nat
    BY FS_Subset, FS_CardinalityType
  <1>2. ASSUME n \in R  PROVE  Cardinality(S) # 0
    <2>1. n \in S
      BY <1>2
    <2>. QED
      BY <1>1, <2>1, FS_EmptySet
  <1>. QED
    BY <1>1, <1>2 DEF Rank

\* The rank grows with the number, and strictly up to one that is in the set.
LEMMA RankGrows ==
  ASSUME NEW R \in SUBSET Nat, IsFiniteSet(R), NEW m \in Nat, NEW n \in Nat, m <= n
  PROVE  /\ Rank(R, m) <= Rank(R, n)
         /\ n \in R /\ m # n => Rank(R, m) < Rank(R, n)
  <1>. DEFINE S == {k \in R : k <= m}
              T == {k \in R : k <= n}
  <1>1. S \in SUBSET T
    <2>1. ASSUME NEW k \in S  PROVE  k \in T
      <3>1. k \in R /\ k \in Nat /\ k <= m
        OBVIOUS
      <3>. QED
        BY <3>1
    <2>. QED
      BY <2>1
  <1>2. IsFiniteSet(T) /\ Cardinality(S) \in Nat /\ Cardinality(T) \in Nat
    BY RankType DEF Rank
  <1>3. /\ Cardinality(S) <= Cardinality(T)
        /\ Cardinality(T) = Cardinality(S) => T = S
    BY <1>1, <1>2, FS_Subset
  <1>4. n \in R /\ m # n => T # S
    <2>1. n \in R /\ m # n => n \in T /\ n \notin S
      OBVIOUS
    <2>. QED
      BY <2>1
  <1>. QED
    BY <1>2, <1>3, <1>4 DEF Rank

\* Each element has a rank of its own, and each rank an element.
LEMMA NthOfRank ==
  ASSUME NEW R \in SUBSET Nat, IsFiniteSet(R)
  PROVE  /\ \A n \in R : Rank(R, n) \in 1..Cardinality(R) /\ Nth(R, Rank(R, n)) = n
         /\ \A i \in 1..Cardinality(R) : Nth(R, i) \in R /\ Rank(R, Nth(R, i)) = i
  <1>. DEFINE N == Cardinality(R)
              f == [n \in R |-> Rank(R, n)]
  <1>1. N \in Nat
    BY FS_CardinalityType
  <1>2. \A n \in R : Rank(R, n) \in 1..N
    <2>1. SUFFICES ASSUME NEW n \in R
                   PROVE  Rank(R, n) \in 1..N
      OBVIOUS
    <2>2. n \in Nat
      OBVIOUS
    <2>3. Rank(R, n) \in Nat /\ Rank(R, n) <= N /\ Rank(R, n) >= 1
      BY <2>2, RankType
    <2>. QED
      BY <1>1, <2>3
  <1>3. \A m, n \in R : Rank(R, m) = Rank(R, n) => m = n
    <2>1. SUFFICES ASSUME NEW m \in R, NEW n \in R, m < n
                   PROVE  Rank(R, m) # Rank(R, n)
      OBVIOUS
    <2>2. m \in Nat /\ n \in Nat /\ m <= n /\ m # n
      BY <2>1
    <2>3. Rank(R, m) < Rank(R, n) /\ Rank(R, m) \in Nat /\ Rank(R, n) \in Nat
      BY <2>2, RankGrows, RankType
    <2>. QED
      BY <2>3
  <1>4. f \in Injection(R, 1..N)
    BY <1>2, <1>3 DEF Injection, IsInjective
  <1>5. IsFiniteSet(1..N) /\ Cardinality(1..N) = N
    BY <1>1, FS_Interval
  <1>6. f \in Surjection(R, 1..N)
    BY <1>4, <1>5, FS_Injection
  <1>7. \A i \in 1..N : \E n \in R : Rank(R, n) = i
    BY <1>6 DEF Surjection
  <1>8. \A i \in 1..N : Nth(R, i) \in R /\ Rank(R, Nth(R, i)) = i
    BY <1>7 DEF Nth
  <1>. QED
    BY <1>2, <1>3, <1>8

\* What a further element does to the ranks ...
LEMMA RankWithOneMore ==
  ASSUME NEW R \in SUBSET Nat, IsFiniteSet(R), NEW r \in Nat \ R, NEW n \in Nat
  PROVE  /\ n < r => Rank(R \cup {r}, n) = Rank(R, n)
         /\ n >= r => Rank(R \cup {r}, n) = Rank(R, n) + 1
  <1>. DEFINE S == {m \in R : m <= n}
              T == {m \in R \cup {r} : m <= n}
  <1>1. IsFiniteSet(S)
    BY RankType
  <1>2. n < r => T = S
    OBVIOUS
  <1>3. n >= r => T = S \cup {r} /\ r \notin S
    OBVIOUS
  <1>. QED
    BY <1>1, <1>2, <1>3, FS_AddElement DEF Rank

\* ... and to the elements of each rank: those from its own on move up by one.
LEMMA NthWithOneMore ==
  ASSUME NEW R \in SUBSET Nat, IsFiniteSet(R), NEW r \in Nat \ R,
         NEW j \in 1..(Cardinality(R) + 1)
  PROVE  Nth(R \cup {r}, j) = IF j <= Rank(R, r) THEN Nth(R, j)
                              ELSE IF j = Rank(R, r) + 1 THEN r ELSE Nth(R, j - 1)
  <1>. DEFINE Q == R \cup {r}
              i == Rank(R, r)
              N == Cardinality(R)
  <1>1. Q \in SUBSET Nat /\ IsFiniteSet(Q)
    BY FS_AddElement
  <1>2. i \in Nat /\ N \in Nat /\ i <= N
    BY RankType
  <1>3. CASE j <= i
    <2>0. j \in 1..N
      BY <1>2, <1>3
    <2>1. PICK n \in R : n = Nth(R, j) /\ Rank(R, n) = j
      BY <2>0, NthOfRank
    <2>2. n \in Nat /\ n # r
      OBVIOUS
    <2>3. n < r
      <3>1. r <= n => i < Rank(R, n)
        BY <2>2, RankGrows
      <3>. QED
        BY <1>2, <1>3, <2>1, <2>2, <3>1
    <2>4. Rank(Q, n) = j
      BY <2>1, <2>2, <2>3, RankWithOneMore
    <2>5. Nth(Q, j) = n
      BY <1>1, <2>4, NthOfRank
    <2>. QED
      BY <1>3, <2>1, <2>5
  <1>4. CASE j = i + 1
    <2>1. Rank(Q, r) = j
      BY <1>4, RankWithOneMore
    <2>. QED
      BY <1>1, <1>2, <1>4, <2>1, NthOfRank
  <1>5. CASE j > i + 1
    <2>0. j - 1 \in 1..N
      BY <1>2, <1>5
    <2>1. PICK n \in R : n = Nth(R, j - 1) /\ Rank(R, n) = j - 1
      BY <2>0, NthOfRank
    <2>2. n \in Nat /\ n # r
      OBVIOUS
    <2>3. r <= n
      <3>1. n <= r => Rank(R, n) <= i
        BY <2>2, RankGrows
      <3>. QED
        BY <1>2, <1>5, <2>1, <2>2, <3>1
    <2>4. Rank(Q, n) = j
      BY <1>2, <2>1, <2>2, <2>3, RankWithOneMore
    <2>5. Nth(Q, j) = n
      BY <1>1, <2>4, NthOfRank
    <2>. QED
      BY <1>2, <1>5, <2>1, <2>5
  <1>. QED
    BY <1>2, <1>3, <1>4, <1>5

-----------------------------------------------------------------------------
(***************************************************************************)
(* Sequences with one element more and one less                            *)
(***************************************************************************)
LEMMA Joined ==
  ASSUME NEW S, NEW pre \in Seq(S), NEW post \in Seq(S), NEW new \in Seq(S),
         Len(new) = Len(pre) + Len(post),
         \A j \in 1..Len(pre) : new[j] = pre[j],
         \A j \in 1..Len(post) : new[Len(pre) + j] = post[j]
  PROVE  pre \o post = new
  <1>1. Len(pre) \in Nat /\ Len(post) \in Nat
    OBVIOUS
  <1>2. /\ pre \o post \in Seq(S) /\ Len(pre \o post) = Len(new)
        /\ \A j \in 1..Len(new) : (pre \o post)[j] = IF j <= Len(pre) THEN pre[j] ELSE post[j - Len(pre)]
    BY <1>1, ConcatProperties
  <1>3. ASSUME NEW j \in 1..Len(new)  PROVE  (pre \o post)[j] = new[j]
    <2>1. CASE j <= Len(pre)
      BY <1>1, <1>2, <2>1
    <2>2. CASE j > Len(pre)
      <3>1. j - Len(pre) \in 1..Len(post) /\ j = Len(pre) + (j - Len(pre))
        BY <1>1, <2>2
      <3>2. new[j] = post[j - Len(pre)]
        BY <3>1
      <3>3. (pre \o post)[j] = post[j - Len(pre)]
        BY <1>1, <1>2, <2>2
      <3>. QED
        BY <3>2, <3>3
    <2>. QED
      BY <1>1, <2>1, <2>2
  <1>. QED
    BY <1>2, <1>3, SeqEqual

LEMMA Inserted ==
  ASSUME NEW S, NEW s \in Seq(S), NEW i \in 1..(Len(s) + 1), NEW e \in S, NEW new \in Seq(S),
         Len(new) = Len(s) + 1, new[i] = e,
         \A j \in 1..(i - 1) : new[j] = s[j],
         \A j \in i..Len(s) : new[j + 1] = s[j]
  PROVE  new = Log!InsertAt(s, i, e)
  <1>1. Len(s) \in Nat /\ i \in Nat
    OBVIOUS
  <1>2a. /\ SubSeq(s, 1, i - 1) \in Seq(S) /\ Len(SubSeq(s, 1, i - 1)) = i - 1
         /\ \A j \in 1..(i - 1) : SubSeq(s, 1, i - 1)[j] = s[j]
    OBVIOUS
  <1>2. PICK pre \in Seq(S) : /\ pre = SubSeq(s, 1, i - 1) /\ Len(pre) = i - 1
                                /\ \A j \in 1..(i - 1) : pre[j] = s[j]
    BY <1>2a
  <1>3a. /\ SubSeq(s, i, Len(s)) \in Seq(S) /\ Len(SubSeq(s, i, Len(s))) = Len(s) - i + 1
         /\ \A j \in 1..(Len(s) - i + 1) : SubSeq(s, i, Len(s))[j] = s[i + j - 1]
    OBVIOUS
  <1>3. PICK post \in Seq(S) : /\ post = SubSeq(s, i, Len(s)) /\ Len(post) = Len(s) - i + 1
                                /\ \A j \in 1..(Len(s) - i + 1) : post[j] = s[i + j - 1]
    BY <1>3a
  <1>2b. Len(pre) = i - 1 /\ \A j \in 1..(i - 1) : pre[j] = s[j]
    BY <1>2
  <1>3b. Len(post) = Len(s) - i + 1
    BY <1>3
  <1>4a. /\ pre \o <<e>> \in Seq(S) /\ Len(pre \o <<e>>) = i
         /\ \A j \in 1..i : (pre \o <<e>>)[j] = IF j < i THEN s[j] ELSE e
    <2>1. <<e>> \in Seq(S) /\ Len(<<e>>) = 1 /\ <<e>>[1] = e
      OBVIOUS
    <2>2. /\ pre \o <<e>> \in Seq(S) /\ Len(pre \o <<e>>) = Len(pre) + 1
          /\ \A j \in 1..(Len(pre) + 1) :
               (pre \o <<e>>)[j] = IF j <= Len(pre) THEN pre[j] ELSE <<e>>[j - Len(pre)]
      BY <2>1, ConcatProperties
    <2>3. Len(pre \o <<e>>) = i
      BY <1>1, <1>2b, <2>2
    <2>4. ASSUME NEW j \in 1..i
          PROVE  (pre \o <<e>>)[j] = IF j < i THEN s[j] ELSE e
      <3>1. (pre \o <<e>>)[j] = IF j <= i - 1 THEN pre[j] ELSE <<e>>[j - (i - 1)]
        BY <1>1, <1>2b, <2>2
      <3>2. CASE j = i
        <4>1. ~(j <= i - 1) /\ ~(j < i) /\ j - (i - 1) = 1
          BY <1>1, <3>2
        <4>. QED
          BY <2>1, <3>1, <4>1
      <3>3. CASE j # i
        <4>1. j <= i - 1 /\ j < i /\ j \in 1..(i - 1)
          BY <1>1, <3>3
        <4>. QED
          BY <1>2b, <3>1, <4>1
      <3>. QED
        BY <3>2, <3>3
    <2>. QED
      BY <2>2, <2>3, <2>4
  <1>4. PICK front \in Seq(S) : /\ front = pre \o <<e>> /\ Len(front) = i
                                /\ \A j \in 1..i : front[j] = IF j < i THEN s[j] ELSE e
    BY <1>4a
  <1>5. \A j \in 1..Len(front) : new[j] = front[j]
    BY <1>1, <1>4
  <1>6. ASSUME NEW j \in 1..Len(post)  PROVE  new[Len(front) + j] = post[j]
    <2>1. PICK k \in i..Len(s) : k = i + j - 1 /\ i + j = k + 1
      BY <1>1, <1>3
    <2>. QED
      BY <1>1, <1>3, <1>4, <2>1
  <1>4b. Len(front) = i
    BY <1>4
  <1>7. Len(new) = Len(front) + Len(post)
    BY <1>1, <1>3b, <1>4b
  <1>8. front \o post = new
    BY <1>5, <1>6, <1>7, Joined
  <1>. QED
    BY <1>2, <1>3, <1>4, <1>8 DEF Log!InsertAt

LEMMA Removed ==
  ASSUME NEW S, NEW s \in Seq(S), NEW i \in 1..Len(s), NEW new \in Seq(S),
         Len(new) = Len(s) - 1,
         \A j \in 1..(i - 1) : new[j] = s[j],
         \A j \in i..(Len(s) - 1) : new[j] = s[j + 1]
  PROVE  new = Log!RemoveAt(s, i)
  <1>1. Len(s) \in Nat /\ i \in Nat
    OBVIOUS
  <1>2a. /\ SubSeq(s, 1, i - 1) \in Seq(S) /\ Len(SubSeq(s, 1, i - 1)) = i - 1
         /\ \A j \in 1..(i - 1) : SubSeq(s, 1, i - 1)[j] = s[j]
    OBVIOUS
  <1>2. PICK pre \in Seq(S) : /\ pre = SubSeq(s, 1, i - 1) /\ Len(pre) = i - 1
                                /\ \A j \in 1..(i - 1) : pre[j] = s[j]
    BY <1>2a
  <1>3a. /\ SubSeq(s, i + 1, Len(s)) \in Seq(S) /\ Len(SubSeq(s, i + 1, Len(s))) = Len(s) - i
         /\ \A j \in 1..(Len(s) - i) : SubSeq(s, i + 1, Len(s))[j] = s[i + j]
    OBVIOUS
  <1>3. PICK post \in Seq(S) : /\ post = SubSeq(s, i + 1, Len(s)) /\ Len(post) = Len(s) - i
                                /\ \A j \in 1..(Len(s) - i) : post[j] = s[i + j]
    BY <1>3a
  <1>4. \A j \in 1..Len(pre) : new[j] = pre[j]
    BY <1>1, <1>2
  <1>5. ASSUME NEW j \in 1..Len(post)  PROVE  new[Len(pre) + j] = post[j]
    <2>1. Len(pre) + j \in i..(Len(s) - 1) /\ (Len(pre) + j) + 1 = i + j /\ j \in 1..(Len(s) - i)
      BY <1>1, <1>2, <1>3
    <2>2. new[Len(pre) + j] = s[(Len(pre) + j) + 1]
      BY <2>1
    <2>. QED
      BY <1>3, <2>1, <2>2
  <1>2b. Len(pre) = i - 1
    BY <1>2
  <1>3b. Len(post) = Len(s) - i
    BY <1>3
  <1>6. Len(new) = Len(pre) + Len(post)
    BY <1>1, <1>2b, <1>3b
  <1>7. pre \o post = new
    BY <1>4, <1>5, <1>6, Joined
  <1>. QED
    BY <1>2, <1>3, <1>7 DEF Log!RemoveAt

-----------------------------------------------------------------------------
(***************************************************************************)
(* The log that a set of configs holds                                     *)
(***************************************************************************)
RecordsOf(cs) == {n \in Revs : IsRecord(cs[n])}
ManifestsOf(cs) ==
  [i \in 1..Cardinality(RecordsOf(cs)) |-> cs[Nth(RecordsOf(cs), i)].manifest]

\* It is the log of the refinement mapping, before a step and after it.
LEMMA LogIsManifestsOf ==
  /\ Revisions = RecordsOf(configs) /\ StoredManifests = ManifestsOf(configs)
  /\ Revisions' = RecordsOf(configs') /\ StoredManifests' = ManifestsOf(configs')
  BY DEF Revisions, RecordsOf, StoredManifests, ManifestsOf, Nth, Rank

\* The log is a sequence of manifests, one for each record.
LEMMA ManifestsOfType ==
  ASSUME NEW cs \in [Revs -> Slots]
  PROVE  /\ RecordsOf(cs) \in SUBSET Nat /\ RecordsOf(cs) \in SUBSET Revs
         /\ IsFiniteSet(RecordsOf(cs))
         /\ Cardinality(RecordsOf(cs)) \in Nat
         /\ ManifestsOf(cs) \in Seq(Manifests)
         /\ Len(ManifestsOf(cs)) = Cardinality(RecordsOf(cs))
         /\ \A i \in 1..Cardinality(RecordsOf(cs)) :
              ManifestsOf(cs)[i] = cs[Nth(RecordsOf(cs), i)].manifest
  <1>. DEFINE R == RecordsOf(cs)
              N == Cardinality(R)
  <1>1. R \in SUBSET Revs /\ R \in SUBSET Nat
    BY ConstantsAssumption DEF RecordsOf, Revs
  <1>2. IsFiniteSet(R) /\ N \in Nat
    <2>1. IsFiniteSet(Revs)
      BY ConstantsAssumption, FS_Interval DEF Revs
    <2>. QED
      BY <1>1, <2>1, FS_Subset, FS_CardinalityType
  <1>3. ASSUME NEW i \in 1..N  PROVE  cs[Nth(R, i)].manifest \in Manifests
    <2>1. Nth(R, i) \in R
      BY <1>1, <1>2, NthOfRank
    <2>. QED
      BY <2>1 DEF RecordsOf, IsRecord, Slots
  <1>4. ManifestsOf(cs) \in [1..N -> Manifests]
    BY <1>3 DEF ManifestsOf
  <1>5. ManifestsOf(cs) \in Seq(Manifests) /\ Len(ManifestsOf(cs)) = N
    BY <1>2, <1>4
  <1>. QED
    BY <1>1, <1>2, <1>5 DEF ManifestsOf

\* A config that becomes a record adds its manifest at the record's rank.
LEMMA OneMoreRecord ==
  ASSUME NEW cs \in [Revs -> Slots], NEW ds \in [Revs -> Slots], NEW r \in Revs,
         ~IsRecord(cs[r]), IsRecord(ds[r]),
         \A n \in Revs \ {r} : ds[n] = cs[n]
  PROVE  /\ Rank(RecordsOf(cs), r) \in 0..Len(ManifestsOf(cs))
         /\ ManifestsOf(ds) =
              Log!InsertAt(ManifestsOf(cs), Rank(RecordsOf(cs), r) + 1, ds[r].manifest)
  <1>. DEFINE R == RecordsOf(cs)
              Q == RecordsOf(ds)
              N == Cardinality(R)
              i == Rank(R, r) + 1
              s == ManifestsOf(cs)
              new == ManifestsOf(ds)
              e == ds[r].manifest
  <1>1. Q = R \cup {r} /\ r \notin R
    BY DEF RecordsOf
  <1>2. /\ R \in SUBSET Nat /\ R \in SUBSET Revs /\ IsFiniteSet(R) /\ N \in Nat
        /\ s \in Seq(Manifests) /\ Len(s) = N
        /\ \A j \in 1..N : s[j] = cs[Nth(R, j)].manifest
    BY ManifestsOfType
  <1>3. Cardinality(Q) = N + 1
    BY <1>1, <1>2, FS_AddElement
  <1>4. /\ new \in Seq(Manifests) /\ Len(new) = N + 1
        /\ \A j \in 1..(N + 1) : new[j] = ds[Nth(Q, j)].manifest
    BY <1>3, ManifestsOfType
  <1>5. r \in Nat \ R
    BY <1>1, ConstantsAssumption DEF Revs
  <1>6. Rank(R, r) \in 0..N /\ i \in 1..(N + 1) /\ i \in Nat
    <2>1. Rank(R, r) \in Nat /\ Rank(R, r) <= N
      BY <1>2, <1>5, RankType
    <2>. QED
      BY <1>2, <2>1
  <1>7. e \in Manifests
    BY DEF IsRecord, Slots
  <1>8. \A j \in 1..(N + 1) : Nth(Q, j) = IF j <= Rank(R, r) THEN Nth(R, j)
                                          ELSE IF j = Rank(R, r) + 1 THEN r ELSE Nth(R, j - 1)
    BY <1>1, <1>2, <1>5, NthWithOneMore
  <1>9. ASSUME NEW j \in 1..N  PROVE  ds[Nth(R, j)] = cs[Nth(R, j)]
    <2>1. Nth(R, j) \in R
      BY <1>2, NthOfRank
    <2>. QED
      BY <1>1, <1>2, <2>1
  <1>10. new[i] = e
    <2>1. Nth(Q, i) = r
      BY <1>6, <1>8
    <2>. QED
      BY <1>4, <1>6, <2>1
  <1>11. ASSUME NEW j \in 1..(i - 1)  PROVE  new[j] = s[j]
    <2>1. j \in 1..N /\ j \in 1..(N + 1) /\ j <= Rank(R, r)
      BY <1>2, <1>6
    <2>2. Nth(Q, j) = Nth(R, j)
      BY <1>8, <2>1
    <2>. QED
      BY <1>2, <1>4, <1>9, <2>1, <2>2
  <1>12. ASSUME NEW j \in i..N  PROVE  new[j + 1] = s[j]
    <2>1. j \in 1..N /\ j + 1 \in 1..(N + 1) /\ ~(j + 1 <= Rank(R, r)) /\ j + 1 # Rank(R, r) + 1
          /\ (j + 1) - 1 = j
      BY <1>2, <1>6
    <2>2. Nth(Q, j + 1) = Nth(R, j)
      BY <1>8, <2>1
    <2>. QED
      BY <1>2, <1>4, <1>9, <2>1, <2>2
  <1>13. new = Log!InsertAt(s, i, e)
    <2>. HIDE DEF i, s, new, e, N
    <2>. QED
      BY <1>2, <1>4, <1>6, <1>7, <1>10, <1>11, <1>12, Inserted
  <1>. QED
    BY <1>2, <1>6, <1>13

\* A record that is deleted takes its manifest out at the record's rank.
LEMMA OneRecordLess ==
  ASSUME NEW cs \in [Revs -> Slots], NEW ds \in [Revs -> Slots], NEW r \in Revs,
         IsRecord(cs[r]), ~IsRecord(ds[r]),
         \A n \in Revs \ {r} : ds[n] = cs[n]
  PROVE  /\ Rank(RecordsOf(cs), r) \in 1..Len(ManifestsOf(cs))
         /\ ManifestsOf(ds) = Log!RemoveAt(ManifestsOf(cs), Rank(RecordsOf(cs), r))
  <1>. DEFINE R == RecordsOf(cs)
              Q == RecordsOf(ds)
              N == Cardinality(Q)
              i == Rank(R, r)
              s == ManifestsOf(cs)
              new == ManifestsOf(ds)
  <1>1. R = Q \cup {r} /\ r \notin Q
    BY DEF RecordsOf
  <1>2. /\ Q \in SUBSET Nat /\ Q \in SUBSET Revs /\ IsFiniteSet(Q) /\ N \in Nat
        /\ new \in Seq(Manifests) /\ Len(new) = N
        /\ \A j \in 1..N : new[j] = ds[Nth(Q, j)].manifest
    BY ManifestsOfType
  <1>3. Cardinality(R) = N + 1
    BY <1>1, <1>2, FS_AddElement
  <1>4. /\ s \in Seq(Manifests) /\ Len(s) = N + 1
        /\ \A j \in 1..(N + 1) : s[j] = cs[Nth(R, j)].manifest
    BY <1>3, ManifestsOfType
  <1>5. r \in Nat \ Q
    BY <1>1, ConstantsAssumption DEF Revs
  <1>6. Rank(Q, r) \in 0..N /\ i = Rank(Q, r) + 1
    <2>1. Rank(Q, r) \in Nat /\ Rank(Q, r) <= N
      BY <1>2, <1>5, RankType
    <2>2. i = Rank(Q, r) + 1
      BY <1>1, <1>2, <1>5, RankWithOneMore
    <2>. QED
      BY <1>2, <2>1, <2>2
  <1>8. \A j \in 1..(N + 1) : Nth(R, j) = IF j <= Rank(Q, r) THEN Nth(Q, j)
                                          ELSE IF j = Rank(Q, r) + 1 THEN r ELSE Nth(Q, j - 1)
    BY <1>1, <1>2, <1>5, NthWithOneMore
  <1>9. ASSUME NEW j \in 1..N  PROVE  ds[Nth(Q, j)] = cs[Nth(Q, j)]
    <2>1. Nth(Q, j) \in Q
      BY <1>2, NthOfRank
    <2>. QED
      BY <1>1, <1>2, <2>1
  <1>10. i \in Nat /\ i \in 1..(N + 1)
    BY <1>2, <1>6
  <1>11. ASSUME NEW j \in 1..(i - 1)  PROVE  new[j] = s[j]
    <2>1. j \in 1..N /\ j \in 1..(N + 1) /\ j <= Rank(Q, r)
      BY <1>2, <1>6
    <2>2. Nth(R, j) = Nth(Q, j)
      BY <1>8, <2>1
    <2>. QED
      BY <1>2, <1>4, <1>9, <2>1, <2>2
  <1>12. ASSUME NEW j \in i..N  PROVE  new[j] = s[j + 1]
    <2>1. j \in 1..N /\ j + 1 \in 1..(N + 1) /\ ~(j + 1 <= Rank(Q, r)) /\ j + 1 # Rank(Q, r) + 1
          /\ (j + 1) - 1 = j
      BY <1>2, <1>6, <1>10
    <2>2. Nth(R, j + 1) = Nth(Q, j)
      BY <1>8, <2>1
    <2>. QED
      BY <1>2, <1>4, <1>9, <2>1, <2>2
  <1>13. new = Log!RemoveAt(s, i)
    <2>. HIDE DEF i, s, new, N
    <2>1. i \in 1..Len(s) /\ Len(new) = Len(s) - 1 /\ Len(s) - 1 = N
      BY <1>2, <1>4, <1>10
    <2>. QED
      BY <1>2, <1>4, <1>11, <1>12, <2>1, Removed
  <1>. QED
    BY <1>4, <1>10, <1>13

-----------------------------------------------------------------------------
(***************************************************************************)
(* The steps of the engine, one by one                                     *)
(***************************************************************************)

\* A stored revision is an entry of the log, and the last one as long as
\* nothing has been deleted.
LEMMA StoreRecords ==
  ASSUME TypeInv, TypeInv', NamesTakenBelow, NEW c \in Clients, Store(c)
  PROVE  \E man \in Manifests : Log!Record(man)
  <1>. DEFINE r == job[c].rev
              R == RecordsOf(configs)
              man == configs'[r].manifest
              i == Rank(R, r) + 1
  <1>1. /\ configs \in [Revs -> Slots] /\ configs' \in [Revs -> Slots]
        /\ job[c].man \in Manifests /\ r \in Revs
    BY DEF TypeInv, TypeOK, Store, Step, DeployPoints
  <1>2. /\ configs[r] = NoConfig /\ ~IsRecord(configs[r])
        /\ configs'[r] = [manifest |-> job[c].man, managed |-> job[c].created]
        /\ \A n \in Revs \ {r} : configs'[n] = configs[n]
    BY <1>1 DEF Store, IsRecord
  <1>3. IsRecord(configs'[r]) /\ man = job[c].man
    <2>1. job[c].created \in SUBSET Networks
      BY DEF TypeInv, TypeOK, Jobs
    <2>. QED
      BY <1>1, <1>2, <2>1, ConstantsAssumption DEF IsRecord
  <1>4. /\ Rank(R, r) \in 0..Len(ManifestsOf(configs))
        /\ ManifestsOf(configs') = Log!InsertAt(ManifestsOf(configs), i, man)
    BY <1>1, <1>2, <1>3, OneMoreRecord
  <1>5. /\ R \in SUBSET Nat /\ R \in SUBSET Revs /\ IsFiniteSet(R)
        /\ Cardinality(R) \in Nat /\ Len(ManifestsOf(configs)) = Cardinality(R)
    BY <1>1, ManifestsOfType
  <1>6. ASSUME ~trimmed  PROVE  i = Len(ManifestsOf(configs)) + 1
    <2>1. ASSUME NEW m \in R  PROVE  m <= r
      <3>1. IsRecord(configs[m]) /\ m \in Revisions /\ m \in Nat /\ r \in Nat
        BY <1>5, <1>1, ConstantsAssumption DEF RecordsOf, Revisions, Revs
      <3>2. ~(r < m)
        BY <1>1, <1>2, <1>6, <3>1 DEF NamesTakenBelow
      <3>. QED
        BY <3>1, <3>2
    <2>2. {m \in R : m <= r} = R
      BY <2>1
    <2>. QED
      BY <1>5, <2>2 DEF Rank
  <1>7. UNCHANGED trimmed
    BY DEF Store
  <1>8. i \in 1..(Len(ManifestsOf(configs)) + 1)
    BY <1>4, <1>5
  <1>9. /\ i \in 1..(Len(StoredManifests) + 1)
        /\ ~trimmed => i = Len(StoredManifests) + 1
        /\ StoredManifests' = Log!InsertAt(StoredManifests, i, man)
    BY <1>4, <1>6, <1>8, LogIsManifestsOf
  <1>10. Log!Record(man)
    <2>. HIDE DEF i, man
    <2>. QED
      BY <1>7, <1>9 DEF Log!Record
  <1>. QED
    BY <1>1, <1>3, <1>10

\* A config that is deleted takes an entry out of the log, or none when it was
\* no record any more; one that is not deleted leaves the log as it is.
LEMMA DeleteForgets ==
  ASSUME TypeInv, TypeInv', NEW c \in Clients, DeleteConfig(c)
  PROVE  Log!Forget \/ UNCHANGED <<configs, trimmed>>
  <1>1. PICK n \in job[c].todoRevs :
          \/ configs' = [configs EXCEPT ![n] = NoConfig] /\ trimmed' = TRUE
          \/ UNCHANGED <<configs, trimmed>>
    BY DEF DeleteConfig
  <1>2. configs \in [Revs -> Slots] /\ configs' \in [Revs -> Slots] /\ n \in Revs
    BY DEF TypeInv, TypeOK, Jobs
  <1>3. CASE UNCHANGED <<configs, trimmed>>
    BY <1>3
  <1>4. CASE configs' = [configs EXCEPT ![n] = NoConfig] /\ trimmed' = TRUE
    <2>1. ~IsRecord(configs'[n]) /\ \A m \in Revs \ {n} : configs'[m] = configs[m]
      BY <1>2, <1>4 DEF IsRecord
    <2>2. CASE IsRecord(configs[n])
      <3>1. /\ Rank(RecordsOf(configs), n) \in 1..Len(ManifestsOf(configs))
            /\ ManifestsOf(configs') =
                 Log!RemoveAt(ManifestsOf(configs), Rank(RecordsOf(configs), n))
        BY <1>2, <2>1, <2>2, OneRecordLess
      <3>2. \E i \in 1..Len(StoredManifests) :
              StoredManifests' = Log!RemoveAt(StoredManifests, i)
        BY <3>1, LogIsManifestsOf
      <3>. QED
        BY <1>4, <3>2 DEF Log!Forget
    <2>3. CASE ~IsRecord(configs[n])
      <3>1. \A m \in Revs : IsRecord(configs'[m]) <=> IsRecord(configs[m])
        BY <2>1, <2>3
      <3>2. RecordsOf(configs') = RecordsOf(configs)
        BY <3>1 DEF RecordsOf
      <3>3. ASSUME NEW i \in 1..Cardinality(RecordsOf(configs))
            PROVE  configs'[Nth(RecordsOf(configs), i)] = configs[Nth(RecordsOf(configs), i)]
        <4>1. Nth(RecordsOf(configs), i) \in RecordsOf(configs)
          BY <1>2, ManifestsOfType, NthOfRank
        <4>. QED
          BY <2>1, <2>3, <4>1 DEF RecordsOf
      <3>4. ManifestsOf(configs') = ManifestsOf(configs)
        BY <3>2, <3>3 DEF ManifestsOf
      <3>. QED
        BY <1>4, <3>4, LogIsManifestsOf DEF Log!Forget
    <2>. QED
      BY <2>2, <2>3
  <1>. QED
    BY <1>1, <1>3, <1>4

\* Every step of the engine is a step of the log or leaves it as it is.
LEMMA LogStep ==
  TypeInv /\ NamesTakenBelow /\ [Next]_vars => [Log!Next]_(Log!vars)
  <1>. DEFINE Stands == UNCHANGED <<configs, trimmed>>
  <1>. SUFFICES ASSUME TypeInv, NamesTakenBelow, [Next]_vars
               PROVE  [Log!Next]_(Log!vars)
    OBVIOUS
  <1>0. TypeInv'
    BY TypeStep
  <1>1. ASSUME Stands  PROVE  UNCHANGED Log!vars
    BY <1>1, LogIsManifestsOf DEF Log!vars
  <1>2. ASSUME NEW c \in Clients, Beginning(c)  PROVE  Stands
    <2>1. Install(c) => Stands
      BY DEF Install, BeginDeploy, Begin, swarm, history
    <2>2. Upgrade(c) => Stands
      BY DEF Upgrade, BeginDeploy, Begin, swarm, history
    <2>3. Rollback(c) => Stands
      BY DEF Rollback, BeginDeploy, Begin, swarm, history
    <2>4. Uninstall(c) => Stands
      BY DEF Uninstall, Begin, swarm, history
    <2>5. Prune(c) => Stands
      BY DEF Prune, Begin, swarm, history
    <2>. QED
      BY <1>2, <2>1, <2>2, <2>3, <2>4, <2>5 DEF Beginning
  <1>3. ASSUME NEW c \in Clients, Deploying(c)  PROVE  Stands
    <2>1. RefusePreflight(c) => Stands
      BY DEF RefusePreflight, swarm, history
    <2>2. ReadScopes(c) => Stands
      BY DEF ReadScopes, swarm, history
    <2>3. CreateNetwork(c) => Stands
      BY DEF CreateNetwork, swarm, history
    <2>4. NetworksEnsured(c) => Stands
      BY DEF NetworksEnsured, swarm, history
    <2>5. DeployStack(c) => Stands
      BY DEF DeployStack, swarm, history
    <2>6. DeployFails(c) => Stands
      BY DEF DeployFails, swarm, history
    <2>7. UndoNetwork(c) => Stands
      BY DEF UndoNetwork, swarm, history
    <2>8. Undone(c) => Stands
      BY DEF Undone, swarm, history
    <2>. QED
      BY <1>3, <2>1, <2>2, <2>3, <2>4, <2>5, <2>6, <2>7, <2>8 DEF Deploying
  <1>4. ASSUME NEW c \in Clients, Recording(c)  PROVE  Stands \/ Store(c)
    <2>1. StoreCollides(c) => Stands
      BY DEF StoreCollides, swarm, history
    <2>2. Reread(c) => Stands
      BY DEF Reread, swarm, history
    <2>3. Unrecorded(c) => Stands
      BY DEF Unrecorded, swarm, history
    <2>. QED
      BY <1>4, <2>1, <2>2, <2>3 DEF Recording
  <1>5. ASSUME NEW c \in Clients, Finishing(c)  PROVE  Stands \/ DeleteConfig(c)
    <2>1. RollFails(c) => Stands
      BY DEF RollFails, swarm, history
    <2>2. RollDone(c) => Stands
      BY DEF RollDone, swarm, history
    <2>3. PruneHistory(c) => Stands
      BY DEF PruneHistory, swarm, history
    <2>4. RemoveStack(c) => Stands
      BY DEF RemoveStack, swarm, history
    <2>5. OrphanedManagedNetworks(c) => Stands
      BY DEF OrphanedManagedNetworks, swarm, history
    <2>6. Deleted(c) => Stands
      BY DEF Deleted, swarm, history
    <2>. QED
      BY <1>5, <2>1, <2>2, <2>3, <2>4, <2>5, <2>6 DEF Finishing
  <1>6. ASSUME NEW c \in Clients, Crash(c)  PROVE  Stands
    BY <1>6 DEF Crash, swarm
  <1>7. ASSUME NEW net \in Networks, NetworkRemovedByHand(net)  PROVE  Stands
    BY <1>7 DEF NetworkRemovedByHand
  <1>8. CASE UNCHANGED vars
    BY <1>8, <1>1 DEF vars
  <1>9. ASSUME NEW c \in Clients, Store(c)  PROVE  Log!Next
    BY <1>0, <1>9, StoreRecords DEF Log!Next
  <1>10. ASSUME NEW c \in Clients, DeleteConfig(c)  PROVE  Log!Next \/ Stands
    BY <1>0, <1>10, DeleteForgets DEF Log!Next
  <1>11. Next => Stands \/ Log!Next
    BY <1>2, <1>3, <1>4, <1>5, <1>6, <1>7, <1>9, <1>10 DEF Next
  <1>. QED
    BY <1>1, <1>8, <1>11

\* No record is stored before the first operation: the log begins empty.
LEMMA LogInit == Init => Log!Init
  <1>. SUFFICES ASSUME Init
               PROVE  Log!Init
    OBVIOUS
  <1>1. configs \in [Revs -> Slots]
    BY DEF Init, Slots
  <1>2. RecordsOf(configs) = {}
    BY DEF Init, RecordsOf, IsRecord
  <1>3. Cardinality(RecordsOf(configs)) = 0
    BY <1>2, FS_EmptySet
  <1>4. Len(ManifestsOf(configs)) = 0 /\ ManifestsOf(configs) \in Seq(Manifests)
    BY <1>1, <1>3, ManifestsOfType
  <1>5. ManifestsOf(configs) = <<>>
    BY <1>4
  <1>. QED
    BY <1>5, LogIsManifestsOf DEF Init, Log!Init

\* However many processes install, upgrade, roll back, uninstall and prune, and
\* wherever one of them dies, what they leave of the history is a log: entries
\* are added, at the end as long as none has been deleted, and taken out, and
\* none is ever rewritten or moved past another.
THEOREM HistoryIsALog == Spec => ImplementsReleaseLog
  <1>0. Init => NamesTakenBelow
    BY DEF Init, NamesTakenBelow, DeployPoints, Revisions, IsRecord
  <1>1. Init => TypeInv /\ NamesTakenBelow /\ Log!Init
    BY <1>0, TypeInit, LogInit
  <1>2. TypeInv /\ NamesTakenBelow /\ [Next]_vars =>
          (TypeInv /\ NamesTakenBelow)' /\ [Log!Next]_(Log!vars)
    BY TypeStep, NamesTakenBelowStep, LogStep
  <1>. QED
    BY <1>1, <1>2, PTL DEF Spec, ImplementsReleaseLog, Log!Spec
=============================================================================
