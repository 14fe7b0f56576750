--------------------------- MODULE ReleaseEngine ---------------------------
(***************************************************************************)
(* The chart engine of charts/release.go for one release: install,         *)
(* upgrade, rollback, uninstall and prune, run by several processes (CLI   *)
(* invocations, the charts view, a controller) against one swarm.  They    *)
(* share nothing but the swarm: the stack, the external networks, and one  *)
(* Docker config per stored revision.  Every call to the daemon is a step  *)
(* of its own, so the processes interleave between any two calls, and a    *)
(* process may die between any two calls.                                  *)
(*                                                                         *)
(* Releases meet only in the networks they share, which a second process   *)
(* on the same release exercises too, so one release is modelled.          *)
(***************************************************************************)
EXTENDS Integers, FiniteSets

CONSTANTS
  Clients,          \* processes that run engine operations
  Manifests,        \* rendered compose documents, told apart by what they use
  Networks,         \* external networks a manifest may name
  Uses,             \* [Manifests -> SUBSET Networks]: externalNetworks(manifest)
  AutoCreate,       \* networks the requirements let the engine create
  LocalNames,       \* networks that may exist with a non-swarm scope
  ForeignNames,     \* revisions whose config name another config may hold
  Keeps,            \* values of --history-max and of prune's keep window
  MaxRecordRetries, \* maxRecordRetries of record()
  MaxRev,           \* bound: the highest revision number the model counts to
  MaxOps,           \* bound: how many operations are begun in a behaviour
  NoConfig,         \* no config holds this revision's name
  Foreign,          \* a config that is no release record holds the name
  NoStack,          \* the stack is not deployed
  Nobody            \* no client: who made a network that was there before

Revs  == 1..MaxRev
Slots == [manifest : Manifests, managed : SUBSET Networks] \cup {NoConfig, Foreign}

ASSUME ConstantsAssumption ==
  /\ MaxRev \in Nat /\ MaxOps \in Nat /\ MaxRecordRetries \in Nat
  /\ Keeps \subseteq Nat
  /\ Uses \in [Manifests -> SUBSET Networks]
  /\ AutoCreate \subseteq Networks /\ LocalNames \subseteq Networks
  /\ ForeignNames \subseteq Revs
  /\ NoStack \notin Manifests
  /\ Nobody \notin Clients
  /\ NoConfig # Foreign
  /\ \A s \in [manifest : Manifests, managed : SUBSET Networks] : s \notin {NoConfig, Foreign}

VARIABLES
  configs,   \* the swarm's configs, by the revision their name carries
  stack,     \* the manifest the swarm last accepted for the stack
  scope,     \* each network's scope, "absent" when it does not exist
  pc,        \* the next daemon call of each client
  job,       \* the locals of each client's operation
  ops,       \* operations begun so far, bounded by MaxOps
  \* History variables: read by the properties, never by a guard.
  maker,     \* whose current operation created the network that exists
  owned,     \* existing networks that some revision recorded as its own
  trimmed,   \* some record has been deleted
  wiped,     \* some record has been deleted by an uninstall
  removed,   \* some uninstall has removed the stack
  disturbed  \* operations overlapped, or one died or failed half-way

swarm   == <<configs, stack, scope>>
history == <<maker, owned, trimmed, wiped, removed, disturbed>>
vars    == <<configs, stack, scope, pc, job, ops,
             maker, owned, trimmed, wiped, removed, disturbed>>

-----------------------------------------------------------------------------
(***************************************************************************)
(* Reading the history                                                     *)
(***************************************************************************)

\* IsReleaseRecord: allRevisions skips every config that is no record.
IsRecord(slot) == slot \notin {NoConfig, Foreign}

\* revisions: the revision numbers one read of the configs returns.
Revisions == {n \in Revs : IsRecord(configs[n])}

\* nextRevision had it counted from zero.
NextRevisionsFromZero(R) ==
  {n \in 0..(MaxRev + 1) : (\A m \in R : m < n) /\ (n = 0 \/ n - 1 \in R)}

\* nextRevision as a set of one: 1 on an empty history, else the last plus one.
NextRevisions(R) ==
  {n \in 1..(MaxRev + 1) : (\A m \in R : m < n) /\ (n = 1 \/ n - 1 \in R)}

\* The mutation of planPrune that counts the current revision out of the window.
PlanPruneOffByOne(R, keep) ==
  {n \in R : keep > 0 /\ Cardinality({m \in R : m > n}) >= keep - 1}

\* planPrune: delete what lies beyond the newest keep, never the current one.
PlanPrune(R, keep) ==
  {n \in R : /\ keep > 0
             /\ Cardinality({m \in R : m > n}) >= keep
             /\ \E m \in R : m > n}

\* record: past the colliding number even when history does not account for it.
AfterCollision(R, rev) ==
  {IF next > rev + 1 THEN next ELSE rev + 1 : next \in NextRevisions(R)}

\* The daemon refuses to remove a network a service of the stack is attached to.
InUse(net) == stack # NoStack /\ net \in Uses[stack]

-----------------------------------------------------------------------------
(***************************************************************************)
(* Starting an operation                                                   *)
(***************************************************************************)

IdleJob ==
  [kind |-> "none", man |-> NoStack, rev |-> 1, keep |-> 0, todoNets |-> {},
   created |-> {}, bad |-> {}, kept |-> {}, tries |-> 0, todoRevs |-> {},
   managed |-> {}, result |-> "none"]

Init ==
  /\ configs \in [Revs -> {NoConfig, Foreign}]
  /\ \A n \in Revs : configs[n] = Foreign => n \in ForeignNames
  /\ stack = NoStack
  /\ scope \in [Networks -> {"absent", "swarm", "local"}]
  /\ \A net \in Networks : scope[net] = "local" => net \in LocalNames
  /\ pc = [c \in Clients |-> "idle"]
  /\ job = [c \in Clients |-> IdleJob]
  /\ ops = 0
  /\ maker = [net \in Networks |-> Nobody]
  /\ owned = {}
  /\ trimmed = FALSE /\ wiped = FALSE /\ removed = FALSE /\ disturbed = FALSE

Begin(c, next, new) ==
  /\ pc[c] = "idle"
  /\ ops < MaxOps
  /\ ops' = ops + 1
  /\ pc' = [pc EXCEPT ![c] = next]
  /\ job' = [job EXCEPT ![c] = new]
  /\ disturbed' = (disturbed \/ \E d \in Clients \ {c} : pc[d] # "idle")
  /\ maker' = [net \in Networks |-> IF maker[net] = c THEN Nobody ELSE maker[net]]
  /\ UNCHANGED <<configs, stack, scope, owned, trimmed, wiped, removed>>

BeginDeploy(c, man) ==
  \E rev \in NextRevisions(Revisions), keep \in Keeps :
    Begin(c, "scopes", [IdleJob EXCEPT !.kind = "deploy", !.man = man,
                                       !.rev = rev, !.keep = keep])

\* Install reads the history and refuses a release that has any revision.
Install(c) ==
  /\ Revisions = {}
  /\ \E man \in Manifests : BeginDeploy(c, man)

\* Upgrade, with or without --install: refused only without it, on no history.
Upgrade(c) ==
  /\ Revisions # {}
  /\ \E man \in Manifests : BeginDeploy(c, man)

\* Rollback replays the manifest of a stored revision.
Rollback(c) == \E target \in Revisions : BeginDeploy(c, configs[target].manifest)

\* Uninstall reads the history once: what it deletes at the end, and the
\* networks the revisions recorded as created for the release.
Uninstall(c) ==
  /\ Revisions # {}
  /\ Begin(c, "remove",
           [IdleJob EXCEPT !.kind = "uninstall", !.todoRevs = Revisions,
                           !.managed = UNION {configs[n].managed : n \in Revisions}])

\* Prune plans from one read; PruneAll does the same for each release.
Prune(c) ==
  /\ Revisions # {}
  /\ \E keep \in Keeps :
       Begin(c, "delete", [IdleJob EXCEPT !.kind = "prune", !.keep = keep,
                                          !.todoRevs = PlanPrune(Revisions, keep)])

-----------------------------------------------------------------------------
(***************************************************************************)
(* deployAndRecord                                                         *)
(***************************************************************************)

Step(c, from, to) == pc[c] = from /\ pc' = [pc EXCEPT ![c] = to]

Finish(c, from, result) ==
  /\ Step(c, from, "idle")
  /\ job' = [job EXCEPT ![c] = [IdleJob EXCEPT !.result = result, !.kept = job[c].kept]]

\* A malformed owner, a record beyond the config limit or a missing external
\* secret ends the operation before anything is changed.
RefusePreflight(c) ==
  /\ Finish(c, "scopes", "refused")
  /\ UNCHANGED <<swarm, ops, history>>

\* ensureExternalNetworks reads every scope once.  What is missing and may be
\* created is created in the steps that follow; anything else that is not
\* swarm-scoped is a reason to fail, after the creations.
ReadScopes(c) ==
  /\ Step(c, "scopes", "create")
  /\ LET need    == Uses[job[c].man]
         missing == {net \in need : scope[net] = "absent"}
     IN job' = [job EXCEPT ![c].todoNets = missing \cap AutoCreate,
                           ![c].bad = {net \in need : scope[net] = "local"}
                                        \cup (missing \ AutoCreate)]
  /\ UNCHANGED <<swarm, ops, history>>

\* One CreateOverlayNetwork.  It fails when another process created the network
\* since the scopes were read, and the daemon may fail it for its own reasons.
CreateNetwork(c) ==
  \E net \in job[c].todoNets :
    /\ pc[c] = "create"
    /\ \/ /\ scope[net] = "absent"
          /\ scope' = [scope EXCEPT ![net] = "swarm"]
          /\ maker' = [maker EXCEPT ![net] = c]
          /\ job' = [job EXCEPT ![c].created = @ \cup {net}, ![c].todoNets = @ \ {net}]
       \/ /\ job' = [job EXCEPT ![c].bad = @ \cup {net}, ![c].todoNets = @ \ {net}]
          /\ UNCHANGED <<scope, maker>>
    /\ UNCHANGED <<configs, stack, pc, ops, owned, trimmed, wiped, removed, disturbed>>

\* The end of the pre-flight had it returned no names with its error.
NetworksEnsuredForgettingCreated(c) ==
  /\ job[c].todoNets = {}
  /\ Step(c, "create", IF job[c].bad # {} THEN "undo" ELSE "deploy")
  /\ job' = [job EXCEPT ![c].created = IF job[c].bad # {} THEN {} ELSE @]
  /\ UNCHANGED <<swarm, ops, history>>

\* deployAndRecord with the record written before the deploy.
NetworksEnsuredRecordFirst(c) ==
  /\ job[c].todoNets = {}
  /\ Step(c, "create", IF job[c].bad # {} THEN "undo" ELSE "record")
  /\ UNCHANGED <<swarm, job, ops, history>>

NetworksEnsured(c) ==
  /\ job[c].todoNets = {}
  /\ Step(c, "create", IF job[c].bad # {} THEN "undo" ELSE "deploy")
  /\ UNCHANGED <<swarm, job, ops, history>>

\* DeployStack accepted: every external network has to be there by then.
DeployStack(c) ==
  /\ Step(c, "deploy", "record")
  /\ \A net \in Uses[job[c].man] : scope[net] = "swarm"
  /\ stack' = job[c].man
  /\ UNCHANGED <<configs, scope, job, ops, history>>

\* A deploy that fails had it been recorded all the same.
DeployFailsRecorded(c) ==
  /\ Step(c, "deploy", "record")
  /\ UNCHANGED <<stack, disturbed>>
  /\ UNCHANGED <<configs, scope, job, ops, maker, owned, trimmed, wiped, removed>>

\* DeployStack failed, or reading the services to hold back did.  A deploy that
\* fails may still have created services.
DeployFails(c) ==
  /\ Step(c, "deploy", "undo")
  /\ \/ UNCHANGED <<stack, disturbed>>
     \/ /\ \A net \in Uses[job[c].man] : scope[net] = "swarm"
        /\ stack' = job[c].man
        /\ disturbed' = TRUE
  /\ UNCHANGED <<configs, scope, job, ops, maker, owned, trimmed, wiped, removed>>

\* One RemoveOverlayNetwork of the roll back: by name, whoever made it, and its
\* error is ignored.  The daemon refuses while the stack uses the network.
UndoNetwork(c) ==
  \E net \in job[c].created :
    /\ pc[c] = "undo"
    /\ \/ /\ scope[net] # "absent"
          /\ job' = [job EXCEPT ![c].created = @ \ {net}, ![c].kept = @ \cup {net}]
          /\ UNCHANGED <<scope, maker, owned>>
       \/ /\ ~InUse(net)
          /\ job' = [job EXCEPT ![c].created = @ \ {net}]
          /\ scope' = [scope EXCEPT ![net] = "absent"]
          /\ maker' = [maker EXCEPT ![net] = Nobody]
          /\ owned' = owned \ {net}
    /\ UNCHANGED <<configs, stack, pc, ops, trimmed, wiped, removed, disturbed>>

Undone(c) ==
  /\ job[c].created = {}
  /\ Finish(c, "undo", "failed")
  /\ UNCHANGED <<swarm, ops, history>>

-----------------------------------------------------------------------------
(***************************************************************************)
(* record                                                                  *)
(***************************************************************************)

\* storeRevision had it replaced a config of the same name.
StoreOverwriting(c) ==
  /\ job[c].rev \in Revs
  /\ configs[job[c].rev] # Foreign
  /\ Step(c, "record", "roll")
  /\ configs' = [configs EXCEPT ![job[c].rev] =
                   [manifest |-> job[c].man, managed |-> job[c].created]]
  /\ owned' = owned \cup job[c].created
  /\ UNCHANGED <<stack, scope, job, ops, maker, trimmed, wiped, removed, disturbed>>

\* storeRevision: CreateConfig succeeds only on a free name.
Store(c) ==
  /\ job[c].rev \in Revs
  /\ configs[job[c].rev] = NoConfig
  /\ Step(c, "record", "roll")
  /\ configs' = [configs EXCEPT ![job[c].rev] =
                   [manifest |-> job[c].man, managed |-> job[c].created]]
  /\ owned' = owned \cup job[c].created
  /\ UNCHANGED <<stack, scope, job, ops, maker, trimmed, wiped, removed, disturbed>>

\* "already exists": the name is taken, by a record or by a foreign config.
StoreCollides(c) ==
  /\ job[c].rev \in Revs
  /\ configs[job[c].rev] # NoConfig
  /\ Step(c, "record", "reread")
  /\ UNCHANGED <<swarm, job, ops, history>>

\* record re-reading for ever: no attempt is counted, no number is skipped.
RereadUncounted(c) ==
  /\ Step(c, "reread", "record")
  /\ \E rev \in NextRevisions(Revisions) : job' = [job EXCEPT ![c].rev = rev]
  /\ UNCHANGED <<swarm, ops, history>>

\* The re-read, the next number, and the next attempt.
Reread(c) ==
  /\ job[c].tries < MaxRecordRetries
  /\ Step(c, "reread", "record")
  /\ \E rev \in AfterCollision(Revisions, job[c].rev) :
       job' = [job EXCEPT ![c].rev = rev, ![c].tries = @ + 1]
  /\ UNCHANGED <<swarm, ops, history>>

\* Attempts exhausted, a re-read that failed, or CreateConfig failing for
\* another reason: the stack is deployed and nothing is recorded.
Unrecorded(c) ==
  /\ \/ Finish(c, "record", "unrecorded")
     \/ Finish(c, "reread", "unrecorded")
  /\ disturbed' = TRUE
  /\ UNCHANGED <<swarm, ops, maker, owned, trimmed, wiped, removed>>

-----------------------------------------------------------------------------
(***************************************************************************)
(* After the record: roll, wait, trim the history                          *)
(***************************************************************************)

\* The sequential roll (module Rollout) and --wait may fail; the revision stays.
RollFails(c) ==
  /\ Finish(c, "roll", "notready")
  /\ UNCHANGED <<swarm, ops, history>>

RollDone(c) ==
  /\ IF job[c].keep > 0
     THEN Step(c, "roll", "trim") /\ UNCHANGED job
     ELSE Finish(c, "roll", "ok")
  /\ UNCHANGED <<swarm, ops, history>>

\* pruneHistory reads again and plans like Prune, or gives up when it cannot read.
PruneHistory(c) ==
  /\ Step(c, "trim", "delete")
  /\ \E doomed \in {PlanPrune(Revisions, job[c].keep), {}} :
       job' = [job EXCEPT ![c].todoRevs = doomed]
  /\ UNCHANGED <<swarm, ops, history>>

-----------------------------------------------------------------------------
(***************************************************************************)
(* Uninstall, and the deletions it shares with the prunes                  *)
(***************************************************************************)

\* RemoveStack; an error is collected and the uninstall goes on.
RemoveStack(c) ==
  /\ Step(c, "remove", "orphans")
  /\ \/ stack' = NoStack /\ removed' = TRUE /\ UNCHANGED disturbed
     \/ disturbed' = TRUE /\ UNCHANGED <<stack, removed>>
  /\ UNCHANGED <<configs, scope, job, ops, maker, owned, trimmed, wiped>>

\* orphanedManagedNetworks: the recorded ones that exist, all when unreadable.
OrphanedManagedNetworks(c) ==
  /\ Step(c, "orphans", "delete")
  /\ \/ job' = [job EXCEPT ![c].managed = {net \in @ : scope[net] # "absent"}]
     \/ UNCHANGED job
  /\ UNCHANGED <<swarm, ops, history>>

\* Deleting by name whatever holds it, the lowest planned revision first.
\* A failing call is collected (uninstall, prune) or ignored (pruneHistory).
DeleteConfig(c) ==
  \E n \in job[c].todoRevs :
    /\ pc[c] = "delete"
    /\ \A m \in job[c].todoRevs : n <= m
    /\ job' = [job EXCEPT ![c].todoRevs = @ \ {n}]
    /\ \/ /\ configs' = [configs EXCEPT ![n] = NoConfig]
          /\ trimmed' = TRUE
          /\ wiped' = (wiped \/ job[c].kind = "uninstall")
          /\ UNCHANGED disturbed
       \/ /\ disturbed' = TRUE
          /\ UNCHANGED <<configs, trimmed, wiped>>
    /\ UNCHANGED <<stack, scope, pc, ops, maker, owned, removed>>

Deleted(c) ==
  /\ job[c].todoRevs = {}
  /\ Finish(c, "delete", "ok")
  /\ UNCHANGED <<swarm, ops, history>>

-----------------------------------------------------------------------------
(***************************************************************************)
(* The environment                                                         *)
(***************************************************************************)

\* The process dies, or its context is cancelled, between two calls: nothing
\* is undone, since the undo runs under the same context.
Crash(c) ==
  /\ pc[c] # "idle"
  /\ pc' = [pc EXCEPT ![c] = "idle"]
  /\ job' = [job EXCEPT ![c] = [IdleJob EXCEPT !.result = "crashed"]]
  /\ disturbed' = TRUE
  /\ UNCHANGED <<swarm, ops, maker, owned, trimmed, wiped, removed>>

\* An operator removes a network nothing is attached to.
NetworkRemovedByHand(net) ==
  /\ scope[net] # "absent"
  /\ ~InUse(net)
  /\ scope' = [scope EXCEPT ![net] = "absent"]
  /\ maker' = [maker EXCEPT ![net] = Nobody]
  /\ owned' = owned \ {net}
  /\ UNCHANGED <<configs, stack, pc, job, ops, trimmed, wiped, removed, disturbed>>

-----------------------------------------------------------------------------
Deploying(c) ==
  \/ RefusePreflight(c) \/ ReadScopes(c) \/ CreateNetwork(c) \/ NetworksEnsured(c)
  \/ DeployStack(c) \/ DeployFails(c) \/ UndoNetwork(c) \/ Undone(c)

Recording(c) ==
  \/ Store(c) \/ StoreCollides(c) \/ Reread(c) \/ Unrecorded(c)

Finishing(c) ==
  \/ RollFails(c) \/ RollDone(c) \/ PruneHistory(c)
  \/ RemoveStack(c) \/ OrphanedManagedNetworks(c) \/ DeleteConfig(c) \/ Deleted(c)

Beginning(c) ==
  \/ Install(c) \/ Upgrade(c) \/ Rollback(c) \/ Uninstall(c) \/ Prune(c)

Next ==
  \/ \E c \in Clients :
       Beginning(c) \/ Deploying(c) \/ Recording(c) \/ Finishing(c) \/ Crash(c)
  \/ \E net \in Networks : NetworkRemovedByHand(net)

\* A running process takes its next step; nobody has to begin an operation.
Fairness ==
  \A c \in Clients : WF_vars(Deploying(c) \/ Recording(c) \/ Finishing(c))

Spec == Init /\ [][Next]_vars /\ Fairness

-----------------------------------------------------------------------------
(***************************************************************************)
(* Properties                                                              *)
(***************************************************************************)

Results == {"none", "refused", "failed", "unrecorded", "notready", "ok", "crashed"}
Points  == {"idle", "scopes", "create", "deploy", "undo", "record", "reread",
            "roll", "trim", "delete", "remove", "orphans"}

Jobs ==
  [kind : {"none", "deploy", "uninstall", "prune"},
   man : Manifests \cup {NoStack}, rev : Nat \ {0}, keep : Nat,
   todoNets : SUBSET Networks, created : SUBSET Networks, bad : SUBSET Networks,
   kept : SUBSET Networks, tries : Nat, todoRevs : SUBSET Revs,
   managed : SUBSET Networks, result : Results]

\* Every variable keeps its type (Release, Engine and the swarm's own objects).
TypeOK ==
  /\ configs \in [Revs -> Slots]
  /\ stack \in Manifests \cup {NoStack}
  /\ scope \in [Networks -> {"absent", "swarm", "local"}]
  /\ pc \in [Clients -> Points]
  /\ job \in [Clients -> Jobs]
  /\ ops \in Nat
  /\ maker \in [Networks -> Clients \cup {Nobody}]
  /\ owned \in SUBSET Networks
  /\ trimmed \in BOOLEAN /\ wiped \in BOOLEAN
  /\ removed \in BOOLEAN /\ disturbed \in BOOLEAN

\* "The live release is never destroyed" (planPrune): as long as no uninstall
\* has deleted a record, whatever a prune or a trim still means to delete has a
\* newer record above it, however many prunes and deploys run at once.
PruneSparesNewest ==
  ~wiped => \A c \in Clients :
              pc[c] = "delete" /\ job[c].kind # "uninstall" =>
                \A n \in job[c].todoRevs : \E m \in Revisions : n < m

\* The append-only log (record): as long as nothing has been deleted, a new
\* record goes above every record there is, although its number was chosen
\* before the deploy and other deploys recorded theirs meanwhile.
AppendsAtEnd ==
  [][~trimmed => \A n \in Revisions' \ Revisions : \A m \in Revisions : m < n]_vars

\* Deploy before record: until an uninstall removes the stack, a release with
\* a record has a stack, so list and history show no phantom release.
NoPhantomRelease == ~removed /\ Revisions # {} => stack # NoStack

\* A failed deploy "leaves no trace": when it has ended, no network that it
\* created is left, unless the daemon would not let go of it.
FailedDeployLeavesNoNetwork ==
  \A c \in Clients, net \in Networks :
    pc[c] = "idle" /\ job[c].result = "failed" /\ maker[net] = c => net \in job[c].kept

\* "The revision is what the swarm now runs": when operations ran one after the
\* other and none died or failed half-way, the newest record is the stack, and
\* there is a stack exactly when there is a record.
SerialHistoryMatchesStack ==
  ~disturbed /\ (\A c \in Clients : pc[c] = "idle") =>
    /\ stack = NoStack <=> Revisions = {}
    /\ \A n \in Revisions : (\A m \in Revisions : m <= n) => configs[n].manifest = stack

\* Every operation ends: neither the collision retries of record nor the
\* deletions go on for ever.
EveryOperationEnds == \A c \in Clients : pc[c] # "idle" ~> pc[c] = "idle"

\* What UninstallResult says of OrphanedNetworks, "the external networks
\* swarmcli auto-created for the release that still exist": an undisturbed
\* uninstall reports each of them.
UninstallReportsItsNetworks ==
  \A c \in Clients :
    ~disturbed /\ job[c].kind = "uninstall" /\ pc[c] = "delete" =>
      owned \subseteq job[c].managed
=============================================================================
