------------------------------ MODULE MCParts ------------------------------
(***************************************************************************)
(* Parts that share nothing, in one run: the root of the TUI, the          *)
(* check-in, the operations on services and nodes, the chart repositories  *)
(* and the editing of a stack. A behaviour is one of them from its initial *)
(* states on while the others rest.                                        *)
(***************************************************************************)
EXTENDS Integers, Sequences, FiniteSets

CONSTANTS
  Contexts, Deepest, MaxKeys, MaxMail,
  Programs, MaxIds,
  Users, Services, MaxConfigs, Attempts, MaxOps,
  Urls, Seeded, Undigested, MaxContents, MaxCommands, Retries,
  ServiceNames, MaxEdits, MaxOthers

ASSUME CheckInAssumption == MaxIds \in Nat
ASSUME AppAssumption == Deepest \in Nat \ {0} /\ MaxKeys \in Nat
ASSUME OpsAssumption == IsFiniteSet(Users) /\ MaxOps \in Nat /\ {MaxConfigs, Attempts} \subseteq Nat \ {0}

VARIABLES
  part,
  screen, below, up, shown, fallback, command, search, fullscreen, terminal, reserved, mouseOn,
  pin, config, previous, writes, offered, declined, mail, quit, keys,
  home, file, stored, program, told, sent, ids,
  service, node, configs, op, ops,
  published, ever, repos, index, archives, run, commands, overlapped,
  live, networks, environ, editing, read, compose, from, typed, edits, others

App == INSTANCE AppRoot
Telemetry == INSTANCE CheckIn
Ops == INSTANCE SwarmOps
Repo == INSTANCE ChartRepo
Stack == INSTANCE StackEdit WITH file <- compose

ASSUME RepoAssumption ==
  /\ Seeded \in Urls /\ {Repo!Absent, Repo!None, Repo!Torn} \cap Urls = {}
  /\ {MaxContents, MaxCommands, Retries} \subseteq Nat

ASSUME EditAssumption == ServiceNames \subseteq Nat /\ {MaxEdits, MaxOthers} \subseteq Nat

Parts == {"app", "telemetry", "ops", "repo", "stack"}

app == <<screen, below, up, shown, fallback, command, search, fullscreen, terminal, reserved, mouseOn,
         pin, config, previous, writes, offered, declined, mail, quit, keys>>
telemetry == <<home, file, stored, program, told, sent, ids>>
operations == <<service, node, configs, op, ops>>
repository == <<published, ever, repos, index, archives, run, commands, overlapped>>
stack == <<live, networks, environ, editing, read, compose, from, typed, edits, others>>
vars == <<part, app, telemetry, operations, repository, stack>>

\* What rests does so in one of its initial states.
Init ==
  /\ part \in Parts
  /\ App!Init /\ (part # "app" => mouseOn /\ pin = CHOOSE c \in Contexts : TRUE)
  /\ Telemetry!Init /\ (part # "telemetry" => home = "none")
  /\ Ops!Init /\ (part # "ops" => \A s \in Services : service[s] = Ops!None)
  /\ Repo!Init
  /\ IF part = "stack" THEN Stack!Init
     ELSE Stack!Init /\ environ = {} /\ \A s \in ServiceNames : live[s] = IF s = 1 THEN Stack!Plain ELSE Stack!Absent

Next ==
  \/ part = "app" /\ App!Next /\ UNCHANGED <<part, telemetry, operations, repository, stack>>
  \/ part = "telemetry" /\ Telemetry!Next /\ UNCHANGED <<part, app, operations, repository, stack>>
  \/ part = "ops" /\ Ops!Next /\ UNCHANGED <<part, app, telemetry, repository, stack>>
  \/ part = "repo" /\ Repo!Next /\ UNCHANGED <<part, app, telemetry, operations, stack>>
  \/ part = "stack" /\ Stack!Next /\ UNCHANGED <<part, app, telemetry, operations, repository>>

Spec == Init /\ [][Next]_vars

-----------------------------------------------------------------------------
\* AppRoot: whatever opens, closes, resizes and goes back, in whatever order, the view on the
\* screen has the room the layout leaves it, and of the two input bars at most one is open.
FitsTheScreen == part = "app" => App!TypeOK /\ App!FitsTheScreen /\ App!OneBar

\* CheckIn: no identity leaves a machine that has not shown the disclosure, nor one that was
\* not first stored, however launches interleave.
SentAsDisclosed == part = "telemetry" => Telemetry!TypeOK /\ Telemetry!NothingSentUntold /\ Telemetry!ReportsStoredIds

\* SwarmOps: an operation changes what it is for and undoes nothing that another user did
\* since it read, and a change of the node whose calls do not fail gives up only when others
\* kept coming first.
KeepsWhatOthersDid == Ops!KeepsWhatOthersDid /\ []Ops!TypeOK /\ []Ops!GivesUpOnlyToOthers

\* ChartRepo: what is loaded was published under its version, and is what the index names.
LoadsWhatWasPublished == part = "repo" => Repo!TypeOK /\ Repo!LoadsWhatWasPublished

\* ChartRepo: of commands that do not overlap, however many were killed half way, the cached
\* index of the configured repository came from its URL.
CacheIsItsRepositorys == part = "repo" => Repo!CacheIsItsRepositorys

\* StackEdit: a redeploy gives each service what was read of it and what was written anew.
EditChangesOnlyTheEdit == []Stack!TypeOK /\ Stack!EditChangesOnlyTheEdit
=============================================================================
