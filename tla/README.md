# swarmcli in TLA+

swarmcli is a terminal UI and a command line for Docker Swarm. It shows the swarm that the session's Docker context names, and it installs *charts*: compose stacks rendered from templates, recorded as numbered revisions in the swarm itself. This directory models the parts of it that change state next to something else (another process, a command, a message, the swarm), checks them with TLC on small instances, and proves with TLAPS, for every instance, every safety property that TLC finds to hold there, and that the engine's history implements its abstract specification.

- [Inventory](#inventory)
- [Modules](#modules)
- [Runs](#runs), with bounds and fairness
- [Proofs](#proofs)
- [Where code and documentation disagree](#where-code-and-documentation-disagree)
- [What is not modelled](#what-is-not-modelled)
- [Plan](#plan)

## Inventory

| Part (source) | State it keeps | Operations | Meets the others through |
|---|---|---|---|
| Release engine (`charts/release.go`, `backend_docker.go`, `networks.go`) | none of its own: one Docker config per stored revision, the stack, the external networks | Install, Upgrade, Rollback, Uninstall, Prune, PruneAll | daemon calls; each deploy runs the rollout |
| Sequential rollout (`charts/rollout.go`) | services held back, the one being waited for | rollOneAtATime, waitRolled | partial deploys; reads convergence |
| Apply (`charts/apply.go`, `releasefile.go`, `owner.go`, `cli/apply.go`) | a plan from one read, the wave in flight | PlanApply, Apply, waitWave | engine operations; reads convergence |
| Convergence (`docker/convergence.go`, `task.go`) | none | a service's phase from tasks, update state and node state | read by rollout, `--wait` and the barrier |
| Session (`docker/session_context.go`, `client.go`, `context.go`, `snapshot.go`) | the pin, the cached client under `clientMu`, the cached snapshot, a refresh flag | GetClient, ResetClient, RefreshSnapshot(Async), ValidateContext | every view; `~/.docker/config.json`, shared with the operator's shell |
| App root (`app/`) | view stack, `previousContext`, drift prompt, dialogs | one message at a time; commands beside it | messages from commands, ticks and keys |
| Resource views (`views/*`, `ui/components/filterable`) | each a list, a cursor, a search, dialogs, panels, a poll generation | keys, ticks, commands and what comes of them | the snapshot cache, the daemon, the app root, each other by navigation |
| Header (`views/systeminfo`, `app/`) | the context's name and counts, resource usage and its trend | one chain of measuring rounds, status loads on the app's tick | the session's pin; reset by a switch |
| Log view (`views/logs`) | the stream's goroutines and channels, a buffer, a viewport with follow, search, filter and marks | read-once pump, keys, its own messages | the daemon's log stream; the app's layout |
| Editing a stack (`docker/stack_to_compose.go`, `stack_deploy.go`, `views/stacks/editcmd.go`) | none but the file in the editor | read the services, make a compose file, edit, check, deploy | daemon calls; the docker CLI |
| Swarm resource operations (`docker/service.go`, `node.go`, `config.go`, ...) | none | read, change, write back with the version read | views; the daemon's version check |
| Repositories (`charts/repo.go`, `source.go`, `cli/charts.go`) | `repos.json`, a cached index per repository, cached archives | add, update, remove, resolve, load, sweep | files, HTTP; the engine's charts |
| Check-in (`telemetry/`, `app/`) | `install.json` with the identity | disclosure, launch report, heartbeat | the config directory; HTTP |
| Charts (`charts/chart.go`, `render.go`, `values.go`, ...) | none | load, merge values, render, lint | called before the engine's first daemon call |
| Command line, settings, widgets | flags, one settings file | parsing, printing | - |

Nothing in swarmcli takes a lock that another process sees. Two invocations, or a TUI and a CI job, meet in the swarm between any two daemon calls; inside one TUI, Bubble Tea runs commands as goroutines next to the update loop, and their results come back as messages in any order.

What makes each part correct, and where it is hard:

- **Release engine.** The recorded history must describe the stack. The revision number is chosen before the deploy and used after it; a record is one atomic `CreateConfig`, collisions are retried; trims decide on an older read; networks made by a deploy that then fails must go; a process may die anywhere. `charts/release.go` orders its calls to survive this.
- **Rollout.** Services that must not restart together are restarted one at a time, none is lost, and a cluster that is down is not held back for ever. It is hard because swarm's state lags the deploy call.
- **Apply.** One wave is up before the next begins; success means the file is deployed; applying again does nothing. It is hard because the plan ages while others write, and because of the same lag.
- **Session.** The pin, the client and the snapshot name one swarm, or will again soon; a failing switch goes back; the operator is asked once. It is hard because four things move separately and their readers run beside.
- **Convergence.** What is read as up, finished or dead is so for the spec the service has now. It is hard because swarm makes and ends tasks out of order, keeps old ones, and restarts, updates and reschedules at once.
- **Views.** The poll goes on; the cursor is on a row; what is done is what the dialog named. It is hard because keys, ticks, loads and navigation meet in any order, and a message goes to whichever view is on the screen when it arrives.
- **Log view.** Lines are shown in order and arrive; the reader stays where they are. It is hard because four goroutines, two channels and a pump hand a line on, and because a key takes effect by a message that lines may overtake.
- **Header.** What is shown was measured in the context it is shown for, and comes to be this session's. It is hard because rounds and loads outlive a switch.
- **Stack edits, swarm operations, repositories, check-in.** Read, change, write back, beside others: what others did is kept, or the write is refused; a death between two files is recovered from; nothing is sent before it is disclosed.

`PROJECT.json` lists every hazard at its source line with the property that covers it or the reason why none does.

## Modules

| Module | Models | Lines up with |
|---|---|---|
| `ReleaseEngine` | the five operations of several processes on one release, call by call | `charts/release.go` |
| `ReleaseLog`, `ReleaseEngineRefinement` | what the history promises (entries appended, taken out, never rewritten), and the mapping from engine to log | the comments of `record`, `planPrune` |
| `Rollout` | one upgrade after another of marked services, against a lazy swarm | `charts/rollout.go` |
| `Convergence` | how one service's tasks are read, in every mode | `docker/convergence.go`, `service.go` |
| `Apply` | several appliers, operators and the swarm; a deploy is one step | `charts/apply.go`, `cli/apply.go` |
| `Session` | update loop, commands, caches, contexts view, drift prompt | `docker/`, `app/`, `views/contexts` |
| `AppRoot` | who takes a key; views stack, bars, dialogs, layout, late messages | `app/` |
| `ListView` | what the list views have in common | `ui/components/filterable/list`, the views' shared handlers |
| `StacksView`, `ServicesView`, `NodesView`, `TasksView`, `VolumesView`, `NetworksView`, `ConfigsView`, `SecretsView`, `ContextsView`, `ChartsView` | one view each: its keys, panels, commands and messages | `views/<name>` |
| `Console` | the ten views composed: one is opened, covered, returned to, replaced | `views/`, `app/update.go` |
| `LogStream` | the stream's goroutines, channels and the pump | `views/logs/stream.go`, `update.go` |
| `LogScreen` | buffer, filter, marks, search, viewport | `views/logs` |
| `SystemInfo` | the header's usage rounds and status loads across switches | `views/systeminfo`, `app/` |
| `SwarmOps` | read-modify-write of services, a node and configs by several users | `docker/service.go`, `node.go`, `config.go`, `stack_remove.go` |
| `StackEdit` | services to compose file, edit, deploy | `docker/stack_to_compose.go`, `stack_deploy.go`, `stack_binds.go`, `views/stacks` |
| `ChartRepo` | list, index and archives shared by commands that may be killed | `charts/repo.go`, `source.go`, `cli/charts.go` |
| `CheckIn` | first run, identity, reports of programs side by side | `telemetry/`, `app/` |
| `ReleaseEngineProofs`, `RolloutProofs`, `ApplyProofs`, `SessionProofs` | the theorems of these four; in the first also that the engine implements `ReleaseLog`, in the second those of `Convergence` | - |
| `ProgressProofs` | the theorems of `SystemInfo` and `LogStream` | - |
| `PartsProofs` | the theorems of `CheckIn`, `AppRoot`, `ChartRepo`, `SwarmOps` and `StackEdit` | - |
| `ConsoleProofs` | the theorems of `Console`, with the lemmas on `ListView` and the ten views they rest on | - |
| `LogScreenProofs` | the theorems of `LogScreen` | - |
| `MCReleaseEngine`, `MCApply` | values for TLC | - |
| `MCRollout`, `MCConsole`, `MCProgress`, `MCParts` | several modules that share no state in one run: `part` is chosen at the start, the others rest in one initial state | - |

**ReleaseEngine.** `configs` maps a revision number to what the config of that name holds: nothing, a record (its manifest and the networks it claims), or a foreign config, which `allRevisions` skips and `CreateConfig` collides with. `stack` is the manifest last accepted, `scope` each network's scope. `pc[c]` is process c's next daemon call and `job[c]` the locals of its operation. `deployAndRecord` is the path *scopes → create → deploy → record → roll → trim → delete*, with *undo* for a failure; `Uninstall` is *remove → orphans → delete*; `Prune` goes straight to *delete*. Each call may fail where the code has an error path, and `Crash` ends a process between any two. `maker`, `owned`, `trimmed`, `wiped`, `removed` and `disturbed` are history variables; no guard reads them. Of a manifest only the networks it uses matter. `DeployStack` is one step, as one call is for the engine; that it may fail half-way is in `DeployFails`.

**Rollout.** `spec`, `prev`, `working`, `task`, `update` and `started` are swarm's side, modelled from how the code reads it: a deploy stores a spec, the update begins later, takes the tasks down and brings them up or pauses. `held`, `current` and `before` are the locals of `rollOneAtATime`. A service's tasks are taken together. Services are peers, as in the Galera chart the label is made for: a peer comes up if another is up or if its template bootstraps. The two cases in which the engine holds nothing are the first deploy alone.

**Apply.** `current` and `health` are the releases as the swarm has them; `action` is the plan of `PlanApply`, `todo` what is left of it, `wrote` and `unread` the releases of the wave and of the current poll. Operators write and uninstall releases at any time, within `MaxOps`. `unbegun` health is the moment after a deploy in which the services still read as converged; `prompt`, chosen at the start, says that swarm leaves no such moment.

**Session.** `worker` holds each running command: snapshot loads, switches and the background refresh, each with its step and the context its client was built for. `handler` splits those messages in which the update loop itself waits for `clientMu` or moves pin and client one after the other. `shell` is the config file's context, moved by `docker context use` here or in another terminal (`ShellMoves`). Staleness by TTL is left to chance: `TriggerRefresh` may happen whenever no refresh runs. `revertTo` is `previousContext` with the flag that counts only together with it, and a closed view forgets its list, so that states which nothing tells apart are one. A list load and a drift check read the pin when they start and arrive as messages later. Dialogs that keep the drift prompt waiting are left out, which allows more behaviours, not fewer.

**Convergence.** `tasks` is the task list in the order the tasks were made, each with its slot or node, spec, desired and observed state; `gen` the spec's version, `update` the update's state, `startedAt` where the list stood when it began. `Judged` is the task that `newestTaskPerSlot` and its skips leave to be judged, `Reading` the verdict on it; the rest of the module is swarm, which restarts, updates, drains and reschedules as the code's comments describe. The modes are those the code tells apart: replicated with each restart condition, a long restart delay, global, a global one-shot, a replicated job.

**Views.** A behaviour of `Console` follows one view; the others are what covers it. `world` is the swarm, `snapshot` the cache, `items`, `entries`, `cursor`, `query`, `ascending` the filterable list, `seen` the hash of what was loaded, `gen` and `ticks` the poll, `dialog` and `pending` the dialog and what it would do, `form` the view's own panels and flags, as each view's header says. A key is one action with the guard of the handler that takes it (`KeysGoTo` is the order in which panels take keys). A command is a member of `running` until it has run and its message a member of `mail` until it is delivered; a message for a view that is covered or gone is `Dropped`. Names are numbers in the order of the alphabet.

A dialog is answered in two steps, as in the code. Its key hides it and puts a `yes` or a `no` on its way (`AnswerKey`: `confirmdialog.Update` and `scaledialog.Update` return a command whose `ResultMsg` comes later); what the handler of that message finds pending *then* is begun (`ConfigAnswered`, `SecretAnswered`, ...). Keys, other dialogs and messages of commands may come in between. The networks view alone reads its dialog's keys itself. `dialog` is the dialog shown last, with the action and the name it told of, and `up` whether it is on the screen. An answer may also be taken for that of a dialog of the app's own (`app/update.go:372`), and is then `Dropped`.

**LogStream, LogScreen.** The first has the daemon's stream, `StdCopy`, the two scanners and the two channels as processes, and the view's pump as the chain *command → message → next command*; a scanner may meet a line longer than it takes (`ScanFails`), which the raw path reports and the demultiplexed one does not. The second has the buffer as a sequence of kinds (one that wraps, one the search finds, another, a notice, a mark), the rows drawn, offset and height of the viewport, and `told`, the view's own messages on their way: wrap, filter and mark keys change state first and redraw when their message comes.

**SystemInfo.** `rounds` and `ticks` are the measuring rounds under way and the armed ticks, each with the generation it was begun in; `usage`, `before` and `counts` the contexts in which the values shown were read.

**SwarmOps.** Objects carry swarm's version index; `op[u]` holds what user u has read. `UpdateService` and `UpdateNode` are refused when the version has moved; node changes are tried `Attempts` times (`nodeUpdateMaxAttempts`). Any call may also fail for another reason, which ends the operation at once (`CallFails`; step `erred` for a change of the node, so that giving up after refusals is told from it). Other users deploy and relabel at any time.

**StackEdit.** A service is what `stack_to_compose.go` tells apart of its spec: image and the digest it is pinned to, command, mount and its options, network and aliases, port, mode, CPU, restart delay, parallelism, secrets, environment, healthcheck, placement. `Section` turns one into its section of the file, `Converted` is what the docker CLI makes of it (external). CPUs are in ten-thousandths, so that the rounding to three decimals shows (`CPUString`). `Loses` lists, from the code, what a file does not carry (see [the limits found](#limits-found-while-modelling)); each of these things is among the `Specs` that services start with.

**ChartRepo.** `repos` and `index` are files written one after the other, the first truncated before it is written, the second through a rename; `run[p]` is the command's step and what it has read. A program may be killed at any step. `overlapped` is a history variable: it says that two commands ever ran beside each other.

**CheckIn.** `file` is the identity in `install.json`, `program[p]` a launch: its environment, its step, the identity it made and whether the disclosure has been shown. `told`, `sent` and `stored` are history.

**AppRoot.** `screen`, `below`, `up`, `command`, `search` say who takes a key (`app/update.go`'s order of checks); `reserved` and `screen.room` are the layout. The context's move is as in `Session`, but a step each.

## Runs

| Run | Checks | Shows | Distinct states |
|---|---|---|---|
| `release` | `TypeOK`, `PruneSparesNewest`, `NoPhantomRelease`, `FailedDeployLeavesNoNetwork`, `SerialHistoryMatchesStack`, `ImplementsReleaseLog` | the engine under two processes, failures and deaths; refinement of the log | 573,000 |
| `rollout` | `TypeOK`, `OneAtATime`, `EveryServiceDeployed`; `CountsOnlyTheCurrent`, `FinishedStaysFinished` | two upgrades, pauses and deadlines; how one service's tasks are read | 569,000 |
| `apply` | `TypeOK`, `PromptWavesOneAtATime`, `SuccessMeansApplied`, `ReapplyIsNoop`, `ApplyEnds` | two appliers, operators, wedged services | 249,000 |
| `session` | `TypeOK`, `ClientIsThePins`, `AskedOnce`, `SnapshotCatchesUp` | a switch or a drift, with loads, refreshes and failures beside it | 794,000 |
| `console` | `TypeOK`, `StaysPolled`, `NeverFrozen`, `NeverOutOfList`, `ChildIsShown`, `OrderIsAsTold`, `DoesWhatItNamed`; `KeepsThePlace` | ten views with their ticks, commands, messages and navigation; the log view's screen | 1,843,000 |
| `progress` | `RolloutCompletes`, `EveryOperationEnds`, `ShownInOrder`, `LinesArrive`, `UsageIsSinceReset`, `HeaderCatchesUp` | four chains that must not stop: rollout, record retries, log stream, header | 262,000 |
| `parts` | `FitsTheScreen`, `SentAsDisclosed`, `KeepsWhatOthersDid`, `LoadsWhatWasPublished`, `CacheIsItsRepositorys`, `EditChangesOnlyTheEdit` | app root, check-in, swarm operations, repositories, stack edits | 1,382,000 |
| `release_orphans`, `rollout_rerun`, `apply_barrier`, `session_revert`, `console_crash` | one property each, violated | [below](#where-code-and-documentation-disagree) | |

A run of several modules explores the union of their state spaces, not the product: `part` never changes, and what rests is in one state. It is a way of running them, and says nothing of how they interact; where components interact they are in one module (`Console`, `Session`) or one is modelled inside the other by what it gives (`Apply` has the phases of convergence, `Rollout` its verdict).

**Bounds**

- `release`: two processes, three operations, revisions to 4 (one more than three operations use, so that a number can be skipped), two manifests, keep windows 0 (off) and 1, and two networks, one that may be created and one that may be missing for good or of the wrong scope: a pre-flight that creates the first and fails on the second is the hard case of the undo. Two processes are enough for each race the code's comments speak of. Three operations allow an install, an upgrade that trims it, and a third operation that overlaps either or follows both.
- `rollout`: three services, because with two, "the rest" and "the next" are the same; two upgrades, because a wait given up only shows in the next one. `Convergence`: one slot, or two nodes for a global service, three tasks (one from before the update, its replacement, and a restart of either) and two specs.
- `apply`: three releases, two in one wave of which one may be unchanged; two appliers with three files, one claiming another team's release; `MaxOps` = 2 applies, manual writes or failures.
- `session`: two contexts, one switch or move of the shell (`MaxOps`), one failing call (`MaxFails`), one load at a time beside the refresh. A switch raises a drift of its own while the config file is written and the pin is not, so the two features meet within that bound. The contexts view is opened while a switch may still begin or is under way: opened after that it only lists. Twice as many operations exceed ten million states.
- `console`: two names, three events (`MaxEvents`: keys, changes by others and failing commands together), two commands or messages beside those on their way by themselves (`MaxCalls`). A key that asks for a dialog is an event; the key that answers it is not, since there is no more than one per dialog. So two dialogs may be asked for, the first answered and the second up before that answer is heard, with an event left: another key, a change of the swarm, a failure. Polls, loads and navigation are not counted. `LogScreen`: a buffer of three lines, one of which wraps, a viewport of one or two rows, one arrival and three keys from every content of the buffer: the initial states already hold what earlier arrivals would have left, so one arrival between keys is the hard case. The buffer is full from the start, where the program's begins empty (`views/logs/model.go:90`): as long as it fills, nothing is dropped and nothing is taken off the offset.
- `progress`: a rollout of one upgrade and three templates, so that a peer may change and still not be told to bootstrap; two operations that collide with each other and with a foreign config; a channel with room for one line, a buffer of three, three lines written, two keys; two contexts, one switch, two status loads at once.
- `parts`: `AppRoot` four keys and two messages; two programs launched for the first time, two identities; two users, two services of a stack and a node, three operations; a repository at two URLs, one of which publishes no digests, three commands; two services edited once, with one change by others.

The constants named `Max...`, and `Loads` and `Switches` as concurrency limits, are the only bounds in guards; `Attempts`, `Retries`, `MaxRecordRetries`, `Deepest` and `ChannelRoom` are the program's own constants, made small. Runs say `CHECK_DEADLOCK FALSE` because a model at its operation bound, with nothing under way, has nothing left to do.

**Fairness**

- `ReleaseEngine`, `Apply`: weak fairness of a running operation's own steps. A process that runs takes its next step, and each daemon call ends in a result or an error. Nobody is obliged to begin an operation; other processes and swarm are not obliged to do anything, so `EveryOperationEnds` and `ApplyEnds` hold on a swarm that makes no progress. `Apply` also has fairness of `WaveFails`: the poll's deadline passes.
- `Rollout`: `PatientSpec` takes deadline and failures away and asks swarm to do its part; it serves one question, whether the engine can block itself (`RolloutCompletes`).
- `Session`: commands run, the update loop handles what it is sent, and `TriggerRefresh` happens again and again: views re-arm a polling tick (`views/stacks/model.go`, `views/nodes/model.go`, ...), and each event does it too (`app/update.go:80`). An operator who stays for good in a view that does not poll, on a swarm where nothing happens, is outside this assumption.
- `LogStream`: goroutines run, the pump's command reads, messages are delivered. Nobody need log, press a key or end the stream.
- `SystemInfo`: commands end, timers fire, messages are delivered. Nobody need switch; once the switches have been used up the context moves no more.

**What the properties say about the code**

- `PruneSparesNewest`: `planPrune` keeps the newest of what it read, and concurrent deploys only add above it. Until an uninstall deletes records, nothing that is about to be deleted is the live revision.
- `NoPhantomRelease`: deploy comes before record in every path, so `list` never shows a release that never ran, short of an uninstall.
- `FailedDeployLeavesNoNetwork`: `created` is kept over every error path, including the one in which the pre-flight itself fails after creating some.
- `SerialHistoryMatchesStack`: any sequence of the five operations by one process at a time, each of which succeeded or failed cleanly, leaves the newest record equal to the stack. With overlap this is false, and the code does not claim it.
- `ImplementsReleaseLog`: under the mapping, in which the log is the records in the order of their numbers, every step of the engine appends, forgets or stutters. Once anything has been deleted, a deploy which has picked its number already may record below a newer one; the log's `Record` allows exactly that.
- `OneAtATime`: of the services that ran when an upgrade began, at most one of those it restarts is restarting, apart from those still held.
- `RolloutCompletes`: "holding it back could deadlock a recovery" does not happen.
- `CountsOnlyTheCurrent`, `FinishedStaysFinished`: the newest task of a slot need not be of the spec in force, nor in force at all: while an update is in flight nothing older counts, no more count than are wanted, and a run that has finished stays finished when its node is drained or its task replaced.
- `PromptWavesOneAtATime`: the wave loop is right as far as what it reads is current.
- `SuccessMeansApplied`, `ReapplyIsNoop`: what `apply` reports and what makes running it in CI safe.
- `ClientIsThePins`: moving the pin and dropping the client in this order, with `buildClient` reading the pin under `clientMu`, leaves no window in which a client of the old context is cached for good.
- `SnapshotCatchesUp`: a refresh that was under way can store the old swarm's snapshot *after* `InvalidateSnapshot`, under the new pin. The model reaches that state. The property says it does not last: a later refresh fetches with the right client. It is the reason to state this one as liveness.
- `AskedOnce`: an inconclusive tick, a failing read and an agreeing one are three things; a declined context is not offered again until something has moved.
- `StaysPolled`, `NeverFrozen`: a poll is a chain, each beat arming the next, and a beat may be lost to another view, be of an earlier entry, or find a dialog open. The chain never breaks while its view is on the screen, and no answered dialog, dismissed error, lost load or failed deploy leaves a state behind in which each beat does nothing: as soon as only the list is shown and nothing is under way, the next beat has something to begin (`NextChecks`). The volumes, networks, configs and contexts views are not in the second: theirs is a state the code leaves on the next load in another way, or polls without asking.
- `NeverOutOfList`, `ChildIsShown`, `OrderIsAsTold`: after a load, a search, a sort or a return in any order, the cursor is on a row, on a child only of an expanded release, and the rows are in the order the header tells.
- `DoesWhatItNamed`: what an answer begins is what the dialog that was shown last named, and in the networks view one that is on the screen. Lists move under a dialog, dialogs come over dialogs, and the answer is heard when the list, the cursor and the dialog may be others: nothing is ever done that no dialog told of, nor to another name than the one it told. It does not say that *this* dialog was the one answered: see [the limits found](#limits-found-while-modelling).
- `KeepsThePlace`: a line that arrives leaves a reader who scrolled up on the same row; a following reader is at the newest row after every line, resize and message; *n* and enter bring the match to the screen. Its conditions are what the code does not manage: see [the limits found](#limits-found-while-modelling).
- `ShownInOrder`, `LinesArrive`: cancelling, covering and the random choice among a line, an error and an end may lose lines at the end, never between two that are shown; and a live stream is shown, up to the first line that is too long for a scanner.
- `UsageIsSinceReset`, `HeaderCatchesUp`: a round that lands after a switch is discarded by its generation, also when a failed switch goes back to the context it came from.
- `FitsTheScreen`: the viewport holds back the rows of a bar exactly when one is open.
- `SentAsDisclosed`: nothing leaves a machine that has not shown the disclosure, and no identity is reported that was not stored first.
- `KeepsWhatOthersDid`: a write changes what the operation is for and leaves the rest as it *then* is; a change of a node whose calls do not fail otherwise gives up only when as many changes of others came between.
- `LoadsWhatWasPublished`, `CacheIsItsRepositorys`: a pinned version never resolves to another one's content, whoever writes beside; and a killed command does not leave the cache of a repository that is no longer the configured one.
- `EditChangesOnlyTheEdit`: a redeploy gives each service what was read of it and what was written anew, but for what `Loses` names.

Each property of a passing run has a mutant in `PROJECT.json`, a change to one definition which a plausible bug in that code would make, under which TLC finds the property violated. Their definitions stand in front of the definition they change and say what they get wrong.

## Proofs

Eight modules prove, from the named assumption of each model alone, and so for every number of processes, services, releases, contexts, commands and operations. The assumptions are `ConstantsAssumption`, `RolloutAssumption`, `ApplyAssumption`, `SessionAssumption` and `ListViewAssumption` in the models, and for the parts that a run composes `ReadingAssumption` (`MCRollout`), `LogScreenAssumption` (`MCConsole`), `HeaderAssumption` and `LogsAssumption` (`MCProgress`), `CheckInAssumption`, `AppAssumption`, `OpsAssumption`, `RepoAssumption` and `EditAssumption` (`MCParts`). The theorems of the composed parts are stated of the module that the run checks: an `INSTANCE` shares its variables with the others, which rest.

| Theorem | Statement | Argument |
|---|---|---|
| **`ReleaseEngineProofs`** | | |
| `TypeCorrect` | `Spec => []TypeOK` | `TypeInv` adds that a deploy from *scopes* to *roll* holds a manifest, not `NoStack`; without that, `DeployStack` and `Store` need not keep the types. |
| `NewestSpared` | `Spec => []PruneSparesNewest` | `PlanPrune` returns only elements below a maximum (`PlanPruneSparesTop`). The steps that could remove that maximum are deletions, and those of other prunes are covered by the same invariant; uninstalls set `wiped`. `UninstallPoints` says which operations reach *remove* and *orphans*. |
| `HistoryAppends` | `Spec => AppendsAtEnd` | `NamesTakenBelow`: while nothing has been deleted, every name below the number a deploy carries is taken. A `CreateConfig` that succeeds is then above every record, however old its number. Inductive because `NextRevisions` and `AfterCollision` only give numbers past everything read. |
| `NoPhantom` | `Spec => []NoPhantomRelease` | `DeployedBeforeRecord`: until an uninstall removes the stack, a process at *record* or *reread* implies a stack, and so does a record. |
| `NoNetworkLeft` | `Spec => []FailedDeployLeavesNoNetwork` | `MadeIsKnown`: until its deploy is recorded, a process has each network that it made in `created`, still to be undone, or in `kept`, which it tried to remove and could not. The property speaks of processes that are done; what carries it there is that no step before the record drops a network it made without removing it. |
| `SerialHistory` | `Spec => []SerialHistoryMatchesStack` | `Undisturbed`: as long as operations neither overlapped nor broke off, at most one process runs. If it is `Between` (deployed and not recorded, or an uninstall that has removed the stack), `AtPoint` says what is still missing: the stack is the manifest it will record, above every record, or there is no stack and every record is on its list of deletions. Otherwise `StackIsNewest`. A prune keeps it because each number on its list is below one that is not. |
| `HistoryIsALog` | `Spec => ImplementsReleaseLog` | The log is the records by their *rank*, the number of records up to theirs. `RankGrows`, and the lemmas on what one more or one less element does to the ranks, turn a stored config into an insertion at its rank and a deleted one into a removal there; where nothing was deleted, `NamesTakenBelow` of `HistoryAppends` makes the rank the last one. |
| **`RolloutProofs`** | | |
| `Invariance` | `Spec => []Inv` | What has been deployed is as wanted (`DeployedIsWanted`); what has not is as it was found, with an update to spare (`RestUntouched`); and `WaitSeesTheUpdate`: until the update of the service waited for begins, the count of its updates is the one read before its deploy. |
| `TypeCorrect` | `Spec => []TypeOK` | `UpdatesCounted`: the bound on a service's updates is inductive only together with "one that is stored and not begun counts too". |
| `RestartsOneAtATime` | `Spec => []OneAtATime` | `OnlyCurrentRestarts`: of the protected services that went, one that restarts is the current one. A wait ends only when it no longer does, because of `WaitSeesTheUpdate`; the cardinality is then that of a subset of a singleton. |
| `NoServiceLost` | `Spec => []EveryServiceDeployed` | `DeployedIsWanted` with `held = {}`. |
| `OnlyTheCurrentCounts` | `MCSpec => []CountsOnlyTheCurrent` | `TasksKnown`: no task is of a spec still to come, and one that ended is not wanted; `UpdateKnown`: what was made since the update began is of its spec. That no more is read than wanted: what is counted is a set of the service's slots, or of its active nodes (`OnActiveNodes`). |
| `FinishedIsFinal` | `MCSpec => FinishedStaysFinished` | `FinishedAs`: what is read as finished is the newest task of its slot, of the spec in force; by `TasksKnown` it is not wanted any more, so that no step touches it, and swarm makes no other for its slot before the next spec. That a slot has a newest task is shown by a least counterexample (`LargestIs`). |
| **`ApplyProofs`** | | |
| `Invariance` | `Spec => []Inv` | `PlanStands` (with nobody else writing, what was found as wanted stays so), `SuccessIsNoop`, `WavesInOrder` (what is still to do comes after what was written), `BarrierAwaits` (what is unsettled is still to be read). The next release exists because waves and releases are well ordered: a set of releases has an earliest one (`FirstExists`, by a least counterexample). |
| `TypeCorrect`, `WavesOneAtATime`, `ReapplyChangesNothing`, `SuccessIsApplied` | `TypeOK`, `PromptWavesOneAtATime`, `ReapplyIsNoop`, `SuccessMeansApplied` | each follows from `Inv`. |
| **`SessionProofs`** | | |
| `Invariance` | `Spec => []Inv` | `SwitchKnowsItsEnds`, `MessagesKnown` (types of what is under way, needed before anything may be assigned to the pin), `RefreshFlagged`, and `BuildsForThePin`: whoever holds `clientMu` builds for the pin, or somebody is about to drop the client that results. |
| `TypeCorrect`, `ClientFollowsThePin` | `TypeOK`, `ClientIsThePins` | from `Inv`. |
| `AskedOncePerTarget` | `Spec => AskedOnce` | `OfferedStands`: while a context counts as offered, the shell is there still, no check under way can name another, and as long as the pin is elsewhere the prompt for it is open, was declined or is being taken back. An answer that says the same is then never new. |
| **`ProgressProofs`** | | |
| `UsageOfThisContext` | `Spec => []UsageIsSinceReset` | `RoundsKnown`: there is one chain (one round or one tick), and a round of the present generation measured only contexts pinned since the reset. `SwitchesBounded` counts the generations a switch may still use, `LoadsKnown` the loads; without these the bounds in the types are not inductive. |
| `LogsInOrder` | `Spec => []ShownInOrder` | `Ordered`: of each source, the buffer, the message, the channel and what the scanner holds are consecutive lines (`Runs`), as long as the pump is `Live`; once it has stopped, only the buffer is. Each hand-over moves a line across one of these borders (`RunsTail`, `RunsTrimmed`, ...). |
| **`ConsoleProofs`** | | |
| `Invariance` | `Spec => []Inv` | One lemma per view and per part of `Inv`, joined over the ten views: `Asking` (panels and dialogs are of their kind, and about a name that was listed), `OutInv` (commands and messages too, and no more of them than there is room for), `ListInv`, `RowedInv`, `Fits`, `PollInv`, `Backs`, `ChildInv`. |
| `TypesHold` | `Spec => []TypeOK` | The bound on the rows of a list is not inductive: a config or secret created beside a load is added although it is listed already. `Fits` counts what is `Owed`, the commands and messages under way that will add a row; each was begun by a key or an event, so that rows and rows owed stay within the names and the events so far. |
| `PollNeverLost` | `Spec => []StaysPolled` | `PollInv`: a generation is used up only with an entry, and an entry only after a navigation, which is an event; a view on the screen has a beat of its generation; and the charts view, which arms its beat when a read has come back, either has a read under way (`Reading`) or has a beat when it believes one scheduled (`Scheduled`). |
| `CursorStaysInList` | `Spec => []NeverOutOfList` | `OnARow`, from what the operators on rows return: `Filtered`, `InOrder` and `Sorted` keep what is listed (`Listing`), and `RowOf` and `InBounds` give a row of it. |
| `ChildStaysShown` | `Spec => []ChildIsShown` | `ChildInv`, with `ReleasesLoadedIs` for the load, which moves the cursor and takes away rows in one step. |
| `OrderStaysAsTold` | `Spec => []OrderIsAsTold` | `AsTold`: the rows are `Ordered`; and arranging what is in order changes nothing (`OrderedStays`, from the uniqueness of an ordered arrangement, by a least counterexample). |
| `DialogNamesWhatIsDone` | `Spec => DoesWhatItNamed` | `AskedInv`: as long as anything is pending, what the handler of an answer will read (`pendingAction`, the name kept beside it) is what the dialog shown last tells; so it does not matter which dialog the answer was to, or how late it is heard. Every other step of these views begins nothing that is asked for (`BeginsNothingAsked`), and in the networks view, which acts at the key, the key reaches a dialog only when one is open (`DialogKeyIs`). `Pended`, a part of `Inv`, says that an edit is never what is pending in the configs view, so that no answer makes a row. |
| `NeverLeftFrozen` | `Spec => []NeverFrozen` | Under `Inv`, `LiveInv`: in the secrets view, whose beat looks only when its state is *ready*, the state is an error only while the dialog that tells of it is open (`Settled`); and there and in the charts view, a state that waits for a load has one under way, or its answer on its way (`Awaited`). A load that was lost to another view is begun again on the return, so that this need hold only on the screen. With nothing under way, `PollInv` then gives the beat. |
| **`LogScreenProofs`** | | |
| `LogInvariance` | `MCSpec => []LogInv` | `LinedUp`: the buffer is full and its lines are numbered one after the other; `Rowed`: no row drawn is of a line newer than the newest kept, though its own may be gone; `UpToDate`: the matches are those of what is drawn, as long as its lines are kept and none is long, since a mark takes a line out before anything is drawn again. |
| `ReaderKeepsThePlace` | `MCSpec => KeepsThePlace` | What is drawn is a set of rows by their rank. `ByKeyIs` says what the row at a position is, `OneHigher` and `RowsThatStay` that a newer line leaves the rank of every row, and that the oldest one, of one row, lowers each by one: which is what `syncViewport` takes off the offset. The viewport's arithmetic (`Bottom`, `Kept`, `ScrollToMatch`) does the rest. |
| **`PartsProofs`** | | |
| `ReportsAreDisclosed` | `Spec => []SentAsDisclosed` | `StoredKnown` and `ProgramsKnown`: a program that may still report has shown the disclosure, or found an identity, which was stored by one that had. |
| `LayoutFits` | `Spec => []FitsTheScreen` | `LayoutKnown`: the room of the view on the screen is what the bars leave, and at most one bar is open. `MailKnown` says what late messages may still ask for. |
| `LoadsArePublished` | `Spec => []LoadsWhatWasPublished` | `RunsKnown`: every list of versions that a command, a file or a publisher holds was published (`Listed`); an archive is what its digest says or spoilt; what a command pulls it has chosen from such a list. |
| `CachesAreRight` | `Spec => []CacheIsItsRepositorys` | `CacheInv`: without overlap, a command that fetches goes to the configured URL, and one that adds has the index in the cache before it has the list, from a moment at which no repository is configured. That a list of commands to do is a suffix of one of a few fixed ones (`Todos`) is what makes the steps known. |
| `OthersWorkIsKept` | `Spec => KeepsWhatOthersDid` | `AsRead`: what was read of a service is what the service still is, if it still has the version that was read. A write that is accepted then changes only what was read *and still holds*. `SeenKnown` counts the refusals of a node's change against the node's version, so that it fails only after as many changes of others. |
| `EditsAreCarried` | `Spec => EditChangesOnlyTheEdit` | `FileKnown`: each section of an edited file is the one made of the service it stands for (`Copied`), but for what was written anew, and what it leaves empty is withheld from the deploy (`EmptyIsWithheld`). `ConvertedIs` then goes through a service's spec thing by thing: there and back is the same, or is named by `Loses`; of CPUs, that what three decimals hold is left alone (`CPUString`). For a volume and a network, which the first service to name them declares, that needs that nobody who was read clashes (`MountIsKept`, `NetIsKept`). |

A module keeps one lemma per action, or per fact that is used twice, and each step lemma has one step per conjunct the action can disturb. The models have no recursive operator, and "the highest number" is written as a set (`NextRevisions`), so that the same definitions serve TLC and the provers. The assumptions are weak ones: finite sets of parties, bounds that are natural numbers, and that the values that stand for "none" are not among the others.

Only model-checked:

- Everything temporal under fairness (`EveryOperationEnds`, `RolloutCompletes`, `ApplyEnds`, `SnapshotCatchesUp`, `LinesArrive`, `HeaderCatchesUp`): out of this prover's reach.
- The properties of the runs that expect a violation.

## Where code and documentation disagree

1. **Orphaned networks** (`release_orphans`, `UninstallReportsItsNetworks`). `UninstallResult` promises the auto-created networks that still exist, and the comment in `Uninstall` says that a union over all revisions finds them. The union is over revisions still *stored*: install creates a network, an upgrade with `--history-max 1` trims the one revision that recorded it, uninstall reports nothing (`charts/release.go:833`).
2. **A re-run does not wait** (`rollout_rerun`, `NextWaitsForTheLast`). A wait for service 1 times out, and the upgrade is run again, as the README advises. Service 1's template is already the new one, so `waitRolled` returns at once and service 2 restarts next to it (`charts/rollout.go:148`).
3. **The barrier reads too early** (`apply_barrier`, `OneWaveAtATime`). `waitWave` compares with nothing read before the deploy. If swarm has not begun the update at the first poll, the old generation counts as converged and the next wave goes out; `charts/rollout.go:131-135` describes this very reading and guards against it, the barrier does not (`charts/release.go:1310`).
4. **A revert that goes nowhere** (`session_revert`, `RevertGoesBack`). While a switch is pending the contexts view goes on refreshing its list, which marks the pin, and `ValidateContext` has moved the pin before it probes. If a refresh falls in between, the context being *entered* is taken for the one being left. When its snapshot does not load, the dialog says "Reverted to previous context." and the session is where it was (`views/contexts/update.go:119`).
5. **A page down before the first row** (`console_crash`, `NeverCrashes`). `ApplyFilter` says "Keep cursor in bounds"; page down in the used-by list of a network that nobody uses clamps to `len-1`, which is -1, and enter indexes with it: the program ends in a panic (`views/networks/update.go:573`). The same page down is in the lists of networks (888) and volumes (`views/volumes/update.go:219`), where the next changed load does it, and in the contexts view's import browser before its directory is listed (`views/contexts/update.go:631`). `NeverOutOfList` is therefore stated of the other views.

### Limits found while modelling

These are conditions in a property, or values of `Loses`, which the code makes necessary; nothing in the repository says otherwise.

- The configs, secrets and contexts views act on what is pending when an answer is heard, not when it is given (`views/confirmdialog/confirmdialog.go:70-72`; `views/configs/update.go:423-459`, `views/secrets/update.go:301-323`, `views/contexts/update.go:264-292`). *y* on a dialog about one object, and then the key that asks about another, or a late `editConfigDone` with its own question, before that answer's `ResultMsg` is handled: the second is done although its dialog was not answered, and an *n* to it comes too late. The stacks, services and nodes views act on the row the cursor is on by then. The window is the time Bubble Tea takes to run one command.
- A line of more than 64 KB, `bufio.Scanner`'s default, ends the scanner of a stream that is not a TTY's without a word, and nothing closes its pipe: `StdCopy` stays where it writes into it, and no line of either source arrives any more on a stream that looks open (`views/logs/stream.go:94-109`, 87). The raw path takes 256 KB and reports a longer line (166-181). `LinesArrive` is stated of streams without such a line (`overlong`).
- The log view takes the *lines* dropped from a full buffer off the viewport's offset, which counts *rows* (`views/logs/update.go:295-298`): a wrapped, hidden or marked line at the top moves the reader. A mark ignores the trim's result (`views/logs/handlekey.go:134-146`), and search matches are positions before wrapping (`update.go:482`). `KeepsThePlace` speaks of lines of one row.
- A stack that is edited and written back loses an entrypoint (`docker/stack_to_compose.go:493-498`), the external mark of a volume with a driver (418-441), one of two networks or volumes whose names strip alike (404-416), a parallelism of 0 (929), a restart delay of 0 (724), the decimals of a CPU share beyond the third (1092-1098: 0.0625 of a CPU becomes 0.062, 0.0004 none), a port's host mode (1050), spread preferences, a job's mode, network aliases, the options of a tmpfs, a bind's propagation, a volume's labels and NoCopy (500-531), and anonymous volumes (516). The digest an image is pinned to is left out (473, 1038-1045, on purpose): a service nobody edited is pinned anew to what its tag names by then.
- Two programs that add a repository at once keep one of the two (`charts/repo.go:292-321`), and `repos.json` is written in place (997): `CacheIsItsRepositorys` is stated of commands that do not overlap. Two first launches beside each other make two identities, of which one is kept.

## What is not modelled

- Rendering, values, linting and compatibility of charts: pure functions; the engine's behaviour depends only on their outcome.
- Volumes after an uninstall, external secrets and configs beyond their part in the pre-flight, and read-only commands.
- `DOCKER_CONTEXT`, `GetClient`'s named siblings (`ClientFor`), unlocking a swarm.
- Ages, warnings and stability windows of convergence; `Rollout` and `Apply` take a service's tasks together.
- The inspect, help and loading views, drawing, the horizontal scroll, node and task names in log lines; commands an extension registers.
- Fields of a service that `stack_to_compose.go` copies without a choice (user, capabilities, sysctls, logging, ...).
- Expiry of a cached index by age, `outdated.go`'s comparison, the checks of names and URLs; settings; how and what the check-in sends over HTTP.
- Daemon events: each only triggers a refresh, which `Session` and `Console` let happen at any time.
- A *failing* read of a stack's services in `heldForRollout`, which the code takes for "not running" and which would break `OneAtATime` by itself (a hazard in `PROJECT.json`).
- Two switches at once, possible after leaving the contexts view: beyond the bound of `session`.

## Plan

The order in which the project was built, with what is left:

1. `ReleaseEngine`, `ReleaseLog`, refinement, with a theorem for every safety property: done.
2. `Rollout`, `Apply`, `Convergence` with their theorems: done. Left: a rollout inside a wave, with the barrier reading per-service phases.
3. `Session` with its theorems: done for one switch. Left: loads that carry the switch they belong to, and two overlapping switches.
4. The TUI: app root, the ten views, the log view, the header: done, with theorems about the layout, the views, the log view and the header. Left: the inspect view.
5. Swarm operations, stack edits, repositories, check-in: done, with their theorems. Left: secrets as an object of their own, the expiry of an index.
