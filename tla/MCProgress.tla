---------------------------- MODULE MCProgress ----------------------------
(***************************************************************************)
(* What has to come to its end, in one run: a rollout with a patient       *)
(* engine, the engine's operations on one release that uses no network, the *)
(* log view and the header. They share nothing; a behaviour is one of them *)
(* from its initial states on while the others rest.                       *)
(***************************************************************************)
EXTENDS Integers, Sequences, FiniteSets

CONSTANTS
  NumServices, Templates, Bootstrap, Starts, MaxOps,
  Clients, Manifests, MaxRecordRetries, MaxRev, MaxBegun, NoConfig, Foreign, NoStack, Nobody,
  ChannelRoom, MaxLines, MaxWrites, MaxKeys,
  Contexts, MaxSwitches, MaxStatuses

VARIABLES
  part,
  spec, prev, working, task, update, started, pc, want, others, held, current, before, ops, base, protected,
  configs, stack, scope, call, job, begun, maker, owned, trimmed, wiped, removed, disturbed,
  service, wrote, overlong, producer, copier, copied, scanners, scanned, lines, errs, closed, cancelled, stopping,
  place, pump, message, buffer, keys,
  pin, from, next, loading, generation, rounds, ticks, usage, trendOf, since, statuses, appTicks, name, counts, switches

ASSUME HeaderAssumption == MaxSwitches \in Nat /\ MaxStatuses \in Nat \ {0}
ASSUME LogsAssumption ==
  ChannelRoom \in Nat /\ MaxLines \in Nat /\ MaxWrites \in Nat /\ MaxKeys \in Nat

Rollouts == INSTANCE Rollout
Releases == INSTANCE ReleaseEngine WITH
  Networks <- {}, Uses <- [m \in Manifests |-> {}], AutoCreate <- {}, LocalNames <- {},
  ForeignNames <- {2}, Keeps <- {1}, MaxOps <- MaxBegun, pc <- call, ops <- begun
Logs == INSTANCE LogStream WITH held <- scanned
Header == INSTANCE SystemInfo WITH before <- trendOf

Parts == {"rollout", "releases", "logs", "header"}
rollouts == <<spec, prev, working, task, update, started, pc, want, others, held, current, before, ops, base, protected>>
releases == <<configs, stack, scope, call, job, begun, maker, owned, trimmed, wiped, removed, disturbed>>
logs == <<service, wrote, overlong, producer, copier, copied, scanners, scanned, lines, errs, closed, cancelled, stopping,
          place, pump, message, buffer, keys>>
header == <<pin, from, next, loading, generation, rounds, ticks, usage, trendOf, since, statuses, appTicks, name, counts, switches>>
vars == <<part, rollouts, releases, logs, header>>

\* What rests does so in one of its initial states.
Init ==
  /\ part \in Parts
  /\ Rollouts!Init /\ (part # "rollout" => ~others /\ task[1] = "up" /\ spec[1] = CHOOSE t \in Templates : TRUE)
  /\ Releases!Init /\ (part # "releases" => configs[2] = NoConfig)
  /\ Logs!Init /\ (part # "logs" => producer = "opening")
  /\ Header!Init /\ (part # "header" => pin = CHOOSE c \in Contexts : TRUE)

Next ==
  \/ part = "rollout" /\ Rollouts!PatientNext /\ UNCHANGED <<part, releases, logs, header>>
  \/ part = "releases" /\ Releases!Next /\ UNCHANGED <<part, rollouts, logs, header>>
  \/ part = "logs" /\ Logs!Next /\ UNCHANGED <<part, rollouts, releases, header>>
  \/ part = "header" /\ Header!Next /\ UNCHANGED <<part, rollouts, releases, logs>>

\* The fairness of PatientSpec, ReleaseEngine, LogStream and SystemInfo, for the one that runs.
Fairness ==
  /\ WF_rollouts(part = "rollout" /\ Rollouts!EngineForward)
  /\ \A s \in 1..NumServices : WF_rollouts(part = "rollout" /\ Rollouts!SwarmForward(s))
  /\ \A c \in Clients :
       WF_releases(part = "releases" /\ (Releases!Deploying(c) \/ Releases!Recording(c) \/ Releases!Finishing(c)))
  /\ WF_logs(part = "logs" /\ Logs!Producing) /\ WF_logs(part = "logs" /\ Logs!StopStreaming)
  /\ WF_logs(part = "logs" /\ Logs!PumpReads) /\ WF_logs(part = "logs" /\ Logs!Delivered)
  /\ WF_header(part = "header" /\ Header!Validated) /\ WF_header(part = "header" /\ Header!EnterContext)
  /\ WF_header(part = "header" /\ Header!SnapshotLoaded) /\ WF_header(part = "header" /\ Header!Measure)
  /\ WF_header(part = "header" /\ Header!SlowStatus) /\ WF_header(part = "header" /\ Header!Tick)
  /\ WF_header(part = "header" /\ Header!AppTick)
  /\ WF_header(part = "header" /\ Header!ReadStatus(FALSE)) /\ WF_header(part = "header" /\ Header!ReadStatus(TRUE))
  /\ WF_header(part = "header" /\ Header!SetContent)

Spec == Init /\ [][Next]_vars /\ Fairness

-----------------------------------------------------------------------------
\* Rollout: with a patient engine and a swarm that does its part, an upgrade of a running
\* cluster, or one that tells a peer of a stopped cluster to bootstrap it, ends with every
\* peer up.
RolloutCompletes == Rollouts!RolloutCompletes

\* ReleaseEngine: every operation ends: neither the collision retries of record nor the
\* deletions go on for ever. The processes are alike, and one stands for all.
EveryOperationEnds == LET c == CHOOSE c \in Clients : TRUE IN call[c] # "idle" ~> call[c] = "idle"

\* LogStream: the lines shown of a source follow one another, whatever was lost when the
\* view was covered, cancelled or cut off, and channels and buffer keep to their room.
ShownInOrder == Logs!TypeOK /\ Logs!ShownInOrder

\* LogStream: while the view is on the screen and the stream goes on, what is logged is seen.
LinesArrive == Logs!LinesArrive

\* SystemInfo: what is shown was measured in a context the session has been in since the
\* values were last reset, and one round is under way or one tick is armed.
UsageIsSinceReset == Header!TypeOK /\ Header!UsageIsSinceReset

\* SystemInfo: once the context moves no more, name, counts and usage come to be that
\* context's and stay so.
HeaderCatchesUp == part = "header" => Header!HeaderCatchesUp
=============================================================================
