------------------------------- MODULE Apply -------------------------------
(***************************************************************************)
(* charts/apply.go: converging the swarm to a release file, in waves, with *)
(* cli/apply.go around it.  A plan is computed from one read of every      *)
(* release and then carried out release by release, while other appliers   *)
(* and operators write releases too.                                       *)
(*                                                                         *)
(* What a deploy does inside is module ReleaseEngine: here it is one step, *)
(* which records a revision or leaves the release as it was.               *)
(***************************************************************************)
EXTENDS Integers, FiniteSets

CONSTANTS
  NumReleases,  \* releases, numbered in the order of a release file
  Wave,         \* [Releases -> Int]: each one's wave
  Contents,     \* what a release deploys: chart, values and manifest, and files
  Deployed,     \* those the releases may have when nothing has been applied yet
  Files,        \* the release files applied: an owner and the wanted contents
  Clients,      \* the processes applying them
  Prompt,       \* the values prompt may have
  MaxOps,       \* bound: applies begun, releases written by hand, and failures
                \*   of a release that had come up
  NoOwner,      \* no owner: an unstamped release, a file with no owner key
  NoContent     \* the content of a release that does not exist

Releases == 1..NumReleases

\* The releases a file declares.
Declared(file) == DOMAIN file.want

ASSUME ApplyAssumption ==
  /\ NumReleases \in Nat /\ MaxOps \in Nat /\ Prompt \subseteq BOOLEAN
  /\ Wave \in [Releases -> Int] /\ Deployed \subseteq Contents /\ NoContent \notin Contents
  /\ \A file \in Files :
       Declared(file) \subseteq Releases /\ file.want \in [Declared(file) -> Contents]

VARIABLES
  current,   \* each release's current revision, or that there is none
  prompt,    \* swarm begins every update before the first read after its deploy
  health,    \* how far swarm has brought what was last deployed
  pc,        \* each client's next step
  file,      \* the file it applies
  action,    \* its plan: what it will do to each declared release
  todo,      \* the planned releases it has not come to
  wrote,     \* what it deployed in this wave
  unread,    \* of those, what this poll of the barrier has still to read
  result,    \* how its last apply ended
  ops,       \* bounded by MaxOps
  \* History variables: read by the properties, never by a guard.
  unsettled, \* what this apply deployed and swarm has not yet brought up
  alone      \* nobody else wrote a release since this apply planned

locals == <<file, action, todo, wrote, unread, result>>
vars   == <<current, prompt, health, pc, file, action, todo, wrote, unread, result, ops,
            unsettled, alone>>

Absent == [content |-> NoContent, owner |-> NoOwner]
NoPlan == [r \in {} |-> {}]
NoFile == [owner |-> NoOwner, want |-> NoPlan]

-----------------------------------------------------------------------------
(***************************************************************************)
(* Planning                                                                *)
(***************************************************************************)

\* unchanged as it was before files were compared.
UnchangedIgnoringFiles(rev, content, owner) ==
  /\ rev.content # NoContent
  /\ rev.content.manifest = content.manifest
  /\ ~(owner # NoOwner /\ rev.owner # NoOwner /\ rev.owner # owner)

\* unchanged: the current revision encodes what is wanted, and no stamp on it
\* names somebody else.  An absent stamp contradicts nothing.
Unchanged(rev, content, owner) ==
  /\ rev.content = content
  /\ ~(owner # NoOwner /\ rev.owner # NoOwner /\ rev.owner # owner)

\* planRelease.
PlanAction(f, r) ==
  IF current[r] = Absent THEN "install"
  ELSE IF Unchanged(current[r], f.want[r], f.owner) THEN "unchanged" ELSE "upgrade"

\* The plan order: waves ascending, and the file's order within one.
Before(r, s) == Wave[r] < Wave[s] \/ (Wave[r] = Wave[s] /\ r < s)

NextRelease(c) == CHOOSE r \in todo[c] : \A s \in todo[c] \ {r} : Before(r, s)

-----------------------------------------------------------------------------
Init ==
  /\ \E rev \in {Absent} \cup [content : Deployed, owner : {NoOwner}] :
       current = [r \in Releases |-> rev]
  /\ prompt \in Prompt
  /\ health = [r \in Releases |-> IF current[r] = Absent THEN "progressing" ELSE "converged"]
  /\ pc = [c \in Clients |-> "idle"]
  /\ file = [c \in Clients |-> NoFile]
  /\ action = [c \in Clients |-> NoPlan]
  /\ todo = [c \in Clients |-> {}]
  /\ wrote = [c \in Clients |-> {}]
  /\ unread = [c \in Clients |-> {}]
  /\ result = [c \in Clients |-> "none"]
  /\ ops = 0
  /\ unsettled = [c \in Clients |-> {}]
  /\ alone = [c \in Clients |-> TRUE]

\* PlanApply of every declared release from one read of the history, and the
\* gate on the whole plan; with nothing to do apply ends there.
Plan(c) ==
  /\ pc[c] = "idle"
  /\ ops < MaxOps
  /\ ops' = ops + 1
  /\ \E f \in Files :
       /\ file' = [file EXCEPT ![c] = f]
       /\ todo' = [todo EXCEPT ![c] = Declared(f)]
       /\ LET plan == [r \in Declared(f) |-> PlanAction(f, r)]
          IN IF \A r \in Declared(f) : plan[r] = "unchanged"
             THEN /\ UNCHANGED <<pc, action>>
                  /\ result' = [result EXCEPT ![c] = "ok"]
             ELSE /\ pc' = [pc EXCEPT ![c] = "apply"]
                  /\ action' = [action EXCEPT ![c] = plan]
                  /\ result' = [result EXCEPT ![c] = "none"]
  /\ wrote' = [wrote EXCEPT ![c] = {}]
  /\ unsettled' = [unsettled EXCEPT ![c] = {}]
  /\ alone' = [alone EXCEPT ![c] = TRUE]
  /\ UNCHANGED <<prompt, current, health, unread>>

\* A deploy of r records a revision: swarm begins the update at once, or leaves
\* the generation before it running for a moment still.
Write(r, content, owner) ==
  /\ current' = [current EXCEPT ![r] = [content |-> content, owner |-> owner]]
  /\ health' = [health EXCEPT ![r] = IF ~prompt /\ @ = "converged"
                                     THEN "unbegun" ELSE "progressing"]

\* What is left of the plan is in a later wave, and this wave has deployed.
AtBarrier(c) ==
  /\ wrote[c] # {} /\ todo[c] # {}
  /\ \A r \in wrote[c] : Wave[r] < Wave[NextRelease(c)]

\* An unchanged release is skipped: neither deployed nor waited for.
Skip(c) ==
  /\ pc[c] = "apply" /\ todo[c] # {} /\ ~AtBarrier(c)
  /\ action[c][NextRelease(c)] = "unchanged"
  /\ todo' = [todo EXCEPT ![c] = @ \ {NextRelease(c)}]
  /\ UNCHANGED <<prompt, current, health, pc, file, action, wrote, unread, result, ops,
                 unsettled, alone>>

\* Apply leaving the stamp of the revision before.
DeployUnstamped(c) ==
  /\ pc[c] = "apply" /\ todo[c] # {} /\ ~AtBarrier(c)
  /\ LET r == NextRelease(c)
     IN /\ action[c][r] # "unchanged"
        /\ Write(r, file[c].want[r], current[r].owner)
        /\ todo' = [todo EXCEPT ![c] = @ \ {r}]
        /\ wrote' = [wrote EXCEPT ![c] = @ \cup {r}]
        /\ unsettled' = [unsettled EXCEPT ![c] = @ \cup {r}]
  /\ alone' = [d \in Clients |-> d = c /\ alone[d]]
  /\ UNCHANGED <<prompt, pc, file, action, unread, result, ops>>

\* Upgrade with Install set, which also takes a release that has appeared or
\* gone since the plan.
Deploy(c) ==
  /\ pc[c] = "apply" /\ todo[c] # {} /\ ~AtBarrier(c)
  /\ LET r == NextRelease(c)
     IN /\ action[c][r] # "unchanged"
        /\ Write(r, file[c].want[r], file[c].owner)
        /\ todo' = [todo EXCEPT ![c] = @ \ {r}]
        /\ wrote' = [wrote EXCEPT ![c] = @ \cup {r}]
        /\ unsettled' = [unsettled EXCEPT ![c] = @ \cup {r}]
  /\ alone' = [d \in Clients |-> d = c /\ alone[d]]
  /\ UNCHANGED <<prompt, pc, file, action, unread, result, ops>>

\* Apply returns, and what it knew is gone.
Stop(c, how) ==
  /\ pc' = [pc EXCEPT ![c] = "idle"]
  /\ result' = [result EXCEPT ![c] = how]
  /\ action' = [action EXCEPT ![c] = NoPlan]
  /\ wrote' = [wrote EXCEPT ![c] = {}]
  /\ unread' = [unread EXCEPT ![c] = {}]
  /\ unsettled' = [unsettled EXCEPT ![c] = {}]

\* Upgrade failed before it recorded anything.
DeployFails(c) ==
  /\ pc[c] = "apply" /\ todo[c] # {} /\ ~AtBarrier(c)
  /\ action[c][NextRelease(c)] # "unchanged"
  /\ Stop(c, "failed")
  /\ UNCHANGED <<prompt, current, health, file, todo, ops, alone>>

\* Upgrade recorded a revision and failed after it: the sequential roll, or the
\* wait that --wait asks for.
DeployNotReady(c) ==
  /\ pc[c] = "apply" /\ todo[c] # {} /\ ~AtBarrier(c)
  /\ LET r == NextRelease(c)
     IN /\ action[c][r] # "unchanged"
        /\ Write(r, file[c].want[r], file[c].owner)
  /\ alone' = [d \in Clients |-> d = c /\ alone[d]]
  /\ Stop(c, "failed")
  /\ UNCHANGED <<prompt, file, todo, ops>>

-----------------------------------------------------------------------------
(***************************************************************************)
(* waitWave                                                                *)
(***************************************************************************)

\* The barrier only when --wait was asked for.
BarrierBeginsSkipped(c) ==
  /\ pc[c] = "apply" /\ AtBarrier(c)
  /\ wrote' = [wrote EXCEPT ![c] = {}]
  /\ UNCHANGED <<prompt, current, health, pc, file, action, todo, unread, result, ops,
                 unsettled, alone>>

\* The barrier waiting for what the wave contains and not for what it deployed.
BarrierBeginsForAll(c) ==
  /\ pc[c] = "apply" /\ AtBarrier(c)
  /\ pc' = [pc EXCEPT ![c] = "wait"]
  /\ unread' = [unread EXCEPT ![c] = Declared(file[c]) \ todo[c]]
  /\ UNCHANGED <<prompt, current, health, file, action, todo, wrote, result, ops, unsettled, alone>>

BarrierBegins(c) ==
  /\ pc[c] = "apply" /\ AtBarrier(c)
  /\ pc' = [pc EXCEPT ![c] = "wait"]
  /\ unread' = [unread EXCEPT ![c] = wrote[c]]
  /\ UNCHANGED <<prompt, current, health, file, action, todo, wrote, result, ops, unsettled, alone>>

\* One release of one poll, which starts over when any of them is not there yet.
ReadRelease(c) ==
  \E r \in unread[c] :
    /\ pc[c] = "wait"
    /\ health[r] # "wedged"
    /\ unread' = [unread EXCEPT ![c] = IF health[r] \in {"converged", "unbegun"}
                                       THEN @ \ {r} ELSE wrote[c]]
    /\ UNCHANGED <<prompt, current, health, pc, file, action, todo, wrote, result, ops,
                   unsettled, alone>>

WaveConverged(c) ==
  /\ pc[c] = "wait" /\ unread[c] = {}
  /\ pc' = [pc EXCEPT ![c] = "apply"]
  /\ wrote' = [wrote EXCEPT ![c] = {}]
  /\ UNCHANGED <<prompt, current, health, file, action, todo, unread, result, ops, unsettled, alone>>

\* waitWave with no deadline.
WaveFailsWhenWedged(c) ==
  /\ pc[c] = "wait"
  /\ \E r \in unread[c] : health[r] = "wedged"
  /\ Stop(c, "failed")
  /\ UNCHANGED <<prompt, current, health, file, todo, ops, alone>>

\* A release of the wave is wedged, or the deadline passed at the end of a poll.
WaveFails(c) ==
  /\ pc[c] = "wait"
  /\ \E r \in unread[c] : health[r] \in {"wedged", "progressing"}
  /\ Stop(c, "failed")
  /\ UNCHANGED <<prompt, current, health, file, todo, ops, alone>>

Finish(c) ==
  /\ pc[c] = "apply" /\ todo[c] = {}
  /\ Stop(c, "ok")
  /\ UNCHANGED <<prompt, current, health, file, todo, ops, alone>>

\* The context ends between two releases or in the wait, or the process dies.
Cancel(c) ==
  /\ pc[c] # "idle"
  /\ Stop(c, "cancelled")
  /\ UNCHANGED <<prompt, current, health, file, todo, ops, alone>>

-----------------------------------------------------------------------------
(***************************************************************************)
(* Everybody else                                                          *)
(***************************************************************************)

\* charts install, upgrade or rollback of one release: an unstamped revision.
WrittenByHand(r) ==
  /\ ops < MaxOps
  /\ ops' = ops + 1
  /\ \E content \in Contents : Write(r, content, NoOwner)
  /\ alone' = [c \in Clients |-> FALSE]
  /\ UNCHANGED <<prompt, pc, file, action, todo, wrote, unread, result, unsettled>>

UninstalledByHand(r) ==
  /\ ops < MaxOps
  /\ current[r] # Absent
  /\ ops' = ops + 1
  /\ current' = [current EXCEPT ![r] = Absent]
  /\ health' = [health EXCEPT ![r] = "progressing"]
  /\ alone' = [c \in Clients |-> FALSE]
  /\ UNCHANGED <<prompt, pc, file, action, todo, wrote, unread, result, unsettled>>

\* Swarm begins an update it has stored, brings it up, or gives up on it.
UpdateBegins(r) ==
  /\ health[r] = "unbegun"
  /\ health' = [health EXCEPT ![r] = "progressing"]
  /\ UNCHANGED <<prompt, current, pc, file, action, todo, wrote, unread, result, ops,
                 unsettled, alone>>

Converges(r) ==
  /\ current[r] # Absent /\ health[r] = "progressing"
  /\ health' = [health EXCEPT ![r] = "converged"]
  /\ unsettled' = [c \in Clients |-> unsettled[c] \ {r}]
  /\ UNCHANGED <<prompt, current, pc, file, action, todo, wrote, unread, result, ops, alone>>

Wedges(r) ==
  /\ current[r] # Absent /\ health[r] = "progressing"
  /\ health' = [health EXCEPT ![r] = "wedged"]
  /\ UNCHANGED <<prompt, current, pc, file, action, todo, wrote, unread, result, ops,
                 unsettled, alone>>

Degrades(r) ==
  /\ ops < MaxOps
  /\ ops' = ops + 1
  /\ health[r] = "converged"
  /\ health' = [health EXCEPT ![r] = "progressing"]
  /\ UNCHANGED <<prompt, current, pc, file, action, todo, wrote, unread, result,
                 unsettled, alone>>

-----------------------------------------------------------------------------
Applying(c) ==
  \/ Skip(c) \/ Deploy(c) \/ DeployFails(c) \/ DeployNotReady(c)
  \/ BarrierBegins(c) \/ ReadRelease(c) \/ WaveConverged(c) \/ WaveFails(c) \/ Finish(c)

Next ==
  \/ \E c \in Clients : Plan(c) \/ Applying(c) \/ Cancel(c)
  \/ \E r \in Releases :
       \/ WrittenByHand(r) \/ UninstalledByHand(r)
       \/ UpdateBegins(r) \/ Converges(r) \/ Wedges(r) \/ Degrades(r)

\* An apply that runs goes on, and the deadline of its waits passes.
Fairness == \A c \in Clients : WF_vars(Applying(c)) /\ WF_vars(WaveFails(c))

Spec == Init /\ [][Next]_vars /\ Fairness

-----------------------------------------------------------------------------
(***************************************************************************)
(* Properties                                                              *)
(***************************************************************************)

TypeOK ==
  /\ current \in [Releases -> {Absent} \cup
       [content : Contents, owner : {NoOwner} \cup {f.owner : f \in Files}]]
  /\ prompt \in BOOLEAN
  /\ health \in [Releases -> {"converged", "progressing", "wedged", "unbegun"}]
  /\ pc \in [Clients -> {"idle", "apply", "wait"}]
  /\ file \in [Clients -> Files \cup {NoFile}]
  /\ \A c \in Clients :
       /\ todo[c] \subseteq Declared(file[c])
       /\ wrote[c] \subseteq Declared(file[c]) /\ unread[c] \subseteq wrote[c]
       /\ unsettled[c] \subseteq Declared(file[c])
       /\ IF pc[c] = "idle" THEN action[c] = NoPlan
          ELSE action[c] \in [Declared(file[c]) -> {"install", "upgrade", "unchanged"}]
  /\ result \in [Clients -> {"none", "ok", "failed", "cancelled"}]
  /\ ops \in 0..MaxOps
  /\ alone \in [Clients -> BOOLEAN]

\* "The wave is waited for, and only then does the next start" (Apply): what one
\* apply has deployed and swarm has not yet brought up is of one wave, whatever
\* comes up, wedges or degrades meanwhile.
OneWaveAtATime ==
  \A c \in Clients : \A r, s \in unsettled[c] : Wave[r] = Wave[s]

\* The same, of a swarm that begins every update before the barrier first reads
\* the release: what the wave loop and the barrier promise together.
PromptWavesOneAtATime == prompt => OneWaveAtATime

\* An apply that reports success, with nobody else writing, has left each
\* declared release with the file's content, and under the file's owner unless
\* nobody has stamped it.
SuccessMeansApplied ==
  \A c \in Clients :
    pc[c] = "idle" /\ result[c] = "ok" /\ alone[c] =>
      \A r \in Declared(file[c]) :
        /\ current[r].content = file[c].want[r]
        /\ file[c].owner # NoOwner => current[r].owner \in {NoOwner, file[c].owner}

\* "Re-running is safe: the successful releases become no-ops": what an apply
\* has written in full it does not write again, so that applying a file on
\* every CI run does not grow the config store.
ReapplyIsNoop ==
  \A c \in Clients :
    alone[c] => \A r \in Declared(file[c]) \ todo[c] : PlanAction(file[c], r) = "unchanged"

\* Every apply ends, whatever the swarm does with what it deploys.
ApplyEnds == \A c \in Clients : pc[c] # "idle" ~> pc[c] = "idle"
=============================================================================
