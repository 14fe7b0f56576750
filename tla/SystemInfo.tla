------------------------------ MODULE SystemInfo ------------------------------
(***************************************************************************)
(* The header of the TUI: the context's name with its counts, re-read on   *)
(* the app's tick, and the CPU and memory in use, measured by one chain of *)
(* rounds, while the context moves under both (Session has the switch in   *)
(* full). What is measured is left out but for the context it was measured *)
(* in.                                                                     *)
(***************************************************************************)
EXTENDS Integers, Sequences, FiniteSets, Functions

CONSTANTS
  Contexts,      \* the Docker contexts
  MaxSwitches,   \* bound on switches of the context
  MaxStatuses    \* bound on loads of the counts under way at once

None == "none"

VARIABLES
  pin,                  \* the session's context
  from, next, loading,  \* what a switch left, its step, and what a failed load goes back to
  generation,           \* the model's, advanced by ResetResourceUsage
  rounds, ticks,        \* rounds under way, [gen, of], and armed ticks
  usage, before,        \* the contexts the values shown were read in, and those their trend compares with
  since,                \* (history) the contexts pinned since ResetResourceUsage
  statuses, appTicks,   \* loads of the counts under way, [name, of], and armed app ticks
  name, counts,         \* the context's name shown, and the context of the counts shown
  switches

switch == <<pin, from, next, loading>>
measured == <<generation, rounds, ticks, usage, before>>
counted == <<statuses, appTicks, name, counts>>
vars == <<switch, measured, counted, since, switches>>

Round(g) == [gen |-> g, of |-> <<>>]
Measured(i) == Len(rounds[i].of) = 2
Status == [name |-> None, of |-> None]

-----------------------------------------------------------------------------
(***************************************************************************)
(* The context                                                             *)
(***************************************************************************)
ResetResourceUsage == generation' = generation + 1 /\ usage' = {} /\ before' = {} /\ since' = {pin'} /\ UNCHANGED <<rounds, ticks>>

\* ValidateContext moves the pin first, and moves it back when the context does not answer.
ValidateContext(c) ==
  /\ next = "idle" /\ switches < MaxSwitches /\ c # pin
  /\ pin' = c /\ from' = pin /\ next' = "validating" /\ switches' = switches + 1
  /\ since' = since \cup {c}
  /\ UNCHANGED <<loading, measured, counted>>

\* The end of the switch is told to the contexts view, and lost when that has been left.
Validated ==
  /\ next = "validating"
  /\ \/ pin' = from /\ next' = "idle"
     \/ UNCHANGED pin /\ next' \in {"switched", "idle"}
  /\ since' = since \cup {pin'}
  /\ UNCHANGED <<from, loading, measured, counted, switches>>

EnterContext ==
  /\ next = "switched" /\ next' = "idle" /\ loading' = from /\ UNCHANGED <<pin, from>>
  /\ ResetResourceUsage
  /\ statuses' = statuses \cup {Status} /\ UNCHANGED <<appTicks, name, counts>>
  /\ UNCHANGED switches

SnapshotLoaded ==
  /\ loading # None /\ loading' = None
  /\ \/ UNCHANGED <<pin, measured, since>>
     \/ pin' = loading /\ ResetResourceUsage
  /\ UNCHANGED <<from, next, counted, switches>>

-----------------------------------------------------------------------------
(***************************************************************************)
(* CPU and memory                                                          *)
(***************************************************************************)
\* GetSwarmResourceUsage asks for a client twice, and has the pinned context's each time:
\* for the memory the percentage is of, then for the containers.
Measure ==
  /\ \E i \in DOMAIN rounds : ~Measured(i) /\ rounds' = [rounds EXCEPT ![i].of = Append(@, pin)]
  /\ UNCHANGED <<generation, ticks, usage, before, since, switch, counted, switches>>

SlowStatusAnyGeneration ==
  /\ \E i \in DOMAIN rounds :
       /\ Measured(i)
       /\ usage' = Range(rounds[i].of) /\ before' = usage
       /\ rounds' = SubSeq(rounds, 1, i - 1) \o SubSeq(rounds, i + 1, Len(rounds)) /\ ticks' = ticks + 1
  /\ UNCHANGED <<generation, since, switch, counted, switches>>

\* SlowStatusMsg: a round of another generation is begun again at once.
SlowStatus ==
  /\ \E i \in DOMAIN rounds :
       /\ Measured(i)
       /\ IF rounds[i].gen # generation
          THEN rounds' = [rounds EXCEPT ![i] = Round(generation)] /\ UNCHANGED <<ticks, usage, before>>
          ELSE /\ usage' = Range(rounds[i].of) /\ before' = usage
               /\ rounds' = SubSeq(rounds, 1, i - 1) \o SubSeq(rounds, i + 1, Len(rounds)) /\ ticks' = ticks + 1
  /\ UNCHANGED <<generation, since, switch, counted, switches>>

Tick ==
  /\ ticks > 0 /\ ticks' = ticks - 1 /\ rounds' = Append(rounds, Round(generation))
  /\ UNCHANGED <<generation, usage, before, since, switch, counted, switches>>

-----------------------------------------------------------------------------
(***************************************************************************)
(* The name and the counts                                                 *)
(***************************************************************************)
AppTickOnce ==
  /\ appTicks > 0 /\ Cardinality(statuses) < MaxStatuses
  /\ statuses' = statuses \cup {Status} /\ appTicks' = appTicks - 1
  /\ UNCHANGED <<name, counts, switch, measured, since, switches>>

\* handleTick re-arms itself before anything it begins has ended.
AppTick ==
  /\ appTicks > 0 /\ Cardinality(statuses) < MaxStatuses
  /\ statuses' = statuses \cup {Status} /\ UNCHANGED appTicks
  /\ UNCHANGED <<name, counts, switch, measured, since, switches>>

\* LoadStatus: the name is read, then the counts are asked for.
ReadStatus(got) ==
  /\ \E s \in statuses : (s.name # None) = got /\ s.of = None
       /\ statuses' = (statuses \ {s}) \cup {IF got THEN [s EXCEPT !.of = pin] ELSE [s EXCEPT !.name = pin]}
  /\ UNCHANGED <<appTicks, name, counts, switch, measured, since, switches>>

SetContent ==
  /\ \E s \in statuses : s.of # None /\ statuses' = statuses \ {s} /\ name' = s.name /\ counts' = s.of
  /\ UNCHANGED <<appTicks, switch, measured, since, switches>>

-----------------------------------------------------------------------------
Init ==
  /\ pin \in Contexts /\ from = None /\ next = "idle" /\ loading = None
  /\ generation = 0 /\ rounds = <<Round(0)>> /\ ticks = 0 /\ usage = {} /\ before = {} /\ since = {pin}
  /\ statuses = {Status} /\ appTicks = 1 /\ name = pin /\ counts = None /\ switches = 0

Next ==
  \/ (\E c \in Contexts : ValidateContext(c)) \/ Validated \/ EnterContext \/ SnapshotLoaded
  \/ Measure \/ SlowStatus \/ Tick \/ AppTick
  \/ ReadStatus(FALSE) \/ ReadStatus(TRUE) \/ SetContent

\* Commands end, timers fire and messages are delivered; nobody need switch, press or quit.
Fairness ==
  /\ WF_vars(Validated) /\ WF_vars(EnterContext) /\ WF_vars(SnapshotLoaded)
  /\ WF_vars(Measure) /\ WF_vars(SlowStatus) /\ WF_vars(Tick) /\ WF_vars(AppTick)
  /\ WF_vars(ReadStatus(FALSE)) /\ WF_vars(ReadStatus(TRUE)) /\ WF_vars(SetContent)

Spec == Init /\ [][Next]_vars /\ Fairness

-----------------------------------------------------------------------------
(***************************************************************************)
(* What must hold                                                          *)
(***************************************************************************)
\* Every piece of state keeps to its type; "One chain in, one chain out - a round cannot
\* start while a round is running": one round is under way or one tick is armed.
TypeOK ==
  /\ {pin, name} \subseteq Contexts /\ {from, loading, counts} \subseteq Contexts \cup {None} /\ usage \cup before \subseteq Contexts
  /\ next \in {"idle", "validating", "switched"} /\ generation \in 0..(2 * MaxSwitches)
  /\ \A i \in DOMAIN rounds : rounds[i].gen <= generation /\ Range(rounds[i].of) \subseteq Contexts
  /\ Len(rounds) + ticks = 1 /\ appTicks = 1
  /\ Cardinality(statuses) <= MaxStatuses + MaxSwitches

\* What is shown was read in contexts that the session has been in since the values were
\* last reset: "A round already in flight is discarded when it lands".
UsageIsSinceReset == usage \cup before \subseteq since

\* Once the context moves no more, the header comes to show it, in its name, its counts
\* and its usage, and goes on showing it: nothing that was read before is told last.
HeaderCatchesUp == <>[](name = pin /\ counts = pin /\ usage = {pin} /\ before \subseteq {pin})

=============================================================================
