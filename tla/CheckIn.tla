------------------------------- MODULE CheckIn -------------------------------
(***************************************************************************)
(* What a launch of the program reports: the disclosure of the first run,  *)
(* the identity kept in install.json, the check-in that also asks for the  *)
(* latest version, and the heartbeat of a session that stays open.         *)
(* Programs run side by side, and are launched again. What a report says   *)
(* of the machine and the swarm is left out.                               *)
(***************************************************************************)
EXTENDS Integers, FiniteSets

CONSTANTS
  Programs,      \* the places where the program is launched
  MaxIds         \* bound on identities made

Absent == 0      \* install.json holds no identity, or none that can be read

VARIABLES
  home,          \* what the config directory allows: "none", "readable", "writable"
  file,          \* the identity in install.json
  stored,        \* (history) the identities it has held
  program,       \* of each: its environment, its step, the identity it made, the disclosure
  told, sent,    \* (history) the disclosure was on a screen; what left the machine
  ids

vars == <<home, file, stored, program, told, sent, ids>>

Steps == {"closed", "check-in", "write", "written", "asked", "armed", "idle"}
Closed == [env |-> "full", dev |-> FALSE, step |-> "closed", id |-> Absent, notice |-> FALSE]

StepsTo(p, step) == program' = [program EXCEPT ![p].step = step]

-----------------------------------------------------------------------------
(***************************************************************************)
(* Launching and quitting                                                  *)
(***************************************************************************)
IsFirstRun == home # "none" /\ file = Absent

LaunchUntold(p, env, dev) ==
  /\ program[p].step = "closed"
  /\ program' = [program EXCEPT ![p] = [env |-> env, dev |-> dev, notice |-> FALSE, id |-> Absent,
                                        step |-> IF env = "none" \/ dev THEN "idle" ELSE "check-in"]]
  /\ UNCHANGED <<home, file, stored, told, sent, ids>>

\* Init of the app asks whether to disclose before any of its commands is run.
Launch(p, env, dev) ==
  /\ program[p].step = "closed"
  /\ LET notice == env = "full" /\ IsFirstRun
         step == IF env = "none" \/ dev THEN "idle" ELSE "check-in"
     IN /\ program' = [program EXCEPT ![p] = [env |-> env, dev |-> dev, step |-> step, id |-> Absent, notice |-> notice]]
        /\ told' = (told \/ notice)
  /\ UNCHANGED <<home, file, stored, sent, ids>>

\* Any key takes the disclosure off the screen.
Key(p) ==
  /\ program[p].notice /\ program' = [program EXCEPT ![p].notice = FALSE]
  /\ UNCHANGED <<home, file, stored, told, sent, ids>>

Quit(p) ==
  /\ program[p].step # "closed" /\ program' = [program EXCEPT ![p] = Closed]
  /\ UNCHANGED <<home, file, stored, told, sent, ids>>

\* Something else damages or removes the file.
Damage == file # Absent /\ file' = Absent /\ UNCHANGED <<home, stored, program, told, sent, ids>>

-----------------------------------------------------------------------------
(***************************************************************************)
(* Reporting                                                               *)
(***************************************************************************)
Send(p, id) == sent' = sent \cup {id} /\ StepsTo(p, "asked")

\* The identity that is stored; or the plain version check, when there is none to be had
\* or usage is not reported.
ReadInstall(p) ==
  /\ program[p].step = "check-in"
  /\ \/ program[p].env = "full" /\ home # "none" /\ file # Absent /\ Send(p, file)
     \/ (program[p].env # "full" \/ home = "none") /\ Send(p, Absent)
  /\ UNCHANGED <<home, file, stored, told, ids>>

\* WriteFile empties the file before it writes to it.
OpenInstall(p) ==
  /\ program[p].step = "check-in" /\ program[p].env = "full" /\ home # "none" /\ file = Absent
  /\ IF home = "readable" THEN Send(p, Absent) /\ UNCHANGED <<file, ids>>
     ELSE /\ ids < MaxIds /\ ids' = ids + 1 /\ UNCHANGED <<file, sent>>
          /\ program' = [program EXCEPT ![p].step = "write", ![p].id = ids + 1]
  /\ UNCHANGED <<home, stored, told>>

Truncate(p) ==
  /\ program[p].step = "write" /\ file' = Absent
  /\ StepsTo(p, "written")
  /\ UNCHANGED <<home, stored, told, sent, ids>>

\* An identity that could not be written is not used.
Report(p) ==
  /\ program[p].step = "written"
  /\ \/ file' = program[p].id /\ stored' = stored \cup {program[p].id} /\ Send(p, program[p].id)
     \/ Send(p, Absent) /\ UNCHANGED <<file, stored>>
  /\ UNCHANGED <<home, told, ids>>

\* The heartbeat's timer is a day long, armed again when its report was sent, not before.
Heartbeat(p) ==
  /\ \/ program[p].step = "asked" /\ StepsTo(p, IF program[p].env = "full" THEN "armed" ELSE "idle")
     \/ program[p].step = "armed" /\ StepsTo(p, "check-in")
  /\ UNCHANGED <<home, file, stored, told, sent, ids>>

Init ==
  /\ home \in {"none", "readable", "writable"} /\ file = Absent /\ stored = {}
  /\ program = [p \in Programs |-> Closed] /\ told = FALSE /\ sent = {} /\ ids = 0

Next ==
  \/ Damage
  \/ \E p \in Programs :
       \/ \E env \in {"full", "off", "none"}, dev \in BOOLEAN : Launch(p, env, dev)
       \/ Key(p) \/ Quit(p) \/ ReadInstall(p) \/ OpenInstall(p) \/ Truncate(p) \/ Report(p) \/ Heartbeat(p)

Spec == Init /\ [][Next]_vars
-----------------------------------------------------------------------------
(***************************************************************************)
(* What must hold                                                          *)
(***************************************************************************)
\* Every piece of state keeps to its type.
TypeOK ==
  /\ home \in {"none", "readable", "writable"} /\ file \in 0..MaxIds /\ stored \subseteq 1..MaxIds
  /\ sent \subseteq 0..MaxIds /\ told \in BOOLEAN /\ ids \in 0..MaxIds
  /\ program \in [Programs -> [env : {"full", "off", "none"}, dev : BOOLEAN, step : Steps,
                               id : 0..MaxIds, notice : BOOLEAN]]

\* NoticeBody: the first run says what is sent "before anything has been sent". No identity
\* leaves an installation that has not shown it.
NothingSentUntold == sent \subseteq {Absent} \/ told

\* install.go: an identity that is "not persisted" is "not usable". Each identity reported
\* was in the file once, however launches interleave.
ReportsStoredIds == sent \subseteq stored \cup {Absent}
=============================================================================
