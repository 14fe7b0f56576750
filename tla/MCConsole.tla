----------------------------- MODULE MCConsole -----------------------------
(***************************************************************************)
(* The resource views, and beside them the screen of the log view, which   *)
(* shares nothing with them. A behaviour is one of the two from its        *)
(* initial states on while the other rests.                                *)
(***************************************************************************)
EXTENDS Console

CONSTANTS MaxLines, Heights, MaxArrivals, MaxKeys

ASSUME LogScreenAssumption ==
  /\ MaxLines \in Nat \ {0} /\ Heights \subseteq Nat \ {0}
  /\ {MaxArrivals, MaxKeys} \subseteq Nat

VARIABLES
  part,
  buffer, drawn, offset, height, ready, matches, match, reading, told, stopped, arrivals, keys

Logs == INSTANCE LogScreen

log == <<buffer, drawn, offset, height, ready, matches, match, reading, told, stopped, arrivals, keys>>

MCInit ==
  /\ part \in {"lists", "log"}
  /\ Init /\ (part # "lists" => view = CHOOSE v \in Views : TRUE)
  /\ Logs!Init /\ (part # "log" => ~ready)

MCNext ==
  \/ part = "lists" /\ Next /\ UNCHANGED <<part, log>>
  \/ part = "log" /\ Logs!Next /\ UNCHANGED <<part, vars>>

MCSpec == MCInit /\ [][MCNext]_<<part, vars, log>>

-----------------------------------------------------------------------------
\* LogScreen: the reader of the log view stays on the row they scrolled up to, or with the
\* newest, or comes to the match they asked for.
KeepsThePlace == []Logs!TypeOK /\ Logs!KeepsThePlace
=============================================================================
