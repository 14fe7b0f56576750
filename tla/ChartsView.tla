----------------------------- MODULE ChartsView -----------------------------
(***************************************************************************)
(* The charts view (views/charts): a browser of the releases, whose rows   *)
(* expand to revisions and services.  rows: the expanded ones; for:        *)
(* "child" when the cursor is on a row within; step: the state, "loading", *)
(* "ready" or "error"; panel: "error"; flags: "scheduled" and "first",     *)
(* until the first load after each entry.  Only the load arms the next     *)
(* tick, so there is no Tick of the usual kind.                            *)
(***************************************************************************)
EXTENDS ListView

ChartsOrder == <<"error", "dialog">>

ChartsKey(where) == view = "charts" /\ Press /\ KeysGoTo(ChartsOrder) = where

OnChild == form.for = "child"

Expanded == Selected \in form.rows

\* A release asked for by name is looked for in what is loaded.
OpenCharts ==
  /\ view = "charts" /\ EnterEmpty
  /\ form' \in {[Closed EXCEPT !.step = "loading", !.on = n,
                   !.busy = {"scheduled"} \cup (IF n = Nobody THEN {"first"} ELSE {})] : n \in Names \cup {Nobody}}

\* A mutant: the cursor goes to the first row, and stays on a child.
ReturnToChartsOnChild ==
  /\ view = "charts" /\ ReEnter /\ Begin(Load)
  /\ IF form.on = Nobody
     THEN cursor' = 1 /\ With([form EXCEPT !.busy = {"scheduled", "first"}])
     ELSE UNCHANGED cursor /\ With([form EXCEPT !.busy = @ \cup {"scheduled"}])
  /\ UNCHANGED <<entries, ascending, items, query, seen, dialog, pending>>

\* OnEnter clears tickScheduled, of a tick that was dropped, before it arms its own.
ReturnToCharts ==
  /\ view = "charts" /\ ReEnter /\ Begin(Load)
  /\ IF form.on = Nobody
     THEN cursor' = 1 /\ With([form EXCEPT !.busy = {"scheduled", "first"}, !.for = "none"])
     ELSE UNCHANGED cursor /\ With([form EXCEPT !.busy = @ \cup {"scheduled"}])
  /\ UNCHANGED <<entries, ascending, items, query, seen, dialog, pending>>

\* armTick, by a form that f is otherwise.
ArmsIn(f) ==
  /\ form' = [f EXCEPT !.busy = @ \cup {"scheduled"}]
  /\ ticks' = IF "scheduled" \in f.busy THEN ticks ELSE Armed(gen)
  /\ UNCHANGED gen

ChartsChecks == IF visible /\ "error" \notin form.open /\ form.step # "loading" THEN {Check} ELSE {}

\* A beat that checks arms no successor: what the check finds does.
ChartsTick ==
  /\ view = "charts"
  /\ \E g \in Gens :
       /\ ticks[g] > 0
       /\ IF place = "on" /\ g = gen
          THEN ChartsChecks # {} /\ Begin(Check) /\ With(Idle("scheduled"))
          ELSE UNCHANGED <<out, form>>
       /\ ticks' = [ticks EXCEPT ![g] = @ - 1]
  /\ UNCHANGED <<screen, cluster, list, gen, dialog, pending, bounds>>

\* AllRevisions fails as a whole for one record it cannot read.
RunReadReleases ==
  /\ view = "charts"
  /\ \E c \in running :
       \/ /\ Runs(c, {"load", "check"}) /\ UNCHANGED bounds
          /\ Answers(c, {IF c.what = "check" /\ world = c.saw THEN Cmd("same", Nobody) ELSE Saw("releases", world)})
       \/ ReadFails(c, "no-releases")
  /\ UNCHANGED <<screen, cluster, list, poll, asking>>

PollRetry ==
  /\ view = "charts"
  /\ \E m \in mail : Hears(m, {"same"}) /\ Heard(m)
  /\ ArmsIn(form)
  /\ UNCHANGED <<screen, cluster, list, dialog, pending, bounds>>

\* handleReleasesLoaded: the cursor stays with its release, or goes to the one that
\* was asked for; what is no longer listed is no longer expanded.
ReleasesLoaded ==
  /\ view = "charts"
  /\ \E m \in mail :
       /\ Hears(m, {"releases"}) /\ Heard(m) /\ Shows(m.saw)
       /\ LET asked == form.on \in Range(entries')
              row   == IF asked THEN RowOf(form.on, entries')
                       ELSE IF "first" \in form.busy THEN 1
                       ELSE IF Selected \in Range(entries') THEN RowOf(Selected, entries')
                       ELSE InBounds(cursor, entries')
              rows  == (form.rows \cup (IF asked THEN {form.on} ELSE {})) \cap Holds(m.saw)
          IN /\ cursor' = row
             /\ ArmsIn([form EXCEPT !.rows = rows, !.step = "ready", !.busy = @ \ {"first"},
                          !.on = IF entries' # <<>> THEN Nobody ELSE @,
                          !.for = IF ~asked /\ At(row, entries') \in rows THEN @ ELSE "none"])
  /\ UNCHANGED <<screen, cluster, dialog, pending, bounds>>

ReleasesNotLoaded ==
  /\ view = "charts"
  /\ \E m \in mail : Hears(m, {"no-releases"}) /\ Heard(m)
  /\ LET f == [form EXCEPT !.busy = @ \ {"first"}]
     IN ArmsIn(IF form.step = "ready" /\ Listed # {} THEN f
               ELSE [f EXCEPT !.step = "error", !.open = {"error"}])
  /\ UNCHANGED <<screen, cluster, list, dialog, pending, bounds>>

-----------------------------------------------------------------------------
\* clampChild
KeepsChild(c, seq) ==
  With([form EXCEPT !.for = IF At(c, seq) \in form.rows THEN @ ELSE "none"])

ChartsMove ==
  /\ ChartsKey("list")
  /\ \/ MoveCursor /\ With([form EXCEPT !.for = "none"])
     \/ ToggleSort /\ KeepsChild(cursor', entries')
     \/ Search(TRUE) /\ With([form EXCEPT !.for = "none"])
  /\ UNCHANGED <<screen, cluster, poll, dialog, pending, out>>

\* moveDown and moveUp go through the rows of an expanded release, both the same way.
StepRow ==
  /\ ChartsKey("list")
  /\ \/ Expanded /\ ~OnChild /\ UNCHANGED list /\ With([form EXCEPT !.for = "child"])
     \/ OnChild /\ UNCHANGED list /\ With([form EXCEPT !.for = "none"])
     \/ /\ ~OnChild /\ cursor > 1 /\ cursor' = cursor - 1
        /\ With([form EXCEPT !.for = IF At(cursor', entries) \in form.rows THEN "child" ELSE "none"])
        /\ UNCHANGED <<entries, ascending, items, query, seen>>
  /\ UNCHANGED <<screen, cluster, poll, dialog, pending, out>>

\* Enter expands and collapses; esc leaves a child, then collapses.
ExpandRow ==
  /\ ChartsKey("list") /\ Selected # Nobody
  /\ \/ ~OnChild /\ With([form EXCEPT !.rows = (@ \ {Selected}) \cup ({Selected} \ @)])
     \/ OnChild /\ With([form EXCEPT !.for = "none"])
  /\ UNCHANGED <<screen, cluster, list, poll, dialog, pending, out>>

\* u, r and ctrl+d are for the command line, which the dialog says.
BlockedAction ==
  /\ ChartsKey("list") /\ Selected # Nobody
  /\ dialog' = Notes("blocked", Selected)
  /\ UNCHANGED <<screen, cluster, list, poll, pending, form, out>>

DismissCharts ==
  /\ ChartsKey("error") /\ Shuts("error")
  /\ UNCHANGED <<screen, cluster, list, poll, out>>

ChartsAnswer == view = "charts" /\ AnswerKey(ChartsOrder)

ChartsAnswered ==
  /\ view = "charts"
  /\ \E m \in mail : HearsAnswer(m) /\ Heard(m)
  /\ dialog' = Quiet
  /\ UNCHANGED <<screen, cluster, list, poll, pending, form, bounds>>

-----------------------------------------------------------------------------
ChartsOperator == ChartsMove \/ StepRow \/ ExpandRow \/ BlockedAction \/ DismissCharts \/ ChartsAnswer

ChartsProgram ==
  \/ RunReadReleases \/ PollRetry \/ ChartsAnswered \/ ReleasesLoaded \/ ReleasesNotLoaded
  \/ OpenCharts \/ ReturnToCharts
=============================================================================
