---------------------------- MODULE VolumesView -----------------------------
(***************************************************************************)
(* The volumes view (views/volumes): a browser, whose other actions an     *)
(* extension may add.  Panel: "error"; step: the state, "loading", "ready" *)
(* or "error"; flag: "first", until the first load after each entry.       *)
(***************************************************************************)
EXTENDS ListView

VolumesKey(where) == view = "volumes" /\ Press /\ KeysGoTo(<<"error">>) = where

\* Init loads beside OnEnter.
OpenVolumes ==
  /\ view = "volumes" /\ EnterEmpty
  /\ form' = [Closed EXCEPT !.step = "loading", !.busy = {"first"}]

ReturnToVolumes ==
  /\ view = "volumes" /\ ReEnter /\ Begin(Load)
  /\ cursor' = 1 /\ With(Busy("first"))
  /\ UNCHANGED <<entries, ascending, items, query, seen, dialog, pending>>

VolumesTick ==
  /\ view = "volumes"
  /\ \E g \in Gens : Tick(g, IF form.step = "ready" /\ form.open = {} THEN {Check} ELSE {})

RunLoadVolumes ==
  /\ view = "volumes"
  /\ \E c \in running : Reads(c, world, "volumes") \/ ReadFails(c, "no-volumes")
  /\ UNCHANGED <<screen, cluster, list, poll, asking>>

\* The selected name is looked up before anything else, unless this is the first
\* load of an entry: with the cursor before the first row that is the end of it.
VolumesLoaded ==
  /\ view = "volumes"
  /\ \E m \in mail :
       /\ Hears(m, {"volumes"}) /\ Heard(m)
       /\ IF "first" \notin form.busy /\ cursor = 0
          THEN place' = "crashed" /\ UNCHANGED <<list, form>>
          ELSE /\ Shows(m.saw) /\ UNCHANGED place
               /\ cursor' = IF "first" \in form.busy THEN 1
                            ELSE IF Selected \in Range(entries') THEN RowOf(Selected, entries')
                            ELSE InBounds(cursor, entries')
               /\ With([Idle("first") EXCEPT !.step = "ready"])
  /\ UNCHANGED <<view, visible, cluster, poll, dialog, pending, bounds>>

\* A refresh that fails leaves the list there is.
VolumesNotLoaded ==
  /\ view = "volumes"
  /\ \E m \in mail :
       /\ Hears(m, {"no-volumes"}) /\ Heard(m)
       /\ IF form.step = "ready" /\ Listed # {} THEN UNCHANGED form
          ELSE With([Opened("error") EXCEPT !.step = "error"])
  /\ UNCHANGED <<screen, cluster, list, poll, dialog, pending, bounds>>

\* A mutant: what a search leaves is not sorted again.
VolumesMoveUnsorted ==
  /\ VolumesKey("list") /\ (MoveCursor \/ ToggleSort \/ Search(FALSE) \/ PageDown)
  /\ UNCHANGED <<screen, cluster, poll, asking, out>>

VolumesMove ==
  /\ VolumesKey("list") /\ (MoveCursor \/ ToggleSort \/ Search(TRUE) \/ PageDown)
  /\ UNCHANGED <<screen, cluster, poll, asking, out>>

DismissVolumesError ==
  /\ VolumesKey("error") /\ Shuts("error")
  /\ UNCHANGED <<screen, cluster, list, poll, out>>

\* An action nobody has registered is told of.
VolumeAction ==
  /\ VolumesKey("list") /\ Opens("error")
  /\ UNCHANGED <<screen, cluster, list, poll, out>>

-----------------------------------------------------------------------------
VolumesOperator == VolumesMove \/ DismissVolumesError \/ VolumeAction

VolumesProgram ==
  \/ RunLoadVolumes \/ VolumesLoaded \/ VolumesNotLoaded
  \/ OpenVolumes \/ ReturnToVolumes
=============================================================================
