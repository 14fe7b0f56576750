---------------------------- MODULE NetworksView ----------------------------
(***************************************************************************)
(* The networks view (views/networks): delete, prune, create and the       *)
(* services that use one.  Panels: "create" (its step in for), "usedby",   *)
(* "error"; on: networkToDelete; step: the state, "loading", "ready" or    *)
(* "error"; flags: "first", until the first load after each entry; "unused" *)
(* of an empty used-by list, "before" when its cursor is before the first  *)
(* row.  What is listed of a network is 2 when a service uses it.          *)
(***************************************************************************)
EXTENDS ListView

NetworksOrder == <<"create", "usedby", "error", "dialog">>

NetworksKey(where) == view = "networks" /\ Press /\ KeysGoTo(NetworksOrder) = where

OpenNetworks ==
  /\ view = "networks" /\ EnterEmpty
  /\ form' = [Closed EXCEPT !.step = "loading", !.busy = {"first"}]

ReturnToNetworks ==
  /\ view = "networks" /\ ReEnter /\ Begin(Load)
  /\ cursor' = 1 /\ With(Busy("first"))
  /\ UNCHANGED <<entries, ascending, items, query, seen, dialog, pending>>

NetworksTick ==
  /\ view = "networks"
  /\ \E g \in Gens : Tick(g, IF form.step = "ready" /\ ~dialog.up THEN {Check} ELSE {})

\* Whether a network is used is not asked of the list, nor hashed.
Unasked(w) == [n \in Names |-> IF w[n] = 0 THEN 0 ELSE 1]

RunLoadNetworks ==
  /\ view = "networks"
  /\ \E c \in running : Reads(c, Unasked(world), "networks") \/ ReadFails(c, "no-networks")
  /\ UNCHANGED <<screen, cluster, list, poll, asking>>

\* The selected network is looked up before anything else, unless this is the
\* first load of an entry: with the cursor before the first row that is the end.
NetworksLoaded ==
  /\ view = "networks"
  /\ \E m \in mail :
       /\ Hears(m, {"networks"})
       /\ IF "first" \notin form.busy /\ cursor = 0
          THEN place' = "crashed" /\ Heard(m) /\ UNCHANGED <<list, form>>
          ELSE /\ Shows(m.saw) /\ HeardAndBegun(m, Cmd("usage", Nobody)) /\ UNCHANGED place
               /\ cursor' = IF "first" \in form.busy THEN 1
                            ELSE IF Selected \in Range(entries') THEN RowOf(Selected, entries')
                            ELSE InBounds(cursor, entries')
               /\ With([Idle("first") EXCEPT !.step = "ready"])
  /\ UNCHANGED <<view, visible, cluster, poll, dialog, pending, bounds>>

\* A refresh that fails leaves the list there is.
NetworksNotLoaded ==
  /\ view = "networks"
  /\ \E m \in mail :
       /\ Hears(m, {"no-networks"}) /\ Heard(m)
       /\ IF form.step = "ready" /\ Listed # {} THEN UNCHANGED form
          ELSE With([Opened("error") EXCEPT !.step = "error"])
  /\ UNCHANGED <<screen, cluster, list, poll, dialog, pending, bounds>>

\* usedStatusUpdatedMsg filters and sorts again.
UsageKnown ==
  /\ view = "networks"
  /\ \E m \in mail : Hears(m, {"usage"}) /\ Heard(m)
  /\ entries' = InOrder(entries, ascending)
  /\ items' = IF query = Names THEN entries' ELSE items
  /\ cursor' = IF Selected # Nobody THEN RowOf(Selected, entries') ELSE InBounds(cursor, entries')
  /\ UNCHANGED <<screen, cluster, ascending, query, seen, poll, asking, bounds>>

-----------------------------------------------------------------------------
NetworksMove ==
  /\ NetworksKey("list") /\ (Moves \/ PageDown)
  /\ UNCHANGED <<screen, cluster, poll, asking, out>>

AskNetwork ==
  /\ NetworksKey("list")
  /\ \/ /\ Selected # Nobody /\ dialog' = Asks("delete", Selected) /\ pending' = "delete"
        /\ With([form EXCEPT !.on = Selected])
     \/ dialog' = Asks("prune", Nobody) /\ pending' = "prune" /\ UNCHANGED form
  /\ UNCHANGED <<screen, cluster, list, poll, out>>

\* This view reads the keys of its dialog itself.
NetworksAnswer(yes) ==
  /\ NetworksKey("dialog") /\ dialog' = Quiet
  /\ IF yes THEN /\ Begin(Cmd(pending, IF pending = "delete" THEN form.on ELSE Nobody))
                 /\ UNCHANGED pending
     ELSE pending' = "none" /\ UNCHANGED out
  /\ UNCHANGED <<screen, cluster, list, poll, form>>

NewNetwork ==
  /\ NetworksKey("list")
  /\ With([Opened("create") EXCEPT !.for = "basic"])
  /\ UNCHANGED <<screen, cluster, list, poll, dialog, pending, out>>

\* Enter goes on to the review when the values are valid, and from there asks for
\* the network; the dialog stays open.
NetworkBasicKey == form.for = "basic" /\ With([form EXCEPT !.for = "review"]) /\ UNCHANGED out

NetworkReviewKey ==
  /\ form.for = "review"
  /\ \/ With([form EXCEPT !.for = "basic"]) /\ UNCHANGED out
     \/ With([form EXCEPT !.for = "creating"]) /\ \E n \in Names : Begin(Cmd("create", n))

CreateNetworkKey ==
  /\ NetworksKey("create") /\ UNCHANGED <<dialog, pending>>
  /\ \/ With([Shut("create") EXCEPT !.for = "none"]) /\ UNCHANGED out
     \/ NetworkBasicKey \/ NetworkReviewKey
  /\ UNCHANGED <<screen, cluster, list, poll>>

UsedByNetwork ==
  /\ NetworksKey("list") /\ Selected # Nobody
  /\ Begin(Cmd("usedby", Selected))
  /\ UNCHANGED <<screen, cluster, list, poll, asking>>

DismissNetworksError ==
  /\ NetworksKey("error") /\ Shuts("error")
  /\ UNCHANGED <<screen, cluster, list, poll, out>>

\* Esc, a page down, and enter, which goes to the service the cursor is on: before
\* the first row that is the end.
UsedByKey ==
  /\ NetworksKey("usedby")
  /\ \/ Shuts("usedby") /\ UNCHANGED place
     \/ /\ "unused" \in form.busy /\ With(Busy("before"))
        /\ UNCHANGED <<place, dialog, pending>>
     \/ /\ "before" \in form.busy /\ place' = "crashed"
        /\ UNCHANGED asking
  /\ UNCHANGED <<view, visible, cluster, list, poll, out>>

-----------------------------------------------------------------------------
\* A network in use is not removed, one that exists not created; a prune takes
\* those nobody uses.
RunNetworkOp ==
  /\ view = "networks"
  /\ \E c \in running :
       /\ c.what \in {"delete", "prune", "create"}
       /\ \/ /\ c.what = "delete" => world[c.on] = 1
             /\ c.what = "create" => world[c.on] = 0
             /\ world' = CASE c.what = "prune"  -> [n \in Names |-> IF world[n] = 1 THEN 0 ELSE world[n]]
                           [] c.what = "create" -> [world EXCEPT ![c.on] = 1]
                           [] OTHER             -> [world EXCEPT ![c.on] = 0]
             /\ Answers(c, {[c EXCEPT !.what = IF c.what = "create" THEN "created" ELSE "done"]})
             /\ UNCHANGED bounds
          \/ /\ IF \/ c.what = "prune" \/ (c.what = "delete" /\ world[c.on] = 1)
                   \/ (c.what = "create" /\ world[c.on] = 0)
                THEN Happens ELSE UNCHANGED bounds
             /\ Answers(c, {Cmd(IF c.what = "create" THEN "not-created" ELSE "failed", c.on)})
             /\ UNCHANGED world
  /\ UNCHANGED <<screen, snapshot, list, poll, asking>>

RunNetworkUsage ==
  /\ view = "networks"
  /\ \E c \in running :
       \/ /\ c.what \in {"usage", "usedby"} /\ UNCHANGED bounds
          /\ Answers(c, {[c EXCEPT !.what = IF @ = "usedby" /\ world[c.on] # 2 THEN "unused" ELSE @]})
       \/ c.what = "usedby" /\ Answers(c, {Cmd("failed", c.on)}) /\ Happens
  /\ UNCHANGED <<screen, cluster, list, poll, asking>>

NetworkDone ==
  /\ view = "networks"
  /\ \E m \in mail :
       /\ Hears(m, {"done", "created"}) /\ HeardAndBegun(m, Load)
       /\ With(IF m.what = "created" THEN [Shut("create") EXCEPT !.for = "none"] ELSE form)
  /\ UNCHANGED <<screen, cluster, list, poll, dialog, pending, bounds>>

NetworkFailed ==
  /\ view = "networks"
  /\ \E m \in mail :
       /\ Hears(m, {"failed", "not-created"}) /\ Heard(m)
       /\ IF m.what = "not-created" /\ "create" \in form.open
          THEN With([form EXCEPT !.for = "basic"])
          ELSE With(Opened("error"))
  /\ UNCHANGED <<screen, cluster, list, poll, dialog, pending, bounds>>

UsedByLoaded ==
  /\ view = "networks"
  /\ \E m \in mail :
       /\ Hears(m, {"usedby", "unused"}) /\ Heard(m)
       /\ With([Opened("usedby") EXCEPT !.busy = (@ \ {"unused", "before"}) \cup ({m.what} \ {"usedby"})])
  /\ UNCHANGED <<screen, cluster, list, poll, dialog, pending, bounds>>

-----------------------------------------------------------------------------
NetworksOperator ==
  \/ NetworksMove \/ AskNetwork \/ NewNetwork \/ CreateNetworkKey \/ UsedByNetwork
  \/ UsedByKey \/ DismissNetworksError
  \/ \E yes \in BOOLEAN : NetworksAnswer(yes)

NetworksProgram ==
  \/ RunLoadNetworks \/ RunNetworkOp \/ RunNetworkUsage
  \/ NetworksLoaded \/ NetworksNotLoaded \/ UsageKnown
  \/ NetworkDone \/ NetworkFailed \/ UsedByLoaded
  \/ OpenNetworks \/ ReturnToNetworks
=============================================================================
