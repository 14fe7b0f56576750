------------------------------- MODULE Console -------------------------------
(***************************************************************************)
(* The resource views on the screen: one of them is opened, covered,       *)
(* returned to and replaced, while its ticks, commands and messages are on *)
(* their way and others change the swarm.                                  *)
(***************************************************************************)
EXTENDS StacksView, ServicesView, NodesView, TasksView, VolumesView, NetworksView,
        ConfigsView, SecretsView, ContextsView, ChartsView

Init ==
  /\ view \in Views
  /\ world = [n \in Names |-> IF view = "contexts" /\ n = 1 THEN 2 ELSE 1] /\ snapshot = world
  /\ place = "gone" /\ visible = FALSE
  /\ entries = <<>> /\ cursor = 1 /\ ascending = TRUE /\ items = <<>> /\ query = Names /\ seen = Unhashed
  /\ gen = 1 /\ ticks = [g \in Gens |-> 0]
  /\ dialog = Quiet /\ pending = "none" /\ form = Closed
  /\ running = {} /\ mail = {}
  /\ events = 0

Ticks ==
  \/ StacksTick \/ ServicesTick \/ NodesTick \/ TasksTick \/ VolumesTick
  \/ NetworksTick \/ ConfigsTick \/ SecretsTick \/ ContextsTick \/ ChartsTick

\* A view's keys, beats, commands and messages; a view opened over one; and what goes on
\* in the swarm, also after a crash.
Next ==
  \/ view = "stacks" /\ (StacksOperator \/ StacksTick \/ StacksProgram)
  \/ view = "services" /\ (ServicesOperator \/ ServicesTick \/ ServicesProgram)
  \/ view = "nodes" /\ (NodesOperator \/ NodesTick \/ NodesProgram)
  \/ view = "tasks" /\ (SortTasks \/ TasksTick \/ TasksProgram)
  \/ view = "volumes" /\ (VolumesOperator \/ VolumesTick \/ VolumesProgram)
  \/ view = "networks" /\ (NetworksOperator \/ NetworksTick \/ NetworksProgram)
  \/ view = "configs" /\ (ConfigsOperator \/ ConfigsTick \/ ConfigsProgram)
  \/ view = "secrets" /\ (SecretsOperator \/ SecretsTick \/ SecretsProgram)
  \/ view = "contexts" /\ (ContextsOperator \/ ContextsTick \/ ContextsProgram)
  \/ view = "charts" /\ (ChartsOperator \/ ChartsTick \/ ChartsProgram)
  \/ Leave(view \in {"stacks", "services", "nodes"})
  \/ Change \/ Refresh
  \/ \E m \in mail : Dropped(m)

Spec == Init /\ [][Next]_vars

-----------------------------------------------------------------------------
(***************************************************************************)
(* What must hold of every view                                            *)
(***************************************************************************)

Panels == {"save", "create", "browse", "scale", "label", "unlabel", "availability",
           "error", "usedby", "cert", "edit"}

Worlds == [Names -> 0..2]

Rows == Cardinality(Names) + MaxEvents \* a row for each name, and those added before a load

\* Every piece of state keeps to its type; what a handler begins beside the room for
\* commands that keys and ticks ask for is one load.
TypeOK ==
  /\ view \in Views /\ place \in {"on", "under", "gone", "crashed"} /\ visible \in BOOLEAN
  /\ world \in Worlds /\ snapshot \in Worlds
  /\ {entries, items} \subseteq Seq(Names) /\ {Len(entries), Len(items)} \subseteq 0..Rows
  /\ cursor \in 0..Rows \cup {1}
  /\ ascending \in BOOLEAN /\ query \in SUBSET Names /\ seen \in Worlds \cup {Unhashed}
  /\ gen \in Gens /\ ticks \in [Gens -> Nat]
  /\ dialog.mode \in {"none", "confirm", "info", "error"} /\ dialog.on \in Names \cup {Nobody} /\ dialog.up \in BOOLEAN
  /\ form.open \subseteq Panels /\ {form.on} \cup form.rows \subseteq Names \cup {Nobody}
  /\ \A c \in running \cup mail : c.on \in Names \cup {Nobody} /\ c.saw \in Worlds \cup {Unhashed}
  /\ Cardinality(running) + Cardinality(mail) <= MaxCalls + 1

\* A view on the screen always has a beat of its own generation to come, or, in the
\* charts view, a read under way that will arm one: OnEnter, TickMsg and PollRetryMsg,
\* with navigation and messages lost to other views in between, never end the poll.
StaysPolled ==
  place = "on" =>
    \/ ticks[gen] > 0
    \/ view = "charts" /\ \E c \in running \cup mail :
         c.what \in {"load", "check", "same", "releases", "no-releases"}

\* Where the lists clamp their cursor (ApplyFilter, setStacks, HandleKey) it is on a row,
\* or on the first of none, whatever loads, searches and sorts come in which order.
NeverOutOfList ==
  place = "on" /\ view \in {"stacks", "services", "nodes", "configs", "secrets", "charts"} =>
    cursor \in DOMAIN entries \cup {1}

\* The charts view's cursor is on a child only of a release that is expanded, and only
\* releases that are listed are: a reload, a sort or a return does not strand it
\* (clampChild, pruneExpanded).
ChildIsShown ==
  view = "charts" /\ place = "on" => (OnChild => Expanded) /\ form.rows \subseteq Listed

\* The volumes and charts views list in the order their header tells, after every load,
\* search and sort key: ApplyFilter gives the order of the items, and is followed by
\* applySorting there.
OrderIsAsTold ==
  view \in {"volumes", "charts"} => entries = InOrder(entries, ascending)

Asked == {"delete", "prune", "rotate", "overwrite", "remove", "restart", "rollback", "demote", "promote"}

AsTheDialogSays(c) == dialog.act = c.what /\ dialog.on = c.on /\ (view = "networks" => dialog.up)

\* What the networks, configs, secrets and contexts views begin on a yes is what the
\* dialog they showed last named: the one that was answered, unless another was put up
\* between the key and the ResultMsg it comes as.  pendingAction and the name it is
\* about, which the answer acts on, never tell of anything else, however the list moved
\* meanwhile, whatever dialog came over another and whichever answer is heard first.
DoesWhatItNamed ==
  [][\A c \in running' \ running :
       view \in {"networks", "configs", "secrets", "contexts"} /\ c.what \in Asked => AsTheDialogSays(c)]_vars

OnlyTheList == place = "on" /\ visible /\ form.open = {} /\ ~dialog.up

\* What the next beat of a view that is on the screen begins.
NextChecks ==
  CASE view = "services" -> ServicesChecks
    [] view = "secrets" -> SecretsChecks
    [] view = "charts" -> ChartsChecks
    [] OTHER -> {Check}

\* With only the list on the screen and nothing under way, there is a beat of this entry
\* to come and it will look at the swarm: no error that was dismissed, dialog that was
\* answered, load that was lost to another view or deploy that failed leaves one of these
\* views behind a state that stops its refresh.
NeverFrozen ==
  view \in {"stacks", "services", "nodes", "tasks", "secrets", "charts"} =>
    (OnlyTheList /\ running = {} /\ mail = {} => ticks[gen] > 0 /\ NextChecks # {})

\* No key and no message takes an element that is not there: ApplyFilter says "Keep
\* cursor in bounds", which a page down in an empty list of networks, volumes, used-by
\* services or files does not.
NeverCrashes == place # "crashed"

=============================================================================
