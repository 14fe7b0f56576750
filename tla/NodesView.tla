----------------------------- MODULE NodesView ------------------------------
(***************************************************************************)
(* The nodes view (views/nodes): promote, demote and remove through the    *)
(* dialog, availability and labels through panels of their own.  What is   *)
(* listed of a node is 2 when it is a manager.  No hostname holds the      *)
(* words by which the answer to a dialog is told to be about one action.   *)
(***************************************************************************)
EXTENDS ListView

NodesOrder == <<"label", "unlabel", "availability", "dialog">>

NodePanels == {"label", "unlabel", "availability"}

NodesKey(where) == view = "nodes" /\ Press /\ KeysGoTo(NodesOrder) = where

OpenNodes ==
  /\ view = "nodes" /\ EnterEmpty /\ form' = Closed

ReturnToNodes ==
  /\ view = "nodes" /\ ReEnter /\ Begin(Load)
  /\ UNCHANGED <<list, asking>>

NodesTick == view = "nodes" /\ \E g \in Gens : Tick(g, {Check})

RunLoadNodes ==
  /\ view = "nodes"
  /\ \E c \in running : Reads(c, snapshot, "nodes")
  /\ UNCHANGED <<screen, cluster, list, poll, asking>>

\* But for the first, a load leaves the cursor where it was if that is still a row.
NodesLoaded ==
  /\ view = "nodes"
  /\ \E m \in mail :
       /\ Hears(m, {"nodes"}) /\ Heard(m) /\ Shows(m.saw)
       /\ IF seen # Unhashed /\ cursor <= Len(entries') THEN UNCHANGED cursor ELSE KeepsLoadedRow(m.saw)
  /\ UNCHANGED <<screen, cluster, poll, asking, bounds>>

NodesMove ==
  /\ NodesKey("list") /\ Moves
  /\ UNCHANGED <<screen, cluster, poll, asking, out>>

\* ctrl+t and ctrl+o read the node's role again, waiting for the daemon.
ChangeRole ==
  /\ NodesKey("list") /\ Selected # Nobody
  /\ snapshot' \in {world, snapshot}
  /\ LET manager == (IF snapshot'[Selected] # 0 THEN snapshot' ELSE seen)[Selected] = 2
     IN dialog' \in {IF manager THEN Asks("demote", Selected) ELSE Tells("not-a-manager", Selected),
                     IF manager THEN Tells("a-manager", Selected) ELSE Asks("promote", Selected)}
  /\ UNCHANGED <<screen, world, list, poll, pending, form, out>>

\* ctrl+d, a, ctrl+l and ctrl+r, for a node that may have no labels.
AskNode ==
  /\ NodesKey("list") /\ Selected # Nobody
  /\ \/ dialog' \in {Asks("remove", Selected), Tells("no-labels", Selected)} /\ UNCHANGED <<pending, form>>
     \/ \E p \in NodePanels :
          With([Opened(p) EXCEPT !.on = Selected]) /\ UNCHANGED <<dialog, pending>>
  /\ UNCHANGED <<screen, cluster, list, poll, out>>

NodesAnswer == view = "nodes" /\ AnswerKey(NodesOrder)

\* What the dialog says by the time the answer is heard is done to the node the cursor is
\* on by then, and a dialog that came up meanwhile stays until it is done.
NodeAnswered ==
  /\ view = "nodes"
  /\ \E m \in mail :
       /\ HearsAnswer(m)
       /\ IF m.what = "yes" /\ dialog.mode = "confirm" /\ Selected # Nobody
          THEN HeardAndBegun(m, Cmd(dialog.act, Selected)) /\ UNCHANGED dialog
          ELSE Heard(m) /\ dialog' = Hidden
  /\ UNCHANGED <<screen, cluster, list, poll, pending, form, bounds>>

AvailabilityKey ==
  /\ NodesKey("availability") /\ Shuts("availability")
  /\ Begin(Cmd("availability", form.on)) \/ UNCHANGED out
  /\ UNCHANGED <<screen, cluster, list, poll>>

\* Enter takes key=value, and tells of anything else.
LabelKey ==
  /\ NodesKey("label") /\ With(Shut("label")) /\ UNCHANGED pending
  /\ \/ Begin(Cmd("label", form.on)) /\ UNCHANGED dialog
     \/ UNCHANGED out /\ dialog' \in {dialog, Tells("no-label", form.on)}
  /\ UNCHANGED <<screen, cluster, list, poll>>

UnlabelKey ==
  /\ NodesKey("unlabel") /\ Shuts("unlabel")
  /\ Begin(Cmd("unlabel", form.on)) \/ UNCHANGED out
  /\ UNCHANGED <<screen, cluster, list, poll>>

\* Success closes the dialog or the panel of its kind, whatever that is open for.
DoneWith(c) == IF c.what \in NodePanels THEN c.what ELSE "dialog"

RunNodeOp ==
  /\ view = "nodes"
  /\ \E c \in running :
       /\ c.what \notin {"load", "check"}
       /\ \/ /\ c.on \in Holds(world)
             /\ Does(c, CASE c.what = "remove" -> {0} [] c.what = "promote" -> {2}
                          [] c.what = "demote" -> {1} [] OTHER -> {world[c.on]})
             /\ Answers(c, {Cmd(DoneWith(c), Nobody)})
          \/ /\ IF c.on \in Holds(world) THEN Happens ELSE UNCHANGED bounds
             /\ UNCHANGED cluster
             /\ Answers(c, {Cmd("failed", c.on)})
  /\ UNCHANGED <<screen, list, poll, asking>>

NodeDone ==
  /\ view = "nodes"
  /\ \E m \in mail :
       /\ Hears(m, NodePanels \cup {"dialog"}) /\ HeardAndBegun(m, Load)
       /\ With(Shut(m.what))
       /\ dialog' = IF m.what = "dialog" THEN Hidden ELSE dialog
  /\ UNCHANGED <<screen, cluster, list, poll, pending, bounds>>

NodeFailed ==
  /\ view = "nodes"
  /\ \E m \in mail : Hears(m, {"failed"}) /\ Heard(m) /\ dialog' = Tells("failed", m.on)
  /\ UNCHANGED <<screen, cluster, list, poll, pending, form, bounds>>

-----------------------------------------------------------------------------
NodesOperator ==
  \/ NodesMove \/ ChangeRole \/ AskNode \/ NodesAnswer
  \/ AvailabilityKey \/ LabelKey \/ UnlabelKey

NodesProgram ==
  \/ RunLoadNodes \/ RunNodeOp
  \/ NodesLoaded \/ NodeAnswered \/ NodeDone \/ NodeFailed
  \/ OpenNodes \/ ReturnToNodes
=============================================================================
