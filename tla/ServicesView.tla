---------------------------- MODULE ServicesView ----------------------------
(***************************************************************************)
(* The services view (views/services): restart, rollback, remove and scale *)
(* of the selected service, and leaving a stack or node that has none.     *)
(* Panel: "scale" (of which service); "scoped" when one stack's or node's. *)
(***************************************************************************)
EXTENDS ListView

ServicesOrder == <<"dialog", "scale">>

ServicesKey(where) == view = "services" /\ Press /\ KeysGoTo(ServicesOrder) = where

OpenServices ==
  /\ view = "services" /\ Enter
  /\ entries' = Sorted(Holds(snapshot), TRUE) /\ items' = entries' /\ seen' = snapshot
  /\ cursor' = InBounds(Len(entries'), entries')
  /\ form' \in {Closed, [Closed EXCEPT !.busy = {"scoped"}]}
  /\ UNCHANGED out

ReturnToServices ==
  /\ view = "services" /\ ReEnter
  /\ UNCHANGED <<list, asking, out>>

ServicesChecks == IF visible THEN {Check} ELSE {}
ServicesTick == view = "services" /\ \E g \in Gens : Tick(g, ServicesChecks)

RunCheckServices ==
  /\ view = "services"
  /\ \E c \in running : Reads(c, snapshot, "services")
  /\ UNCHANGED <<screen, cluster, list, poll, asking>>

\* A stack or node that has no service left is not listed but told of.
ServicesLoaded ==
  /\ view = "services"
  /\ \E m \in mail :
       /\ Hears(m, {"services"}) /\ Heard(m)
       /\ IF Holds(m.saw) = {} /\ "scoped" \in form.busy
          THEN /\ pending' = "empty" /\ dialog' = Tells("empty", Nobody)
               /\ UNCHANGED <<list, visible>>
          ELSE /\ Shows(m.saw) /\ KeepsLoadedRow(m.saw) /\ visible' = TRUE
               /\ UNCHANGED <<dialog, pending>>
  /\ UNCHANGED <<view, place, cluster, poll, form, bounds>>

ServicesMove ==
  /\ ServicesKey("list") /\ Moves
  /\ UNCHANGED <<screen, cluster, poll, asking, out>>

\* ctrl+d, r and ctrl+r ask; s opens the scale dialog.
AskService ==
  /\ ServicesKey("list") /\ Selected # Nobody
  /\ \/ /\ pending' \in {"remove", "restart", "rollback"}
        /\ dialog' = Asks(pending', Selected) /\ UNCHANGED form
     \/ With([Opened("scale") EXCEPT !.on = Selected]) /\ UNCHANGED <<dialog, pending>>
  /\ UNCHANGED <<screen, cluster, list, poll, out>>

ServicesAnswer == view = "services" /\ AnswerKey(ServicesOrder)

\* What was asked is done to the service the cursor is on by the time the answer is
\* heard; the notice of an empty stack leads back to the stacks.
ServiceAnswered ==
  /\ view = "services"
  /\ \E m \in mail :
       /\ HearsAnswer(m)
       /\ IF m.what = "yes" /\ Selected # Nobody
          THEN /\ HeardAndBegun(m, Cmd(IF pending \in {"remove", "rollback"} THEN pending ELSE "restart", Selected))
               /\ UNCHANGED <<pending, visible>>
          ELSE /\ pending' = "none" /\ UNCHANGED running
               /\ mail' = (mail \ {m}) \cup (IF pending = "empty" THEN {Cmd("to-stacks", Nobody)} ELSE {})
               /\ visible' = (visible /\ pending # "empty")
  /\ dialog' = Quiet
  /\ UNCHANGED <<view, place, cluster, list, poll, form, bounds>>

\* The scale dialog's answer comes as a message too.
ScaleAnswer ==
  /\ ServicesKey("scale") /\ Shuts("scale")
  /\ Room(1) /\ mail' \in {mail \cup {Cmd("to-scale", Nobody)}, mail \cup {Cmd("not-to-scale", Nobody)}}
  /\ UNCHANGED <<screen, cluster, list, poll, running>>

ScaleAnswered ==
  /\ view = "services" /\ Shuts("scale")
  /\ \E m \in mail :
       /\ Hears(m, {"to-scale", "not-to-scale"})
       /\ IF m.what = "to-scale" /\ Selected # Nobody THEN HeardAndBegun(m, Cmd("scale", Selected)) ELSE Heard(m)
  /\ UNCHANGED <<screen, cluster, list, poll, bounds>>

ToStacks ==
  /\ view = "services"
  /\ \E m \in mail : m.what = "to-stacks" /\ Heard(m)
  /\ place' = "gone"
  /\ UNCHANGED <<view, visible, cluster, list, poll, asking, bounds>>

\* The snapshot is read again before the list is.
RunServiceOp ==
  /\ view = "services"
  /\ \E c \in running :
       /\ c.what \in {"remove", "restart", "rollback", "scale"}
       /\ \/ /\ c.on \in Holds(world)
             /\ Does(c, IF c.what = "remove" THEN {0} ELSE 1..2)
             /\ Answers(c, {Saw("services", snapshot')})
          \/ /\ IF c.on \in Holds(world) THEN Happens ELSE UNCHANGED bounds
             /\ UNCHANGED cluster
             /\ Answers(c, {Cmd("failed", c.on)})
  /\ UNCHANGED <<screen, list, poll, asking>>

ServiceFailed ==
  /\ view = "services"
  /\ \E m \in mail : Hears(m, {"failed"}) /\ Heard(m) /\ dialog' = Tells("failed", m.on)
  /\ UNCHANGED <<screen, cluster, list, poll, pending, form, bounds>>

-----------------------------------------------------------------------------
ServicesOperator ==
  \/ ServicesMove \/ AskService \/ ServicesAnswer \/ ScaleAnswer

ServicesProgram ==
  \/ RunCheckServices \/ RunServiceOp
  \/ ServicesLoaded \/ ServiceAnswered \/ ScaleAnswered \/ ServiceFailed \/ ToStacks
  \/ OpenServices \/ ReturnToServices
=============================================================================
