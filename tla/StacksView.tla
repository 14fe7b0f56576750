----------------------------- MODULE StacksView -----------------------------
(***************************************************************************)
(* The stacks view (views/stacks): the list, removing a stack, editing and *)
(* creating one, saving its YAML, and the file browser of both.  Panels:   *)
(* "save" (on whose stack), "create" (at which step), "browse" (for which  *)
(* of the two); flags: "deploying", and "file" once one was named.         *)
(***************************************************************************)
EXTENDS ListView

StacksOrder == <<"save", "create", "browse", "dialog">>

StacksKey(where) == view = "stacks" /\ Press /\ KeysGoTo(StacksOrder) = where

-----------------------------------------------------------------------------
OpenStacks ==
  /\ view = "stacks" /\ Enter /\ Begin(Load)
  /\ form' = [Closed EXCEPT !.step = "source", !.for = "create"]
  /\ entries' = Sorted(Holds(snapshot), TRUE) /\ items' = entries' /\ cursor' = 1 /\ seen' = snapshot

ReturnToStacks ==
  /\ view = "stacks" /\ ReEnter /\ Begin(Load)
  /\ UNCHANGED <<list, asking>>

StacksTick == view = "stacks" /\ \E g \in Gens : Tick(g, {Check})

RunLoadStacks ==
  /\ view = "stacks"
  /\ \E c \in running : Reads(c, snapshot, "stacks")
  /\ UNCHANGED <<screen, cluster, list, poll, asking>>

\* setStacks
StacksLoaded ==
  /\ view = "stacks"
  /\ \E m \in mail : Hears(m, {"stacks"}) /\ Heard(m) /\ Shows(m.saw)
  /\ KeepsRow
  /\ UNCHANGED <<screen, cluster, poll, asking, bounds>>

-----------------------------------------------------------------------------
StacksMove ==
  /\ StacksKey("list") /\ Moves
  /\ UNCHANGED <<screen, cluster, poll, asking, out>>

\* ctrl+d first asks, beside the update loop, whose chart the stack is.
DeleteStack ==
  /\ StacksKey("list") /\ Selected # Nobody
  /\ Begin(Cmd("intent", Selected))
  /\ UNCHANGED <<screen, cluster, list, poll, asking>>

\* The editor holds the update loop until it is closed; what it leaves comes as a
\* message.  A stack that cannot be rebuilt is told of at once.
EditStack ==
  /\ StacksKey("list") /\ Selected # Nobody /\ Room(1)
  /\ \/ /\ mail' \in {mail \cup {Cmd("edited", Selected)}, mail \cup {Cmd("create-failed", Nobody)}, mail}
        /\ UNCHANGED asking
     \/ /\ dialog' = OverNotice(Tells("edit", Selected)) /\ UNCHANGED <<mail, pending, form>>
  /\ UNCHANGED <<screen, cluster, list, poll, running>>

SaveStack ==
  /\ StacksKey("list") /\ Selected # Nobody
  /\ With([Opened("save") EXCEPT !.on = Selected]) /\ UNCHANGED <<dialog, pending>>
  /\ UNCHANGED <<screen, cluster, list, poll, out>>

NewStack ==
  /\ StacksKey("list")
  /\ With([Opened("create") EXCEPT !.step = "source", !.busy = @ \ {"file"}])
  /\ UNCHANGED <<screen, cluster, list, poll, dialog, pending, out>>

-----------------------------------------------------------------------------
StackDeleteIntent ==
  /\ view = "stacks"
  /\ \E m \in mail : Hears(m, {"intent"}) /\ Heard(m) /\ dialog' = OverNotice(Asks("remove", m.on))
  /\ pending' = "remove" /\ UNCHANGED form
  /\ UNCHANGED <<screen, cluster, list, poll, bounds>>

StacksAnswer == view = "stacks" /\ AnswerKey(StacksOrder)

\* What is removed is what the cursor is on by the time the answer is heard.
StackAnswered ==
  /\ view = "stacks"
  /\ \E m \in mail :
       /\ HearsAnswer(m)
       /\ IF pending = "overwrite"
          THEN /\ pending' = "none"
               /\ IF m.what = "yes" THEN HeardAndBegun(m, Cmd("save", form.on)) /\ UNCHANGED form
                  ELSE With(Opened("save")) /\ Heard(m)
          ELSE /\ UNCHANGED form
               /\ IF m.what = "yes" /\ pending = "remove" /\ Selected # Nobody
                  THEN HeardAndBegun(m, [Check EXCEPT !.what = "remove", !.on = Selected]) /\ UNCHANGED pending
                  ELSE pending' = "none" /\ Heard(m)
  /\ dialog' = Quiet
  /\ UNCHANGED <<screen, cluster, list, poll, bounds>>

SaveDialogKey ==
  /\ StacksKey("save")
  /\ \/ Shuts("save") /\ UNCHANGED out
     \/ /\ With([form EXCEPT !.open = {"browse"}, !.for = "save"])
        /\ Begin(Cmd("files", Nobody)) /\ UNCHANGED <<dialog, pending>>
     \/ /\ With(Shut("save"))
        /\ \/ pending' = "overwrite" /\ dialog' = OverNotice(Asks("overwrite", form.on)) /\ UNCHANGED out
           \/ Begin(Cmd("save", form.on)) /\ UNCHANGED <<dialog, pending>>
  /\ UNCHANGED <<screen, cluster, list, poll>>

\* Steps of the create dialog; enter deploys what passed validation.
CreateSourceKey ==
  /\ form.step = "source" /\ UNCHANGED <<dialog, pending, out>>
  /\ \E to \in {"file", "inline"} : With([form EXCEPT !.step = to, !.busy = @ \ {"file"}])

DeploysNew(busy) ==
  /\ With([Shut("create") EXCEPT !.busy = @ \cup busy]) /\ UNCHANGED <<dialog, pending>>
  /\ \E n \in Names : Begin(Cmd("deploy", n))

CreateFileKey ==
  /\ form.step = "file"
  /\ \/ /\ With([form EXCEPT !.open = (@ \ {"create"}) \cup {"browse"}, !.for = "create"])
        /\ UNCHANGED <<dialog, pending>> /\ Begin(Cmd("files", Nobody))
     \/ DeploysNew({"deploying", "file"})

CreateInlineKey ==
  /\ form.step = "inline"
  /\ \/ Room(1) /\ Shuts("create") /\ mail' = mail \cup {Cmd("edited", Nobody)} /\ UNCHANGED running
     \/ DeploysNew({"deploying"})

CreateDialogKey ==
  /\ StacksKey("create")
  /\ \/ Shuts("create") /\ UNCHANGED out
     \/ CreateSourceKey \/ CreateFileKey \/ CreateInlineKey
  /\ UNCHANGED <<screen, cluster, list, poll>>

\* The dialog the browser was opened from comes back, or a directory is read, or
\* a file is taken for the create dialog and opened in the editor.
FileBrowserKey ==
  /\ StacksKey("browse") /\ UNCHANGED <<dialog, pending>>
  /\ \/ With([form EXCEPT !.open = (@ \ {"browse"}) \cup {form.for}]) /\ UNCHANGED out
     \/ Begin(Cmd("files", Nobody)) /\ UNCHANGED form
     \/ /\ form.for = "create" /\ Room(1)
        /\ With([Shut("browse") EXCEPT !.step = "inline"])
        /\ mail' = mail \cup {Cmd("edited", Nobody)} /\ UNCHANGED running
  /\ UNCHANGED <<screen, cluster, list, poll>>

-----------------------------------------------------------------------------
\* The services of a stack go one by one, so a removal that fails may leave some;
\* the snapshot is read again before the list is.
RunRemoveStack ==
  /\ view = "stacks"
  /\ \E c \in running :
       /\ c.what = "remove"
       /\ \/ /\ c.on \in Holds(world)
             /\ world' = [world EXCEPT ![c.on] = 0] /\ snapshot' = world'
             /\ Answers(c, IF snapshot' # c.saw THEN {Saw("stacks", snapshot')} ELSE {})
             /\ UNCHANGED bounds
          \/ /\ IF c.on \in Holds(world)
                THEN Happens /\ world' \in {world, [world EXCEPT ![c.on] = 1]}
                ELSE UNCHANGED <<world, bounds>>
             /\ UNCHANGED snapshot
             /\ Answers(c, {Cmd("remove-failed", c.on)})
  /\ UNCHANGED <<screen, list, poll, asking>>

RunDeploy ==
  /\ view = "stacks"
  /\ \E c \in running :
       /\ c.what \in {"deploy", "redeploy"}
       /\ \/ Does(c, 1..2) /\ Answers(c, {Cmd("deployed", c.on)})
          \/ /\ Happens /\ UNCHANGED cluster
             /\ Answers(c, {IF c.what = "deploy" THEN Cmd("create-failed", Nobody)
                            ELSE Cmd("update-failed", c.on)})
  /\ UNCHANGED <<screen, list, poll, asking>>

\* The chart a stack belongs to, a directory, a file that is written.
RunStacksOther ==
  /\ view = "stacks"
  /\ \E c \in running :
       \/ c.what = "intent" /\ Answers(c, {c}) /\ UNCHANGED bounds
       \/ /\ c.what \in {"files", "save"}
          /\ \/ Answers(c, {[c EXCEPT !.what = IF c.what = "files" THEN "files" ELSE "saved"]})
                /\ UNCHANGED bounds
             \/ Answers(c, {[c EXCEPT !.what = IF c.what = "files" THEN "no-files" ELSE "save-failed"]})
                /\ Happens
  /\ UNCHANGED <<screen, cluster, list, poll, asking>>

Deployed ==
  /\ view = "stacks"
  /\ \E m \in mail : Hears(m, {"deployed"}) /\ HeardAndBegun(m, Load)
  /\ With(Idle("deploying"))
  /\ UNCHANGED <<screen, cluster, list, poll, dialog, pending, bounds>>

StackFailed ==
  /\ view = "stacks"
  /\ \E m \in mail :
       /\ Heard(m) /\ UNCHANGED pending
       /\ \/ Hears(m, {"remove-failed"}) /\ dialog' = OverNotice(Tells("remove", m.on)) /\ UNCHANGED form
          \/ Hears(m, {"update-failed"}) /\ dialog' = OverNotice(Tells("update", m.on)) /\ With(Idle("deploying"))
          \/ /\ Hears(m, {"create-failed"}) /\ UNCHANGED dialog
             /\ With([Idle("deploying") EXCEPT !.open = (@ \ {"browse"}) \cup {"create"},
                        !.step = IF "file" \in form.busy THEN "file" ELSE "inline"])
  /\ UNCHANGED <<screen, cluster, list, poll, bounds>>

\* An edit that changed nothing ends here, one that cannot be deployed is refused.
Edited ==
  /\ view = "stacks"
  /\ \E m \in mail :
       /\ Hears(m, {"edited"}) /\ UNCHANGED pending
       /\ IF m.on = Nobody
          THEN Heard(m) /\ UNCHANGED dialog /\ With([Opened("create") EXCEPT !.step = "inline"])
          ELSE \/ Heard(m) /\ UNCHANGED <<dialog, form>>
               \/ Heard(m) /\ dialog' = OverNotice(Tells("update", m.on)) /\ UNCHANGED form
               \/ HeardAndBegun(m, Cmd("redeploy", m.on)) /\ UNCHANGED dialog /\ With(Busy("deploying"))
  /\ UNCHANGED <<screen, cluster, list, poll, bounds>>

SavedOrBrowsed ==
  /\ view = "stacks"
  /\ \E m \in mail :
       /\ Heard(m) /\ UNCHANGED pending
       /\ \/ /\ Hears(m, {"saved"}) /\ With(Shut("save"))
             /\ dialog' = Notes("save", m.on)
          \/ Hears(m, {"save-failed"}) /\ UNCHANGED dialog /\ With(Opened("save"))
          \/ Hears(m, {"files"}) /\ UNCHANGED dialog /\ With(Opened("browse"))
          \/ /\ Hears(m, {"no-files"}) /\ UNCHANGED dialog
             /\ With([form EXCEPT !.open = (@ \ {"browse"}) \cup {form.for}])
  /\ UNCHANGED <<screen, cluster, list, poll, bounds>>

-----------------------------------------------------------------------------
StacksOperator ==
  \/ StacksMove \/ DeleteStack \/ EditStack \/ SaveStack \/ NewStack \/ StacksAnswer
  \/ SaveDialogKey \/ CreateDialogKey \/ FileBrowserKey

StacksProgram ==
  \/ RunLoadStacks \/ RunRemoveStack \/ RunDeploy \/ RunStacksOther
  \/ StacksLoaded \/ StackAnswered \/ StackDeleteIntent \/ Deployed \/ StackFailed \/ Edited \/ SavedOrBrowsed
  \/ OpenStacks \/ ReturnToStacks
=============================================================================
