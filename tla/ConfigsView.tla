---------------------------- MODULE ConfigsView -----------------------------
(***************************************************************************)
(* The configs view (views/configs): delete, edit and rotate, clone,       *)
(* create and the services that use one.  Panels: "error", "create" (its   *)
(* step in for), "usedby", "browse"; on: configToDelete, or the config to  *)
(* rotate into; step: the state, "loading", "ready" or "error".  What is   *)
(* listed of a config is 2 when it is a chart's release record.            *)
(***************************************************************************)
EXTENDS ListView

ConfigsOrder == <<"error", "create", "usedby", "browse", "dialog">>

ConfigsKey(where) == view = "configs" /\ Press /\ KeysGoTo(ConfigsOrder) = where

OpenConfigs ==
  /\ view = "configs" /\ EnterEmpty
  /\ form' = [Closed EXCEPT !.step = "loading"]

ReturnToConfigs ==
  /\ view = "configs" /\ ReEnter /\ Begin(Load)
  /\ UNCHANGED <<list, asking>>

\* A check is not begun beside another.
ConfigsTick ==
  /\ view = "configs"
  /\ \E g \in Gens :
       Tick(g, IF /\ form.step = "ready" /\ ~dialog.up
                  /\ \A c \in running : c.what # "check"
               THEN {Check} ELSE {})

\* A check that fails says nothing.
RunLoadConfigs ==
  /\ view = "configs"
  /\ \E c \in running :
       \/ Reads(c, world, "configs")
       \/ c.what = "load" /\ ReadFails(c, "failed")
       \/ Runs(c, {"check"}) /\ Answers(c, {}) /\ Happens
  /\ UNCHANGED <<screen, cluster, list, poll, asking>>

ConfigsLoaded ==
  /\ view = "configs"
  /\ \E m \in mail : Hears(m, {"configs"}) /\ Heard(m) /\ Shows(m.saw) /\ KeepsLoadedRow(m.saw)
  /\ With([form EXCEPT !.step = "ready"])
  /\ UNCHANGED <<screen, cluster, poll, dialog, pending, bounds>>

-----------------------------------------------------------------------------
ConfigsMove ==
  /\ ConfigsKey("list") /\ Moves
  /\ UNCHANGED <<screen, cluster, poll, asking, out>>

AskDeleteConfig ==
  /\ ConfigsKey("list") /\ Selected # Nobody
  /\ dialog' = OverNotice(Asks("delete", Selected)) /\ pending' = "delete"
  /\ With([form EXCEPT !.on = Selected])
  /\ UNCHANGED <<screen, cluster, list, poll, out>>

\* e opens the editor but for a release record, and fails where nothing is listed.
EditConfig ==
  /\ ConfigsKey("list")
  /\ IF Selected # Nobody /\ seen[Selected] = 2
     THEN /\ dialog' = Notes("edit", Selected) /\ pending' = "none"
          /\ UNCHANGED <<form, out>>
     ELSE Begin(Cmd("edit", Selected)) /\ UNCHANGED asking
  /\ UNCHANGED <<screen, cluster, list, poll>>

UsedByConfig ==
  /\ ConfigsKey("list") /\ Selected # Nobody
  /\ Begin(Cmd("usedby", Selected))
  /\ UNCHANGED <<screen, cluster, list, poll, asking>>

\* n, and c, which reads the config it clones at once and tells when it cannot.
NewConfig ==
  /\ ConfigsKey("list")
  /\ \/ With([Opened("create") EXCEPT !.for = "source"])
     \/ Selected # Nobody /\ form' \in {[Opened("create") EXCEPT !.for = "inline"], Opened("error")}
  /\ UNCHANGED <<screen, cluster, list, poll, dialog, pending, out>>

\* Steps of the create dialog: browse for a file, write in the editor, create.
ConfigSourceKey == form.for = "source" /\ UNCHANGED out /\ \E to \in {"file", "inline"} : With([form EXCEPT !.for = to])

CreatesConfig == With(Shut("create")) /\ \E n \in Names : Begin(Cmd("create", n))

ConfigFileKey ==
  /\ form.for = "file"
  /\ CreatesConfig \/ (With([form EXCEPT !.open = (@ \ {"create"}) \cup {"browse"}]) /\ Begin(Cmd("files", Nobody)))

ConfigInlineKey == form.for = "inline" /\ (CreatesConfig \/ (With(Shut("create")) /\ Begin(Cmd("write", Nobody))))

CreateConfigKey ==
  /\ ConfigsKey("create") /\ UNCHANGED <<dialog, pending>>
  /\ \/ With(Shut("create")) /\ UNCHANGED out
     \/ ConfigSourceKey \/ ConfigFileKey \/ ConfigInlineKey
  /\ UNCHANGED <<screen, cluster, list, poll>>

\* A file that is taken goes into the dialog, or creates the config already named.
BrowseConfigKey ==
  /\ ConfigsKey("browse") /\ UNCHANGED <<dialog, pending>>
  /\ \/ With([form EXCEPT !.open = (@ \ {"browse"}) \cup {"create"}]) /\ UNCHANGED out
     \/ Begin(Cmd("files", Nobody)) /\ UNCHANGED form
     \/ With(Shut("browse")) /\ \E n \in Names : Begin(Cmd("create", n))
  /\ UNCHANGED <<screen, cluster, list, poll>>

\* The error dialog gives the state back; the used-by list closes.
DismissConfigs ==
  /\ \/ ConfigsKey("error") /\ With([Shut("error") EXCEPT !.step = "ready"])
     \/ ConfigsKey("usedby") /\ With(Shut("usedby"))
  /\ UNCHANGED <<screen, cluster, list, poll, dialog, pending, out>>

ConfigsAnswer == view = "configs" /\ AnswerKey(ConfigsOrder)

\* A mutant: the answer is taken to be about the row the cursor is on.
ConfigAtCursor ==
  /\ view = "configs"
  /\ \E m \in mail :
       /\ HearsAnswer(m)
       /\ IF m.what = "yes" /\ pending # "none" /\ Selected # Nobody
          THEN HeardAndBegun(m, Cmd(pending, Selected)) ELSE Heard(m)
  /\ dialog' = Quiet /\ pending' = "none" /\ With([form EXCEPT !.on = Nobody])
  /\ UNCHANGED <<screen, cluster, list, poll, bounds>>

\* What was asked last, by the time the answer is heard, is done or dropped.
ConfigAnswered ==
  /\ view = "configs"
  /\ \E m \in mail :
       /\ HearsAnswer(m)
       /\ IF m.what = "yes" /\ pending # "none" /\ form.on # Nobody
          THEN HeardAndBegun(m, Cmd(pending, form.on)) ELSE Heard(m)
  /\ dialog' = Quiet /\ pending' = "none" /\ With([form EXCEPT !.on = Nobody])
  /\ UNCHANGED <<screen, cluster, list, poll, bounds>>

-----------------------------------------------------------------------------
\* An edit makes a config of a new name; a rotation makes the services use it.
RunConfigOp ==
  /\ view = "configs"
  /\ \E c \in running :
       /\ c.what \in {"create", "edit", "delete", "rotate"}
       /\ \/ /\ UNCHANGED bounds
             /\ \/ c.what = "delete" /\ c.on \in Holds(world)
                   /\ world' = [world EXCEPT ![c.on] = 0] /\ Answers(c, {Cmd("done", Nobody)})
                \/ c.what = "rotate" /\ UNCHANGED world /\ Answers(c, {Cmd("done", Nobody)})
                \/ c.what = "create" /\ c.on \notin Holds(world)
                   /\ world' = [world EXCEPT ![c.on] = 1] /\ Answers(c, {Cmd("done", Nobody)})
                \/ c.what = "edit" /\ c.on \in Holds(world)
                   /\ \/ UNCHANGED world /\ Answers(c, {})
                      \/ \E n \in Names \ Holds(world) :
                           world' = [world EXCEPT ![n] = 1] /\ Answers(c, {Cmd("edited", n)})
          \/ /\ UNCHANGED world
             /\ IF (c.what \in {"delete", "edit"}) <=> (c.on \in Holds(world)) THEN Happens ELSE UNCHANGED bounds
             /\ Answers(c, {Cmd(CASE c.what = "create" -> "not-created" [] c.what = "edit" -> "not-edited"
                                  [] OTHER -> "failed", Nobody)})
  /\ UNCHANGED <<screen, snapshot, list, poll, asking>>

RunConfigsOther ==
  /\ view = "configs"
  /\ \E c \in running :
       /\ c.what \in {"files", "write", "usedby"}
       /\ \/ Answers(c, {c}) /\ UNCHANGED bounds
          \/ /\ Answers(c, {Cmd(IF c.what = "usedby" THEN "usedby-failed" ELSE "not-created", Nobody)})
             /\ Happens
  /\ UNCHANGED <<screen, cluster, list, poll, asking>>

ConfigDone ==
  /\ view = "configs"
  /\ \E m \in mail : Hears(m, {"done"}) /\ HeardAndBegun(m, Load)
  /\ UNCHANGED <<screen, cluster, list, poll, asking, bounds>>

\* addConfig lists the new version at the end, and the dialog asks to rotate.
ConfigEdited ==
  /\ view = "configs"
  /\ \E m \in mail :
       /\ Hears(m, {"edited"}) /\ Heard(m)
       /\ Adds(m.on)
       /\ dialog' = OverNotice(Asks("rotate", m.on))
       /\ With([form EXCEPT !.on = m.on])
  /\ pending' = "rotate" /\ KeepsRow
  /\ UNCHANGED <<screen, cluster, ascending, query, seen, poll, bounds>>

\* The error of an edit is kept, but no dialog tells it.
ConfigFailed ==
  /\ view = "configs"
  /\ \E m \in mail :
       /\ Heard(m)
       /\ \/ Hears(m, {"not-edited"})    /\ With([form EXCEPT !.step = "error"])
          \/ Hears(m, {"failed"})        /\ With([Opened("error") EXCEPT !.step = "error"])
          \/ Hears(m, {"usedby-failed"}) /\ With(Opened("error"))
          \/ Hears(m, {"not-created"})   /\ With([form EXCEPT !.open = (@ \ {"browse"}) \cup {"create"}])
  /\ UNCHANGED <<screen, cluster, list, poll, dialog, pending, bounds>>

ConfigsOtherDone ==
  /\ view = "configs"
  /\ \E m \in mail :
       /\ Heard(m)
       /\ \/ Hears(m, {"files"})  /\ With(Opened("browse"))
          \/ Hears(m, {"write"})  /\ With([Opened("create") EXCEPT !.for = "inline"])
          \/ Hears(m, {"usedby"}) /\ With(Opened("usedby"))
  /\ UNCHANGED <<screen, cluster, list, poll, dialog, pending, bounds>>

-----------------------------------------------------------------------------
ConfigsOperator ==
  \/ ConfigsMove \/ AskDeleteConfig \/ EditConfig \/ UsedByConfig \/ NewConfig
  \/ CreateConfigKey \/ BrowseConfigKey \/ DismissConfigs \/ ConfigsAnswer

ConfigsProgram ==
  \/ RunLoadConfigs \/ RunConfigOp \/ RunConfigsOther
  \/ ConfigsLoaded \/ ConfigAnswered \/ ConfigDone \/ ConfigEdited \/ ConfigFailed \/ ConfigsOtherDone
  \/ OpenConfigs \/ ReturnToConfigs
=============================================================================
