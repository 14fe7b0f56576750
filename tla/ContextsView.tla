---------------------------- MODULE ContextsView ----------------------------
(***************************************************************************)
(* The contexts view (views/contexts): switch, export, import, create,     *)
(* edit and delete a Docker context.  Panels: "cert", "create", "edit" (of *)
(* whom in on, step "current" for the context in use), "error", "browse".  *)
(* Flags: "loading"; "switching"; "files" once a directory is listed, and  *)
(* "before" when its cursor is before the first of them.  rows: whom the   *)
(* pending action is about, pendingDeleteContext or pendingExportContext.  *)
(* What is listed of the context in use is 2.                              *)
(***************************************************************************)
EXTENDS ListView

ContextsOrder == <<"cert", "create", "edit", "error", "browse", "dialog">>

ContextsKey(where) == view = "contexts" /\ Press /\ KeysGoTo(ContextsOrder) = where

\* Esc clears a filter before anything else.
ContextsEsc(where) == ContextsKey(where) /\ query = Names

NoFiles == [form EXCEPT !.busy = @ \ {"files"}]

OpenContexts ==
  /\ view = "contexts" /\ EnterEmpty
  /\ form' = [Closed EXCEPT !.busy = {"loading"}]

\* What was loaded before is not loaded again.
ReturnToContexts ==
  /\ view = "contexts" /\ ReEnter
  /\ IF Listed = {} THEN Begin(Load) /\ With(Busy("loading")) ELSE UNCHANGED <<out, form>>
  /\ UNCHANGED <<list, dialog, pending>>

CapturesInput == form.open # {} \/ dialog.up

ContextsTick ==
  /\ view = "contexts"
  /\ \E g \in Gens :
       Tick(g, IF visible /\ ~CapturesInput /\ "loading" \notin form.busy THEN {Load} ELSE {})

RunLoadContexts ==
  /\ view = "contexts"
  /\ \E c \in running : Reads(c, world, "contexts") \/ ReadFails(c, "not-listed")
  /\ UNCHANGED <<screen, cluster, list, poll, asking>>

\* SetContexts
ContextsLoaded ==
  /\ view = "contexts"
  /\ \E m \in mail :
       /\ Hears(m, {"contexts", "not-listed"}) /\ Heard(m)
       /\ IF m.what = "contexts" THEN Shows(m.saw) /\ cursor' = RowOf(Selected, entries')
          ELSE UNCHANGED list
  /\ With(Idle("loading"))
  /\ UNCHANGED <<screen, cluster, poll, dialog, pending, bounds>>

-----------------------------------------------------------------------------
\* The cursor moves and the list is filtered again, which undoes its order; while
\* a switch is pending the keys do nothing.
ContextsMove ==
  /\ ContextsKey("list") /\ "switching" \notin form.busy
  /\ \/ /\ \E i \in DOMAIN entries : cursor' = i
        /\ entries' = Filtered(query, items)
        /\ UNCHANGED <<ascending, items, query, seen>>
     \/ ToggleSort \/ Search(FALSE)
  /\ UNCHANGED <<screen, cluster, poll, asking, out>>

ClearContextsFilter ==
  /\ view = "contexts" /\ Press
  /\ query # Names /\ Search(FALSE)
  /\ UNCHANGED <<screen, cluster, poll, asking, out>>

SwitchContext ==
  /\ ContextsKey("list") /\ "switching" \notin form.busy
  /\ Selected # Nobody /\ seen[Selected] # 2
  /\ With(Busy("switching")) /\ Begin(Cmd("switch", Selected))
  /\ UNCHANGED <<screen, cluster, list, poll, dialog, pending>>

\* ctrl+d, but for the context in use, and x.
DeleteOrExport ==
  /\ ContextsKey("list") /\ "switching" \notin form.busy /\ Selected # Nobody
  /\ \/ /\ seen[Selected] # 2
        /\ dialog' = Asks("delete", Selected) /\ pending' = "delete"
        /\ With([form EXCEPT !.rows = {Selected}]) /\ UNCHANGED out
     \/ Begin(Cmd("export", Selected)) /\ UNCHANGED asking
  /\ UNCHANGED <<screen, cluster, list, poll>>

\* e, for a context that is not the default one; c; and m, which lists the files
\* of the home directory.
OpenContextForm ==
  /\ ContextsKey("list") /\ "switching" \notin form.busy
  /\ \/ /\ Selected # Nobody /\ UNCHANGED out
        /\ form' \in {Opened("error"),
                      [Opened("edit") EXCEPT !.on = Selected,
                         !.step = IF seen[Selected] = 2 THEN "current" ELSE "none"]}
     \/ With(Opened("create")) /\ UNCHANGED out
     \/ With(Opened("browse")) /\ Begin(Cmd("files", Nobody))
  /\ UNCHANGED <<screen, cluster, list, poll, dialog, pending>>

\* The dialog stays open until the context is created.
CreateContextKey ==
  /\ UNCHANGED <<dialog, pending>>
  /\ \/ ContextsEsc("create") /\ With(Shut("create")) /\ UNCHANGED out
     \/ /\ ContextsKey("create")
        /\ \/ \E n \in Names : Begin(Cmd("create", n)) /\ UNCHANGED form
           \/ With(Opened("cert")) /\ Begin(Cmd("files", Nobody))
  /\ UNCHANGED <<screen, cluster, list, poll>>

\* The dialog stays open until the context is updated; nothing to update closes it.
EditContextKey ==
  /\ UNCHANGED <<dialog, pending>>
  /\ \/ (ContextsEsc("edit") \/ ContextsKey("edit")) /\ With(Shut("edit")) /\ UNCHANGED out
     \/ /\ ContextsKey("edit") /\ UNCHANGED form
        /\ Begin(Cmd("update", form.on)) \/ (form.step = "current" /\ Begin(Cmd("move", form.on)))
  /\ UNCHANGED <<screen, cluster, list, poll>>

CertKey ==
  /\ UNCHANGED <<dialog, pending>>
  /\ \/ /\ ContextsEsc("cert") \/ (ContextsKey("cert") /\ "files" \in form.busy)
        /\ With([Shut("cert") EXCEPT !.busy = @ \ {"files", "before"}]) /\ UNCHANGED out
     \/ ContextsKey("cert") /\ "files" \in form.busy /\ Begin(Cmd("files", Nobody)) /\ UNCHANGED form
     \/ ContextsKey("cert") /\ "files" \notin form.busy /\ With(Busy("before")) /\ UNCHANGED out
  /\ UNCHANGED <<screen, cluster, list, poll>>

\* Enter takes the file the cursor is on: before the first one that is the end.
BrowseContextKey ==
  /\ UNCHANGED <<dialog, pending>>
  /\ \/ ContextsEsc("browse") /\ With([NoFiles EXCEPT !.open = @ \ {"browse"}]) /\ UNCHANGED <<out, place>>
     \/ /\ ContextsKey("browse") /\ "files" \in form.busy /\ UNCHANGED place
        /\ \/ Begin(Cmd("files", Nobody)) /\ UNCHANGED form
           \/ /\ With([NoFiles EXCEPT !.open = @ \ {"browse"}])
              /\ \E n \in Names : Begin(Cmd("import", n))
     \/ /\ ContextsKey("browse") /\ "files" \notin form.busy /\ UNCHANGED out
        /\ \/ With(Busy("before")) /\ UNCHANGED place
           \/ "before" \in form.busy /\ place' = "crashed" /\ UNCHANGED form
  /\ UNCHANGED <<view, visible, cluster, list, poll>>

DismissContextsError ==
  /\ ContextsKey("error") /\ Shuts("error")
  /\ UNCHANGED <<screen, cluster, list, poll, out>>

ForgetsAsked == dialog' = Quiet /\ pending' = "none" /\ With([form EXCEPT !.rows = {}])

\* Esc is a no that is heard at once.
ContextsAnswer ==
  /\ view = "contexts"
  /\ \/ AnswerKey(ContextsOrder)
     \/ ContextsEsc("dialog") /\ ForgetsAsked /\ UNCHANGED <<screen, cluster, list, poll, out>>

\* What was asked about last, by the time the answer is heard, is deleted, overwritten or left.
ContextAnswered ==
  /\ view = "contexts"
  /\ \E m \in mail :
       /\ HearsAnswer(m)
       /\ \/ m.what = "yes" /\ \E n \in form.rows : HeardAndBegun(m, Cmd(pending, n))
          \/ (m.what = "no" \/ form.rows = {}) /\ Heard(m)
  /\ ForgetsAsked
  /\ UNCHANGED <<screen, cluster, list, poll, bounds>>

-----------------------------------------------------------------------------
InUse(n) == [m \in Names |-> IF m = n THEN 2 ELSE IF world[m] = 2 THEN 1 ELSE world[m]]

\* A context that cannot be reached is left again; the one in use is not removed.
RunContextOp ==
  /\ view = "contexts"
  /\ \E c \in running :
       /\ c.what \in {"switch", "delete", "create", "import", "update", "move"}
       /\ LET can == CASE c.what = "delete"               -> world[c.on] = 1
                       [] c.what \in {"create", "import"} -> world[c.on] = 0
                       [] OTHER                           -> world[c.on] # 0
          IN \/ /\ can /\ UNCHANGED bounds
                /\ world' = CASE c.what = "switch"              -> InUse(c.on)
                              [] c.what = "delete"              -> [world EXCEPT ![c.on] = 0]
                              [] c.what \in {"create", "import"} -> [world EXCEPT ![c.on] = 1]
                              [] OTHER                          -> world
                /\ Answers(c, {[c EXCEPT !.what = CASE c.what = "switch" -> "switched"
                                  [] c.what = "delete" -> "deleted" [] c.what = "create" -> "created"
                                  [] c.what = "import" -> "imported" [] c.what = "move" -> "moved"
                                  [] OTHER -> "updated"]})
             \/ /\ IF can THEN Happens ELSE UNCHANGED bounds
                /\ Answers(c, {Cmd(CASE c.what = "switch" -> "not-switched"
                                     [] c.what = "import" -> "not-imported" [] OTHER -> "failed", c.on)})
                /\ UNCHANGED world
  /\ UNCHANGED <<screen, snapshot, list, poll, asking>>

\* An archive that is there already asks again; a directory that holds no archive
\* is told of as one that cannot be read.
RunContextFiles ==
  /\ view = "contexts" /\ UNCHANGED bounds
  /\ \E c \in running :
       \/ c.what = "export" /\ (Answers(c, {}) \/ Answers(c, {Cmd("exists", c.on)}))
       \/ c.what = "overwrite" /\ Answers(c, {})
       \/ c.what = "files" /\ (Answers(c, {c}) \/ Answers(c, {Cmd("no-files", Nobody)}))
  /\ UNCHANGED <<screen, cluster, list, poll, asking>>

\* The application is told of another context, and goes to the stacks.
ContextDone ==
  /\ view = "contexts"
  /\ \E m \in mail :
       /\ Hears(m, {"switched", "deleted", "created", "imported", "updated", "moved"})
       /\ running' = running \cup {Load}
       /\ mail' = (mail \ {m}) \cup (IF m.what \in {"switched", "moved"} THEN {Cmd("elsewhere", Nobody)} ELSE {})
       /\ With([form EXCEPT
            !.busy = (@ \cup {"loading"}) \ (IF m.what = "switched" THEN {"switching"} ELSE {}),
            !.open = @ \ CASE m.what = "created" -> {"create"} [] m.what = "imported" -> {"browse"}
                           [] m.what \in {"updated", "moved"} -> {"edit"} [] OTHER -> {}])
  /\ UNCHANGED <<screen, cluster, list, poll, dialog, pending, bounds>>

ContextFailed ==
  /\ view = "contexts"
  /\ \E m \in mail :
       /\ Heard(m)
       /\ \/ Hears(m, {"not-switched"}) /\ With([Idle("switching") EXCEPT !.open = @ \cup {"error"}])
          \/ Hears(m, {"not-imported"}) /\ With(Shut("browse"))
          \/ Hears(m, {"failed"}) /\ UNCHANGED form
  /\ UNCHANGED <<screen, cluster, list, poll, dialog, pending, bounds>>

ExportExists ==
  /\ view = "contexts"
  /\ \E m \in mail :
       /\ Hears(m, {"exists"}) /\ Heard(m)
       /\ dialog' = Asks("overwrite", m.on) /\ With([form EXCEPT !.rows = {m.on}])
  /\ pending' = "overwrite"
  /\ UNCHANGED <<screen, cluster, list, poll, bounds>>

ContextFilesLoaded ==
  /\ view = "contexts"
  /\ \E m \in mail :
       /\ Heard(m)
       /\ \/ /\ Hears(m, {"files"})
             /\ With([form EXCEPT !.busy = (@ \ {"before"}) \cup {"files"},
                        !.open = IF "cert" \in @ THEN @ ELSE @ \cup {"browse"}])
          \/ /\ Hears(m, {"no-files"})
             /\ IF "cert" \in form.open THEN UNCHANGED form ELSE With(Shut("browse"))
  /\ UNCHANGED <<screen, cluster, list, poll, dialog, pending, bounds>>

GoElsewhere ==
  /\ view = "contexts"
  /\ \E m \in mail : m.what = "elsewhere" /\ Heard(m)
  /\ place' = "gone" /\ visible' = FALSE
  /\ UNCHANGED <<view, cluster, list, poll, asking, bounds>>

-----------------------------------------------------------------------------
ContextsOperator ==
  \/ ContextsMove \/ ClearContextsFilter \/ SwitchContext \/ DeleteOrExport \/ OpenContextForm
  \/ CreateContextKey \/ EditContextKey \/ CertKey \/ BrowseContextKey \/ DismissContextsError
  \/ ContextsAnswer

ContextsProgram ==
  \/ RunLoadContexts \/ RunContextOp \/ RunContextFiles
  \/ ContextsLoaded \/ ContextAnswered \/ ContextDone \/ ContextFailed \/ ExportExists \/ ContextFilesLoaded
  \/ GoElsewhere \/ OpenContexts \/ ReturnToContexts
=============================================================================
