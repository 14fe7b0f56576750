---------------------------- MODULE SecretsView -----------------------------
(***************************************************************************)
(* The secrets view (views/secrets): delete, create, reveal and the        *)
(* services that use one.  Panels: "error", "create" (its step in for),    *)
(* "usedby", "browse"; on: secretToDelete; step: the state, "loading",     *)
(* "ready" or "error".                                                     *)
(***************************************************************************)
EXTENDS ListView

SecretsOrder == <<"error", "create", "usedby", "browse", "dialog">>

SecretsKey(where) == view = "secrets" /\ Press /\ KeysGoTo(SecretsOrder) = where

OpenSecrets ==
  /\ view = "secrets" /\ EnterEmpty
  /\ form' = [Closed EXCEPT !.step = "loading"]

ReturnToSecrets ==
  /\ view = "secrets" /\ ReEnter /\ Begin(Load)
  /\ UNCHANGED <<list, asking>>

\* A check is not begun beside another.
SecretsChecks ==
  IF form.step = "ready" /\ ~dialog.up /\ \A c \in running : c.what # "check" THEN {Check} ELSE {}

SecretsTick == view = "secrets" /\ \E g \in Gens : Tick(g, SecretsChecks)

\* A check that fails says nothing.
RunLoadSecrets ==
  /\ view = "secrets"
  /\ \E c \in running :
       \/ Reads(c, world, "secrets")
       \/ c.what = "load" /\ ReadFails(c, "failed")
       \/ Runs(c, {"check"}) /\ Answers(c, {}) /\ Happens
  /\ UNCHANGED <<screen, cluster, list, poll, asking>>

SecretsLoaded ==
  /\ view = "secrets"
  /\ \E m \in mail : Hears(m, {"secrets"}) /\ Heard(m) /\ Shows(m.saw) /\ KeepsLoadedRow(m.saw)
  /\ With([form EXCEPT !.step = "ready"])
  /\ UNCHANGED <<screen, cluster, poll, dialog, pending, bounds>>

-----------------------------------------------------------------------------
SecretsMove ==
  /\ SecretsKey("list") /\ Moves
  /\ UNCHANGED <<screen, cluster, poll, asking, out>>

AskDeleteSecret ==
  /\ SecretsKey("list") /\ Selected # Nobody
  /\ dialog' = Asks("delete", Selected) /\ pending' = "delete"
  /\ With([form EXCEPT !.on = Selected])
  /\ UNCHANGED <<screen, cluster, list, poll, out>>

UsedBySecret ==
  /\ SecretsKey("list") /\ Selected # Nobody
  /\ Begin(Cmd("usedby", Selected))
  /\ UNCHANGED <<screen, cluster, list, poll, asking>>

\* x, with no extension that can reveal a secret.
RevealSecret ==
  /\ SecretsKey("list") /\ Selected # Nobody
  /\ Opens("error")
  /\ UNCHANGED <<screen, cluster, list, poll, out>>

NewSecret ==
  /\ SecretsKey("list")
  /\ With([Opened("create") EXCEPT !.for = "source"])
  /\ UNCHANGED <<screen, cluster, list, poll, dialog, pending, out>>

\* Steps of the create dialog: browse for a file, write in the editor, create.
SecretSourceKey == form.for = "source" /\ UNCHANGED out /\ \E to \in {"file", "inline"} : With([form EXCEPT !.for = to])

CreatesSecret == With(Shut("create")) /\ \E n \in Names : Begin(Cmd("create", n))

SecretFileKey ==
  /\ form.for = "file"
  /\ CreatesSecret \/ (With([form EXCEPT !.open = (@ \ {"create"}) \cup {"browse"}]) /\ Begin(Cmd("files", Nobody)))

SecretInlineKey == form.for = "inline" /\ (CreatesSecret \/ (With(Shut("create")) /\ Begin(Cmd("write", Nobody))))

CreateSecretKey ==
  /\ SecretsKey("create") /\ UNCHANGED <<dialog, pending>>
  /\ \/ With(Shut("create")) /\ UNCHANGED out
     \/ SecretSourceKey \/ SecretFileKey \/ SecretInlineKey
  /\ UNCHANGED <<screen, cluster, list, poll>>

\* A file that is taken goes into the dialog.
BrowseSecretKey ==
  /\ SecretsKey("browse") /\ UNCHANGED <<dialog, pending>>
  /\ \/ /\ \E to \in {form.for, "file"} :
             With([form EXCEPT !.open = (@ \ {"browse"}) \cup {"create"}, !.for = to])
        /\ UNCHANGED out
     \/ Begin(Cmd("files", Nobody)) /\ UNCHANGED form
  /\ UNCHANGED <<screen, cluster, list, poll>>

\* A mutant: the error dialog closes and the state stays.
DismissSecretsOnly ==
  /\ \/ SecretsKey("error") /\ With(Shut("error"))
     \/ SecretsKey("usedby") /\ With(Shut("usedby"))
  /\ UNCHANGED <<screen, cluster, list, poll, dialog, pending, out>>

\* The error dialog gives the state back; the used-by list closes.
DismissSecrets ==
  /\ \/ SecretsKey("error") /\ With([Shut("error") EXCEPT !.step = "ready"])
     \/ SecretsKey("usedby") /\ With(Shut("usedby"))
  /\ UNCHANGED <<screen, cluster, list, poll, dialog, pending, out>>

SecretsAnswer == view = "secrets" /\ AnswerKey(SecretsOrder)

\* What was asked about last, by the time the answer is heard, is deleted or not.
SecretAnswered ==
  /\ view = "secrets"
  /\ \E m \in mail :
       /\ HearsAnswer(m)
       /\ IF m.what = "yes" /\ pending = "delete" /\ form.on # Nobody
          THEN HeardAndBegun(m, Cmd("delete", form.on)) ELSE Heard(m)
  /\ dialog' = Quiet /\ pending' = "none" /\ With([form EXCEPT !.on = Nobody])
  /\ UNCHANGED <<screen, cluster, list, poll, bounds>>

-----------------------------------------------------------------------------
RunSecretOp ==
  /\ view = "secrets"
  /\ \E c \in running :
       /\ c.what \in {"create", "delete"}
       /\ LET can == (c.what = "delete") <=> (c.on \in Holds(world))
          IN \/ /\ can /\ UNCHANGED bounds
                /\ world' = [world EXCEPT ![c.on] = IF c.what = "create" THEN 1 ELSE 0]
                /\ Answers(c, {Cmd(IF c.what = "create" THEN "created" ELSE "deleted", c.on)})
             \/ /\ IF can THEN Happens ELSE UNCHANGED bounds
                /\ Answers(c, {Cmd("failed", Nobody)}) /\ UNCHANGED world
  /\ UNCHANGED <<screen, snapshot, list, poll, asking>>

\* A directory that cannot be read is shown as an empty one.
RunSecretsOther ==
  /\ view = "secrets"
  /\ \E c \in running :
       /\ c.what \in {"files", "write", "usedby"}
       /\ \/ Answers(c, {c}) /\ UNCHANGED bounds
          \/ c.what # "files" /\ Answers(c, {Cmd("failed", Nobody)}) /\ Happens
  /\ UNCHANGED <<screen, cluster, list, poll, asking>>

SecretDeleted ==
  /\ view = "secrets"
  /\ \E m \in mail : Hears(m, {"deleted"}) /\ HeardAndBegun(m, Load)
  /\ UNCHANGED <<screen, cluster, list, poll, asking, bounds>>

\* addSecret lists it at the end, whatever was loaded meanwhile, and closes the
\* dialog, whatever was opened in it meanwhile.
SecretCreated ==
  /\ view = "secrets"
  /\ \E m \in mail :
       /\ Hears(m, {"created"}) /\ Heard(m)
       /\ Adds(m.on)
  /\ KeepsRow /\ With(Shut("create"))
  /\ UNCHANGED <<screen, cluster, ascending, query, seen, poll, dialog, pending, bounds>>

\* errorMsg closes the create dialog.
SecretFailed ==
  /\ view = "secrets"
  /\ \E m \in mail : Hears(m, {"failed"}) /\ Heard(m)
  /\ With([form EXCEPT !.open = (@ \ {"create"}) \cup {"error"}, !.step = "error"])
  /\ UNCHANGED <<screen, cluster, list, poll, dialog, pending, bounds>>

SecretsOtherDone ==
  /\ view = "secrets"
  /\ \E m \in mail :
       /\ Heard(m)
       /\ \/ Hears(m, {"files"})  /\ With(Opened("browse"))
          \/ Hears(m, {"write"})  /\ With([Opened("create") EXCEPT !.for = "inline"])
          \/ Hears(m, {"usedby"}) /\ With(Opened("usedby"))
  /\ UNCHANGED <<screen, cluster, list, poll, dialog, pending, bounds>>

-----------------------------------------------------------------------------
SecretsOperator ==
  \/ SecretsMove \/ AskDeleteSecret \/ UsedBySecret \/ RevealSecret \/ NewSecret
  \/ CreateSecretKey \/ BrowseSecretKey \/ DismissSecrets \/ SecretsAnswer

SecretsProgram ==
  \/ RunLoadSecrets \/ RunSecretOp \/ RunSecretsOther
  \/ SecretsLoaded \/ SecretAnswered \/ SecretDeleted \/ SecretCreated \/ SecretFailed \/ SecretsOtherDone
  \/ OpenSecrets \/ ReturnToSecrets
=============================================================================
