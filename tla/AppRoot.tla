------------------------------- MODULE AppRoot -------------------------------
(***************************************************************************)
(* The root of the TUI: the view on the screen and those under it, the     *)
(* dialogs and input bars over it, who takes a key, and the messages that  *)
(* commands send back in any order. The polling of the views is Console's, *)
(* the client and the snapshot behind a context switch are Session's.      *)
(***************************************************************************)
EXTENDS Integers, Sequences, FiniteSets, SequencesExt

CONSTANTS
  Contexts,   \* the Docker contexts
  Deepest,    \* views kept under the one on the screen (10 in the program)
  MaxKeys,    \* bound on keys, clicks and what comes from outside
  MaxMail     \* bound on commands under way and messages not yet delivered

None == "none"

Views == {"loading", "stacks", "contexts", "services", "help"}
Lists == {"stacks", "contexts", "services"}      \* RowClicker, Filterable, and may ask
Filterable == Lists \cup {"help"}
TopLevel == Views \ {"services"}

Keys == {":", "/", "esc", "enter", "y", "?", "f", "c", "ctrl+q"}

\* In the order in which handleKey gives them a key.
Dialogs == <<"error", "unlock", "update", "drift", "connect">>

VARIABLES
  screen, below,          \* the current view: its name, whether it asks, the room it was given; those under it
  up, shown,              \* the dialogs whose flag is set, those that are visible
  fallback,               \* errorFallbackView
  command, search,        \* the input bars
  fullscreen, terminal,   \* the layout and the size of the terminal
  reserved,               \* whether the viewport holds back the rows of an input bar
  mouseOn,
  pin, config,            \* the session's context and the one ~/.docker/config.json names
  previous, writes,       \* what a failed load goes back to, and whether it may write config
  offered, declined,      \* the context of the drift prompt, and the one not offered again
  mail,                   \* commands under way and messages to deliver
  quit, keys

layout == <<screen, below, fullscreen, terminal, reserved>>
bars == <<command, search>>
dialogs == <<up, shown, fallback>>
contexts == <<pin, config, previous, writes, offered, declined>>
vars == <<layout, bars, dialogs, contexts, mouseOn, mail, quit, keys>>

Message(what, of, yes) == [what |-> what, of |-> of, yes |-> yes]
Loading(c) == Message("loading", c, TRUE)

Took(m, new) == mail' = (mail \ {m}) \cup new /\ UNCHANGED <<quit, keys>>
Sent(new) == /\ Cardinality(mail) < MaxMail /\ keys < MaxKeys /\ ~quit
             /\ mail' = mail \cup new /\ keys' = keys + 1 /\ UNCHANGED quit

-----------------------------------------------------------------------------
(***************************************************************************)
(* The views                                                               *)
(***************************************************************************)
BarOpen == command \/ search # "hidden"

Room == [full |-> fullscreen, bar |-> BarOpen, size |-> terminal]

\* resizeToTerminal: the room after the step, given to the viewport and to view v.
LaidOut(v) == reserved' = BarOpen' /\ screen' = [v EXCEPT !.room = Room']

Fresh(name) == [name |-> name, mode |-> "plain", room |-> [full |-> fullscreen, bar |-> reserved, size |-> terminal]]

ReplaceView(name) ==
  /\ screen' = Fresh(name) /\ below' = <<>>
  /\ UNCHANGED <<fullscreen, terminal, reserved>>

Kept(s) == SubSeq(s, Len(s) - Deepest + 1, Len(s))

SwitchToView(name) ==
  /\ screen' = Fresh(name)
  /\ below' = LET s == Append(below, screen) IN IF Len(s) > Deepest THEN Kept(s) ELSE s
  /\ UNCHANGED <<fullscreen, terminal, reserved>>

ReturnToUnlaid(i) ==
  below' = SubSeq(below, 1, i - 1) /\ screen' = below[i] /\ UNCHANGED reserved

\* returnTo the view at i, and goBack when i is the last: it is entered and laid out.
ReturnTo(i) ==
  /\ below' = SubSeq(below, 1, i - 1) /\ LaidOut(below[i])

Relaid == LaidOut(screen) /\ UNCHANGED below

-----------------------------------------------------------------------------
(***************************************************************************)
(* The dialogs                                                             *)
(***************************************************************************)
Raised(d) == up' = up \cup {d} /\ shown' = shown \cup {d}
Lowered(d) == up' = up \ {d} /\ shown' = shown \ {d}

ShowAppError(view) == Raised("error") /\ fallback' = view

FirstUp == Dialogs[CHOOSE i \in DOMAIN Dialogs :
                     Dialogs[i] \in up /\ \A j \in 1..(i - 1) : Dialogs[j] \notin up]

\* The dialogs that a key is given to before the input bars see it.
First == up \cap {"error", "unlock", "update", "connect"} # {}

Asking == screen.mode = "asking"     \* CapturesInput
Inside == screen.mode = "inside"     \* IsSearching: a list of its own within the view

\* Who takes ":" or "/" when no such dialog is up.
BarTaker(k) ==
  IF Asking THEN "view"
  ELSE IF command THEN "command"
  ELSE IF search = "editing" THEN "search"
  ELSE IF Inside \/ (k = "/" /\ screen.name \notin Filterable) THEN "view"
  ELSE "bar"

Taker(k) ==
  IF First THEN FirstUp
  ELSE IF k \in {":", "/"} THEN BarTaker(k)
  ELSE IF command THEN "command"
  ELSE IF search = "editing" THEN "search"
  ELSE IF up # {} THEN FirstUp
  ELSE IF Asking THEN "view"
  ELSE "app"

Pressed == keys < MaxKeys /\ ~quit /\ keys' = keys + 1

Answers(d, yes) == mail' = mail \cup {Message("answer", d, yes)}

\* The dialog hides itself and sends its answer; until that is delivered its flag stays.
DialogKey(d, k) ==
  /\ Taker(k) = d /\ d \in {"error", "update", "drift"} /\ Pressed
  /\ \/ /\ d \in shown /\ k \in (IF d = "drift" THEN {"y", "esc"} ELSE {"enter", "esc"})
        /\ shown' = shown \ {d} /\ Answers(d, k = "y")
     \/ /\ d \notin shown \/ k \notin (IF d = "drift" THEN {"y", "esc"} ELSE {"enter", "esc"})
        /\ UNCHANGED <<shown, mail>>
  /\ UNCHANGED <<layout, bars, up, fallback, contexts, mouseOn, quit>>

UnlockKey(k) ==
  /\ Taker(k) = "unlock" /\ "unlock" \in shown /\ k \in {"enter", "esc"} /\ Pressed
  /\ shown' = shown \ {"unlock"} /\ mail' = mail \cup {Message("key", None, k = "enter")}
  /\ UNCHANGED <<layout, bars, up, fallback, contexts, mouseOn, quit>>

ConnectKey(k) ==
  /\ Taker(k) = "connect" /\ k = "esc" /\ Pressed
  /\ Lowered("connect")
  /\ UNCHANGED <<layout, bars, fallback, contexts, mouseOn, mail, quit>>

-----------------------------------------------------------------------------
(***************************************************************************)
(* The input bars                                                          *)
(***************************************************************************)
\* What the commands send: another view, a dialog, the mouse, a notice.
Commands ==
  [what : {"navigate"}, of : Lists, yes : BOOLEAN] \cup
  [what : {"ask key", "preview", "connect", "mouse", "error"}, of : {None}, yes : {TRUE}]

OpenBar(k) ==
  /\ Taker(k) = "bar" /\ Pressed /\ UNCHANGED <<fullscreen, terminal>>
  /\ \/ k = ":" /\ search = "hidden" /\ command' = TRUE /\ UNCHANGED search /\ Relaid
     \/ k = ":" /\ search = "passive" /\ UNCHANGED <<bars, screen, below, reserved>>
     \/ k = "/" /\ search = "passive" /\ search' = "editing" /\ UNCHANGED <<command, screen, below, reserved>>
     \/ k = "/" /\ search = "hidden" /\ search' = "editing" /\ UNCHANGED command /\ Relaid
  /\ UNCHANGED <<dialogs, contexts, mouseOn, mail, quit>>

\* Enter hides the bar and runs what was typed, if it names a command.
CommandKey(k) ==
  /\ Taker(k) = "command" /\ k \in {"enter", "esc"} /\ Pressed
  /\ command' = FALSE /\ UNCHANGED <<search, fullscreen, terminal>> /\ Relaid
  /\ \/ UNCHANGED mail
     \/ k = "enter" /\ Cardinality(mail) < MaxMail /\ \E m \in Commands : mail' = mail \cup {m}
  /\ UNCHANGED <<dialogs, contexts, mouseOn, quit>>

SearchKey(k) ==
  /\ Taker(k) = "search" /\ k \in {"enter", "esc"} /\ Pressed
  /\ UNCHANGED <<command, fullscreen, terminal>>
  /\ \/ k = "enter" /\ search' = "passive" /\ UNCHANGED <<screen, below, reserved>>
     \/ k = "esc" /\ search' = "hidden" /\ Relaid
  /\ UNCHANGED <<dialogs, contexts, mouseOn, mail, quit>>

-----------------------------------------------------------------------------
(***************************************************************************)
(* The view and the app                                                    *)
(***************************************************************************)
StepsTo(mode) == screen' = [screen EXCEPT !.mode = mode] /\ UNCHANGED <<below, reserved>>

\* A view that asks answers like the dialogs above, with the same message.
ViewKey(k) ==
  /\ Taker(k) = "view" /\ Asking /\ k \in {"y", "esc"} /\ Pressed
  /\ StepsTo("plain") /\ Answers("view", k = "y")
  /\ UNCHANGED <<bars, fullscreen, terminal, dialogs, contexts, mouseOn, quit>>

Global == {"?", "f", "c", "ctrl+q", "esc"}

\* Keys of a view that has the screen to itself: it asks, steps into a list of its own,
\* opens another view or switches the context.
OwnKey(k) ==
  /\ Taker(k) = "app" /\ (k \notin Global \/ (k = "c" /\ screen.name = "contexts")) /\ Pressed
  /\ \/ screen.name \in Lists /\ screen.mode = "plain" /\ \E mode \in {"asking", "inside"} : StepsTo(mode)
        /\ UNCHANGED mail
     \/ /\ Cardinality(mail) < MaxMail
        /\ \/ screen.name \in Lists /\ mail' = mail \cup {Message("navigate", "services", FALSE)}
           \/ screen.name = "contexts" /\ \E c \in Contexts : mail' = mail \cup {Message("switching", c, TRUE)}
        /\ UNCHANGED <<screen, below, reserved>>
  /\ UNCHANGED <<bars, fullscreen, terminal, dialogs, contexts, mouseOn, quit>>

\* Esc leaves the fullscreen, then what the view is inside of, then the search, then the
\* view; at the root it does nothing.
Esc ==
  /\ UNCHANGED <<command, terminal>>
  /\ IF fullscreen THEN fullscreen' = FALSE /\ UNCHANGED search /\ Relaid
     ELSE /\ UNCHANGED fullscreen
          /\ IF Inside THEN StepsTo("plain") /\ UNCHANGED search
             ELSE IF search = "passive" THEN search' = "hidden" /\ Relaid
             ELSE /\ UNCHANGED search
                  /\ IF below # <<>> THEN ReturnTo(Len(below)) ELSE UNCHANGED <<screen, below, reserved>>
  /\ UNCHANGED <<dialogs, contexts, mouseOn, mail, quit>>

EscKey == Taker("esc") = "app" /\ Pressed /\ Esc

HelpKey ==
  /\ Taker("?") = "app" /\ screen.name # "help" /\ ~Inside /\ Pressed
  /\ Cardinality(mail) < MaxMail /\ mail' = mail \cup {Message("navigate", "help", FALSE)}
  /\ UNCHANGED <<layout, bars, dialogs, contexts, mouseOn, quit>>

FullscreenKey ==
  /\ Taker("f") = "app" /\ ~Inside /\ Pressed
  /\ fullscreen' = ~fullscreen /\ UNCHANGED <<terminal, bars>> /\ Relaid
  /\ UNCHANGED <<dialogs, contexts, mouseOn, mail, quit>>

ConnectAppKey ==
  /\ Taker("c") = "app" /\ screen.name \notin {"help", "contexts"} /\ ~Inside /\ Pressed
  /\ Raised("connect")
  /\ UNCHANGED <<layout, bars, fallback, contexts, mouseOn, mail, quit>>

QuitKey ==
  /\ Taker("ctrl+q") = "app" /\ Pressed /\ quit' = TRUE
  /\ UNCHANGED <<layout, bars, dialogs, contexts, mouseOn, mail>>

\* The mouse, in a list that nothing covers and while nothing is typed.
MouseTaken == mouseOn /\ screen.name \in Lists /\ up = {} /\ ~command /\ search # "editing" /\ ~Asking

RightClick == MouseTaken /\ Pressed /\ Esc

\* The breadcrumbs go back as far as the nearest top-level view.
ClickBreadcrumb ==
  /\ MouseTaken /\ ~fullscreen /\ screen.name \notin TopLevel /\ Pressed
  /\ search' = "hidden" /\ UNCHANGED <<command, fullscreen, terminal>>
  /\ \E i \in DOMAIN below :
       /\ \A j \in (i + 1)..Len(below) : below[j].name \notin TopLevel
       /\ ReturnTo(i)
  /\ UNCHANGED <<dialogs, contexts, mouseOn, mail, quit>>

Resize ==
  /\ Pressed /\ terminal' = 3 - terminal /\ UNCHANGED <<fullscreen, bars>> /\ Relaid
  /\ UNCHANGED <<dialogs, contexts, mouseOn, mail, quit>>

Operator ==
  \/ \E k \in Keys : \/ \E d \in {"error", "update", "drift"} : DialogKey(d, k)
                     \/ UnlockKey(k) \/ ConnectKey(k) \/ OpenBar(k) \/ CommandKey(k) \/ SearchKey(k)
                     \/ ViewKey(k) \/ OwnKey(k)
  \/ EscKey \/ HelpKey \/ FullscreenKey \/ ConnectAppKey \/ QuitKey
  \/ RightClick \/ ClickBreadcrumb \/ Resize

-----------------------------------------------------------------------------
(***************************************************************************)
(* Messages, delivered in any order                                        *)
(***************************************************************************)
EnterContext(m, from, mayWrite) ==
  /\ previous' = from /\ writes' = mayWrite
  /\ ReplaceView("loading")
  /\ Took(m, {Loading(pin')})

\* The switch writes the config file and moves the pin; its end is told to the view.
RunSwitch(m) ==
  /\ m.what = "switching"
  /\ config' = m.of /\ pin' = m.of
  /\ Took(m, {Message("switched", pin, TRUE)})
  /\ UNCHANGED <<layout, bars, dialogs, previous, writes, offered, declined, mouseOn>>

Switched(m) ==
  /\ m.what = "switched"
  /\ Took(m, IF screen.name = "contexts" THEN {Message("changed", m.of, TRUE)} ELSE {})
  /\ UNCHANGED <<layout, bars, dialogs, contexts, mouseOn>>

ContextChanged(m) ==
  /\ m.what = "changed"
  /\ UNCHANGED pin /\ EnterContext(m, m.of, TRUE)
  /\ UNCHANGED <<bars, dialogs, config, offered, declined, mouseOn>>

\* The snapshot of whichever load ends; a locked swarm is told over the stacks.
SnapshotLoaded(m) ==
  /\ m.what = "loading"
  /\ Took(m, {})
  /\ ReplaceView("stacks") /\ previous' = None
  /\ \/ UNCHANGED dialogs
     \/ ShowAppError("")
  /\ UNCHANGED <<bars, pin, config, writes, offered, declined, mouseOn>>

SnapshotNotLoaded(m) ==
  /\ m.what = "loading"
  /\ Took(m, {})
  /\ \/ previous = None /\ UNCHANGED <<pin, config, previous, declined>>
     \/ /\ previous # None /\ pin' = previous /\ previous' = None
        /\ config' = IF writes THEN previous ELSE config
        /\ declined' = IF writes THEN declined ELSE pin
  /\ ShowAppError("contexts")
  /\ UNCHANGED <<layout, bars, writes, offered, mouseOn>>

Navigate(m) ==
  /\ m.what = "navigate"
  /\ Took(m, {})
  /\ IF m.yes THEN ReplaceView(m.of) ELSE SwitchToView(m.of)
  /\ UNCHANGED <<bars, dialogs, contexts, mouseOn>>

\* resolveContextDrift, or what the update notice or the error does, or the view's own.
Answered(m) ==
  /\ m.what = "answer"
  /\ \/ /\ "drift" \in up
        /\ Lowered("drift") /\ UNCHANGED fallback /\ offered' = None
        /\ declined' = IF m.yes THEN None ELSE offered
        /\ IF m.yes THEN pin' = offered /\ EnterContext(m, pin, FALSE)
           ELSE Took(m, {}) /\ UNCHANGED <<pin, previous, writes, layout>>
        /\ UNCHANGED config
     \/ /\ "drift" \notin up /\ "update" \in up
        /\ Lowered("update") /\ Took(m, {}) /\ UNCHANGED <<fallback, layout, contexts>>
     \/ /\ up \cap {"drift", "update"} = {} /\ "error" \in up
        /\ Lowered("error") /\ fallback' = "" /\ Took(m, {}) /\ UNCHANGED contexts
        /\ IF fallback # "" THEN ReplaceView(fallback) ELSE UNCHANGED layout
     \/ /\ up \cap {"drift", "update", "error"} = {}
        /\ Took(m, {}) /\ UNCHANGED <<layout, dialogs, contexts>>
  /\ UNCHANGED <<bars, mouseOn>>

UnlockAnswered(m) ==
  /\ m.what = "key"
  /\ Lowered("unlock") /\ UNCHANGED fallback
  /\ Took(m, IF m.yes THEN {Message("unlocking", None, TRUE)} ELSE {})
  /\ UNCHANGED <<layout, bars, contexts, mouseOn>>

UnlockResult(m) ==
  /\ m.what = "unlocking"
  /\ \/ Took(m, {}) /\ ShowAppError("")
     \/ Took(m, {Loading(pin)}) /\ UNCHANGED dialogs
  /\ UNCHANGED <<layout, bars, contexts, mouseOn>>

OpenDialog(m) ==
  /\ \/ m.what = "ask key" /\ Raised("unlock") /\ UNCHANGED <<fallback, mouseOn>>
     \/ m.what = "preview" /\ Raised("update") /\ UNCHANGED <<fallback, mouseOn>>
     \/ m.what = "connect" /\ Raised("connect") /\ UNCHANGED <<fallback, mouseOn>>
     \/ m.what = "error" /\ ShowAppError("") /\ UNCHANGED mouseOn
     \/ m.what = "latest" /\ (IF up = {} THEN Raised("update") ELSE UNCHANGED <<up, shown>>) /\ UNCHANGED <<fallback, mouseOn>>
     \/ m.what = "mouse" /\ mouseOn' = ~mouseOn /\ UNCHANGED dialogs
  /\ Took(m, {})
  /\ UNCHANGED <<layout, bars, contexts>>

\* An inconclusive check says nothing; agreement forgets what was declined.
ContextDrift(m) ==
  /\ m.what = "drift"
  /\ Took(m, {})
  /\ \/ ~m.yes /\ UNCHANGED <<dialogs, offered, declined>>
     \/ m.yes /\ m.of = None /\ declined' = None /\ UNCHANGED <<dialogs, offered>>
     \/ m.yes /\ m.of # None /\ (m.of = declined \/ up # {}) /\ UNCHANGED <<dialogs, offered, declined>>
     \/ /\ m.yes /\ m.of \notin {None, declined} /\ up = {}
        /\ Raised("drift") /\ UNCHANGED fallback
        /\ offered' = m.of /\ UNCHANGED declined
  /\ UNCHANGED <<layout, bars, pin, config, previous, writes, mouseOn>>

Deliver(m) ==
  \/ RunSwitch(m) \/ Switched(m) \/ ContextChanged(m) \/ SnapshotLoaded(m) \/ SnapshotNotLoaded(m)
  \/ Navigate(m) \/ Answered(m) \/ UnlockAnswered(m) \/ UnlockResult(m) \/ OpenDialog(m) \/ ContextDrift(m)

\* The tick's check: what the config file names, unless it cannot be read.
CheckDrift ==
  /\ Sent({Message("drift", IF config = pin THEN None ELSE config, TRUE)}) \/ Sent({Message("drift", None, FALSE)})
  /\ UNCHANGED <<layout, bars, dialogs, contexts, mouseOn>>

\* The answer of the check-in, and a load of the view that failed.
Outside ==
  /\ Sent({Message("latest", None, TRUE)}) \/ (screen.name # "loading" /\ Sent({Message("error", None, TRUE)}))
  /\ UNCHANGED <<layout, bars, dialogs, contexts, mouseOn>>

\* docker context use, in another terminal.
UseElsewhere ==
  /\ Sent({}) /\ \E c \in Contexts \ {config} : config' = c
  /\ UNCHANGED <<layout, bars, dialogs, pin, previous, writes, offered, declined, mouseOn>>

Init ==
  /\ terminal = 1 /\ fullscreen = FALSE /\ reserved = FALSE /\ command = FALSE /\ search = "hidden"
  /\ screen = [name |-> "loading", mode |-> "plain", room |-> Room] /\ below = <<>>
  /\ up = {} /\ shown = {} /\ fallback = "" /\ mouseOn \in BOOLEAN
  /\ pin \in Contexts /\ config = pin /\ previous = None /\ writes = FALSE /\ offered = None /\ declined = None
  /\ mail = {Loading(pin)} /\ quit = FALSE /\ keys = 0

Next == Operator \/ (~quit /\ \E m \in mail : Deliver(m)) \/ CheckDrift \/ Outside \/ UseElsewhere

Spec == Init /\ [][Next]_vars

-----------------------------------------------------------------------------
(***************************************************************************)
(* What must hold                                                          *)
(***************************************************************************)
Rooms == [full : BOOLEAN, bar : BOOLEAN, size : 1..2]
Seen == [name : Views, mode : {"plain", "asking", "inside"}, room : Rooms]

\* Every piece of state keeps to its type, and no more views are kept than the stack holds.
TypeOK ==
  /\ screen \in Seen /\ below \in Seq(Seen) /\ Len(below) <= Deepest
  /\ fullscreen \in BOOLEAN /\ terminal \in 1..2 /\ reserved \in BOOLEAN
  /\ command \in BOOLEAN /\ search \in {"hidden", "editing", "passive"} /\ mouseOn \in BOOLEAN
  /\ up \subseteq ToSet(Dialogs) /\ shown \subseteq up /\ fallback \in {"", "contexts"}
  /\ {pin, config} \subseteq Contexts /\ {previous, offered, declined} \subseteq Contexts \cup {None}
  /\ (offered # None) <=> ("drift" \in up)
  /\ writes \in BOOLEAN /\ quit \in BOOLEAN /\ keys \in 0..MaxKeys

\* Whatever opens, closes, resizes, navigates or goes back, and in whatever order, the
\* view on the screen has the room that the layout leaves it and the viewport holds back
\* the rows of a bar exactly when one is open (resizeToTerminal, handleViewResize).
FitsTheScreen == reserved = BarOpen /\ screen.room = Room

\* renderInputBar: the command bar and the search bar "are mutually exclusive".
OneBar == ~command \/ search = "hidden"
=============================================================================
