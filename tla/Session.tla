-------------------------------- MODULE Session --------------------------------
(***************************************************************************)
(* The Docker context of a session: docker/session_context.go, client.go,  *)
(* context.go and snapshot.go with app/update.go, app/contextdrift.go and  *)
(* the switch in views/contexts.                                           *)
(*                                                                         *)
(* A session is pinned to one context.  The update loop handles one        *)
(* message at a time; commands run beside it and beside each other, share  *)
(* the pin, the cached client and the cached snapshot, and come back as    *)
(* messages in any order.  A second terminal may move the shell's context. *)
(* DOCKER_CONTEXT is taken as unset, and a context as a swarm of its own.  *)
(***************************************************************************)
EXTENDS Integers, Sequences

CONSTANTS
  Contexts,   \* Docker contexts
  Home,       \* the one the session starts in
  None,       \* no context, nobody
  Loads,      \* commands of loadSnapshotAsync that may run at once
  Switches,   \* commands of switchContextCmd that may run at once
  MaxOps,     \* bound: switches begun and moves of the shell
  MaxFails    \* bound: daemon calls and docker commands that fail

ASSUME SessionAssumption ==
  /\ Home \in Contexts /\ Contexts \cap {None, "none", "agrees", "inconclusive"} = {}
  /\ "refresh" \notin Loads \cup Switches /\ Loads \cap Switches = {}
  /\ None \notin Loads \cup Switches \cup {"refresh"}
  /\ MaxOps \in Nat /\ MaxFails \in Nat

\* The commands that need a client: RefreshSnapshotAsync runs one at a time.
Workers == Loads \cup Switches \cup {"refresh"}

VARIABLES
  shell,      \* currentContext in ~/.docker/config.json
  pin,        \* sessionCtx
  client,     \* cachedClient: the context it was built for
  builder,    \* clientMu: the worker building a client
  snapshot,   \* the cached snapshot: the context it was read from
  refreshing, \* refreshInProgress
  worker,     \* each worker's step, the context of its client, and a switch's ends
  revertTo,   \* previousContext, where a failing load reverts to, and
              \* revertWritesConfig, which counts only with it
  handler,    \* the rest of the message the update loop is handling
  notice,     \* a ContextChangedNotification on its way, and what it carries
  inContexts, \* the contexts view is open
  listed,     \* the context its list marks current
  listing,    \* the mark of a list on its way
  pendingSwitch, \* switchPending of that view
  check,      \* what a drift check on its way has found
  prompt,     \* the context the drift prompt offers
  declined,   \* declinedDriftContext
  ops, fails, \* bounded by MaxOps and MaxFails
  asked       \* history: what was offered last, nothing having moved since

swarms == <<client, builder, snapshot, refreshing>>
ui     == <<inContexts, listed, listing, pendingSwitch>>
drift  == <<check, prompt, declined>>
app    == <<revertTo, handler, notice>>
vars   == <<shell, pin, swarms, worker, app, ui, drift, ops, fails, asked>>

NoRevert == [ctx |-> None, writes |-> FALSE]

Free == [step |-> "free", ctx |-> None, from |-> None, to |-> None]

Goes(w, step) == worker' = [worker EXCEPT ![w].step = step]

\* A worker's last step: all that is left is how it ended.
Ends(w, how) == worker' = [worker EXCEPT ![w] = [Free EXCEPT !.step = how]]

\* What a call that may fail does when it does: one failure fewer is left.
Fails == fails < MaxFails /\ fails' = fails + 1

\* The shell's context or the pin moves: the operator may be asked again.
Moved == asked' = None

-----------------------------------------------------------------------------
Init ==
  /\ shell = Home /\ pin = Home
  /\ client = None /\ builder = None
  /\ snapshot = Home /\ refreshing = FALSE
  /\ worker = [w \in Workers |-> Free]
  /\ revertTo = NoRevert /\ handler = "idle" /\ notice = <<>>
  /\ inContexts = FALSE /\ listed = None /\ listing = None /\ pendingSwitch = FALSE
  /\ check = "none" /\ prompt = None /\ declined = None
  /\ ops = 0 /\ fails = 0
  /\ asked = None

-----------------------------------------------------------------------------
(***************************************************************************)
(* The client and the snapshot                                             *)
(***************************************************************************)

\* GetClient: the cached client, or one for the pin of this moment, built with
\* clientMu held.
GetClient(w) ==
  /\ worker[w].step = "get" /\ builder = None
  /\ IF client # None
     THEN /\ worker' = [worker EXCEPT ![w].step = "call", ![w].ctx = client]
          /\ UNCHANGED builder
     ELSE /\ worker' = [worker EXCEPT ![w].step = "build", ![w].ctx = pin]
          /\ builder' = w
  /\ UNCHANGED <<shell, pin, client, snapshot, refreshing, app, ui, drift,
                 ops, fails, asked>>

ClientBuilt(w) ==
  /\ worker[w].step = "build"
  /\ client' = worker[w].ctx
  /\ builder' = None
  /\ Goes(w, "call")
  /\ UNCHANGED <<shell, pin, snapshot, refreshing, app, ui, drift,
                 ops, fails, asked>>

\* ResetClient waits for clientMu.  Calls under way with the client go on.
ResetClient == builder = None /\ client' = None /\ UNCHANGED builder

\* RefreshSnapshot stores what it fetched, whatever the pin is by then.
Fetched(w) ==
  /\ w \notin Switches /\ worker[w].step = "call"
  /\ snapshot' = worker[w].ctx
  /\ IF w = "refresh" THEN refreshing' = FALSE /\ worker' = [worker EXCEPT ![w] = Free]
     ELSE UNCHANGED refreshing /\ Ends(w, "ok")
  /\ UNCHANGED <<shell, pin, client, builder, app, ui, drift, ops, fails, asked>>

\* A client that cannot be built, clientMu not released.
FetchFailsLocked(w) ==
  /\ w \notin Switches /\ worker[w].step \in {"build", "call"}
  /\ Fails
  /\ IF w = "refresh" THEN refreshing' = FALSE /\ worker' = [worker EXCEPT ![w] = Free]
     ELSE UNCHANGED refreshing /\ Ends(w, "failed")
  /\ UNCHANGED <<shell, pin, client, builder, snapshot, app, ui, drift, ops, asked>>

\* A background refresh that fails without the deferred reset of its flag.
FetchFailsFlagged(w) ==
  /\ w \notin Switches /\ worker[w].step \in {"build", "call"}
  /\ Fails
  /\ builder' = IF builder = w THEN None ELSE builder
  /\ IF w = "refresh" THEN worker' = [worker EXCEPT ![w] = Free] ELSE Ends(w, "failed")
  /\ UNCHANGED <<shell, pin, client, snapshot, refreshing, app, ui, drift, ops, asked>>

FetchFails(w) ==
  /\ w \notin Switches /\ worker[w].step \in {"build", "call"}
  /\ Fails
  /\ builder' = IF builder = w THEN None ELSE builder
  /\ IF w = "refresh" THEN refreshing' = FALSE /\ worker' = [worker EXCEPT ![w] = Free]
     ELSE UNCHANGED refreshing /\ Ends(w, "failed")
  /\ UNCHANGED <<shell, pin, client, snapshot, app, ui, drift, ops, asked>>

\* TriggerRefreshIfNeeded, by a docker event or by a view that polls, of a snapshot
\* that has outlived its TTL: it may at any time.
TriggerRefresh ==
  /\ ~refreshing
  /\ refreshing' = TRUE
  /\ Goes("refresh", "get")
  /\ UNCHANGED <<shell, pin, client, builder, snapshot, app, ui, drift,
                 ops, fails, asked>>

-----------------------------------------------------------------------------
(***************************************************************************)
(* ValidateContext                                                         *)
(***************************************************************************)

ReadCurrent(w) ==
  /\ w \in Switches /\ worker[w].step = "begin"
  /\ worker' = [worker EXCEPT ![w].step = "use", ![w].from = pin]
  /\ UNCHANGED <<shell, pin, swarms, app, ui, drift, ops, fails, asked>>

\* docker context use, there and, after a probe that failed, back.
UseContext(w) ==
  /\ w \in Switches
  /\ \/ /\ worker[w].step = "use"
        /\ shell' = worker[w].to /\ Goes(w, "set") /\ Moved /\ UNCHANGED fails
     \/ /\ worker[w].step = "use" /\ Fails
        /\ Ends(w, "failed") /\ UNCHANGED <<shell, asked>>
     \/ /\ worker[w].step = "use back"
        /\ shell' = worker[w].from /\ Goes(w, "set back") /\ Moved /\ UNCHANGED fails
  /\ UNCHANGED <<pin, swarms, app, ui, drift, ops>>

SetContext(w) ==
  /\ w \in Switches
  /\ \/ worker[w].step = "set"      /\ pin' = worker[w].to   /\ Goes(w, "reset")
     \/ worker[w].step = "set back" /\ pin' = worker[w].from /\ Goes(w, "reset back")
  /\ Moved
  /\ UNCHANGED <<shell, swarms, app, ui, drift, ops, fails>>

\* The pin moved and the client built for the context before kept.
DropClientForgotten(w) ==
  /\ w \in Switches
  /\ \/ worker[w].step = "reset"      /\ Goes(w, "get")
     \/ worker[w].step = "reset back" /\ Ends(w, "failed")
  /\ UNCHANGED <<client, builder>>
  /\ UNCHANGED <<shell, pin, snapshot, refreshing, app, ui, drift,
                 ops, fails, asked>>

DropClient(w) ==
  /\ w \in Switches
  /\ \/ worker[w].step = "reset"      /\ Goes(w, "get")
     \/ worker[w].step = "reset back" /\ Ends(w, "failed")
  /\ ResetClient
  /\ UNCHANGED <<shell, pin, snapshot, refreshing, app, ui, drift,
                 ops, fails, asked>>

Probed(w) ==
  /\ w \in Switches /\ worker[w].step = "call"
  /\ Ends(w, "ok")
  /\ UNCHANGED <<shell, pin, swarms, app, ui, drift, ops, fails, asked>>

ProbeFails(w) ==
  /\ w \in Switches /\ worker[w].step \in {"build", "call"}
  /\ Fails
  /\ builder' = IF builder = w THEN None ELSE builder
  /\ worker' = [worker EXCEPT ![w].step = "use back", ![w].ctx = None]
  /\ UNCHANGED <<shell, pin, client, snapshot, refreshing, app, ui, drift, ops, asked>>

-----------------------------------------------------------------------------
(***************************************************************************)
(* The contexts view                                                       *)
(***************************************************************************)

\* The view goes, and what it listed with it.
CloseContexts == inContexts' = FALSE /\ listed' = None /\ pendingSwitch' = FALSE

\* A new view: it has no list yet.  MaxOps bounds this too: a view in which no switch can
\* begin, and of which none is to be heard, only lists.
OpenContexts ==
  /\ ~inContexts
  /\ ops < MaxOps \/ \E w \in Switches : worker[w] # Free
  /\ inContexts' = TRUE
  /\ UNCHANGED <<shell, pin, swarms, worker, app, listed, listing, pendingSwitch, drift,
                 ops, fails, asked>>

\* The operator goes back: a switch under way goes on, its message is dropped.
LeaveContexts ==
  /\ inContexts
  /\ CloseContexts
  /\ UNCHANGED <<shell, pin, swarms, worker, app, listing, drift, ops, fails, asked>>

\* ListContexts marks the pinned context.  The list is loaded on entry and every
\* five seconds from then on, whether or not a switch is pending.
ListContexts ==
  /\ inContexts /\ listing = None
  /\ listing' = pin
  /\ UNCHANGED <<shell, pin, swarms, worker, app, inContexts, listed, pendingSwitch,
                 drift, ops, fails, asked>>

ContextsLoaded ==
  /\ handler = "idle" /\ listing # None
  /\ listed' = IF inContexts THEN listing ELSE listed
  /\ listing' = None
  /\ UNCHANGED <<shell, pin, swarms, worker, app, inContexts, pendingSwitch,
                 drift, ops, fails, asked>>

SelectContext(w, to) ==
  /\ handler = "idle" /\ inContexts /\ ~pendingSwitch
  /\ listed # None /\ to # listed
  /\ ops < MaxOps /\ ops' = ops + 1
  /\ w \in Switches /\ worker[w] = Free
  /\ pendingSwitch' = TRUE
  /\ worker' = [worker EXCEPT ![w] = [Free EXCEPT !.step = "begin", !.to = to]]
  /\ UNCHANGED <<shell, pin, swarms, app, inContexts, listed, listing, drift,
                 fails, asked>>

\* ContextSwitchedMsg: a switch that succeeded is announced with the context the
\* list marks current.
ContextSwitched(w) ==
  /\ handler = "idle" /\ notice = <<>>
  /\ w \in Switches /\ worker[w].step \in {"ok", "failed"}
  /\ worker' = [worker EXCEPT ![w] = Free]
  /\ IF inContexts
     THEN /\ pendingSwitch' = FALSE
          /\ IF worker[w].step = "ok"
             THEN notice' = <<listed>> ELSE UNCHANGED notice
     ELSE UNCHANGED <<pendingSwitch, notice>>
  /\ UNCHANGED <<shell, pin, swarms, revertTo, handler, inContexts, listed, listing, drift,
                 ops, fails, asked>>

-----------------------------------------------------------------------------
(***************************************************************************)
(* The update loop                                                         *)
(***************************************************************************)

\* enterContext remembers where to revert to, and goes on to drop what belongs
\* to the context being left.  Loads bounds the loads it begins.
EnterContext(from, writesConfig) ==
  /\ \E w \in Loads : worker[w] = Free
  /\ revertTo' = IF from = None THEN NoRevert ELSE [ctx |-> from, writes |-> writesConfig]
  /\ handler' = "enter"

ContextChanged ==
  /\ handler = "idle" /\ notice # <<>>
  /\ EnterContext(notice[1], TRUE)
  /\ notice' = <<>>
  /\ UNCHANGED <<shell, pin, swarms, worker, ui, drift, ops, fails, asked>>

\* The rest of enterContext: the client and the snapshot are dropped and a load
\* of the new one begins.
Entered ==
  /\ handler = "enter"
  /\ handler' = "idle"
  /\ ResetClient
  /\ snapshot' = None
  /\ CloseContexts
  /\ \E w \in Loads :
       /\ worker[w] = Free
       /\ Goes(w, "get")
  /\ UNCHANGED <<shell, pin, refreshing, revertTo, notice, listing, drift, ops, fails, asked>>

SnapshotLoaded(w) ==
  /\ handler = "idle"
  /\ w \in Loads /\ worker[w].step = "ok"
  /\ worker' = [worker EXCEPT ![w] = Free]
  /\ revertTo' = NoRevert
  /\ CloseContexts
  /\ UNCHANGED <<shell, pin, swarms, handler, notice, listing, drift, ops, fails, asked>>

\* A load that failed: back to the context before, in the config file too if the
\* switch wrote it; else what would not load is not offered again.
SnapshotFailed(w) ==
  /\ handler = "idle"
  /\ w \in Loads /\ worker[w].step = "failed"
  /\ worker' = [worker EXCEPT ![w] = Free]
  /\ IF revertTo = NoRevert THEN UNCHANGED <<shell, declined, asked, handler>>
     ELSE /\ handler' = "revert"
          /\ IF revertTo.writes THEN shell' = revertTo.ctx /\ Moved /\ UNCHANGED declined
             ELSE declined' = pin /\ UNCHANGED <<shell, asked>>
  /\ UNCHANGED <<pin, swarms, revertTo, notice, ui, check, prompt, ops, fails>>

RevertPin ==
  /\ handler = "revert"
  /\ handler' = "reverted"
  /\ pin' = revertTo.ctx
  /\ Moved
  /\ UNCHANGED <<shell, swarms, worker, revertTo, notice, ui, drift, ops, fails>>

Reverted ==
  /\ handler = "reverted"
  /\ handler' = "idle"
  /\ ResetClient
  /\ revertTo' = NoRevert
  /\ UNCHANGED <<shell, pin, snapshot, refreshing, worker, notice, ui,
                 drift, ops, fails, asked>>

-----------------------------------------------------------------------------
(***************************************************************************)
(* The drift prompt                                                        *)
(***************************************************************************)

\* docker context use in another terminal.
ShellMoves ==
  /\ ops < MaxOps /\ ops' = ops + 1
  /\ \E ctx \in Contexts \ {shell} : shell' = ctx
  /\ Moved
  /\ UNCHANGED <<pin, swarms, worker, app, ui, drift, fails>>

\* checkContextDriftCmd, started by each tick and over long before the next: the
\* config file agrees with the pin, or names another context, or cannot be read.
CheckContextDrift ==
  /\ check = "none"
  /\ \/ check' = (IF shell = pin THEN "agrees" ELSE shell) /\ UNCHANGED fails
     \/ check' = "inconclusive" /\ Fails
  /\ UNCHANGED <<shell, pin, swarms, worker, app, ui, prompt, declined, ops, asked>>

\* handleContextDrift as it was: a check that learned nothing reads as agreement.
HandleDriftForgetting ==
  /\ handler = "idle" /\ check # "none"
  /\ check' = "none"
  /\ CASE check \in {"agrees", "inconclusive"} -> declined' = None /\ UNCHANGED <<prompt, asked>>
       [] check \in Contexts ->
            /\ UNCHANGED declined
            /\ IF check = declined \/ prompt # None THEN UNCHANGED <<prompt, asked>>
               ELSE /\ prompt' = check
                    /\ asked' = IF shell = check THEN check ELSE None
  /\ UNCHANGED <<shell, pin, swarms, worker, app, ui, ops, fails>>

HandleDrift ==
  /\ handler = "idle" /\ check # "none"
  /\ check' = "none"
  /\ CASE check = "inconclusive" -> UNCHANGED <<declined, prompt, asked>>
       [] check = "agrees" -> declined' = None /\ UNCHANGED <<prompt, asked>>
       [] check \in Contexts ->
            /\ UNCHANGED declined
            /\ IF check = declined \/ prompt # None THEN UNCHANGED <<prompt, asked>>
               ELSE /\ prompt' = check
                    /\ asked' = IF shell = check THEN check ELSE None
  /\ UNCHANGED <<shell, pin, swarms, worker, app, ui, ops, fails>>

Decline ==
  /\ handler = "idle" /\ prompt # None
  /\ declined' = prompt
  /\ prompt' = None
  /\ UNCHANGED <<shell, pin, swarms, worker, app, ui, check, ops, fails, asked>>

\* The pin moves to the context offered; the config file names it already.
Accept ==
  /\ handler = "idle" /\ prompt # None
  /\ pin' = prompt
  /\ prompt' = None /\ declined' = None
  /\ EnterContext(pin, FALSE)
  /\ Moved
  /\ UNCHANGED <<shell, swarms, worker, notice, ui, check, ops, fails>>

-----------------------------------------------------------------------------
Work(w) ==
  \/ GetClient(w) \/ ClientBuilt(w) \/ Fetched(w) \/ FetchFails(w)
  \/ ReadCurrent(w) \/ UseContext(w) \/ SetContext(w) \/ DropClient(w)
  \/ Probed(w) \/ ProbeFails(w)

Handle(w) == ContextSwitched(w) \/ SnapshotLoaded(w) \/ SnapshotFailed(w)

Handler == ContextChanged \/ Entered \/ RevertPin \/ Reverted

Operator ==
  \/ OpenContexts \/ LeaveContexts \/ \E w \in Switches, to \in Contexts : SelectContext(w, to)
  \/ ShellMoves \/ Decline \/ Accept

Next ==
  \/ \E w \in Workers : Work(w) \/ Handle(w)
  \/ Handler \/ Operator
  \/ TriggerRefresh
  \/ ListContexts \/ ContextsLoaded
  \/ CheckContextDrift \/ HandleDrift

\* Commands run and are heard, the update loop goes on, and views poll.  Each of these steps
\* changes what it is fair about.
Fairness ==
  /\ \A w \in Loads \cup Switches : WF_worker(Work(w) \/ Handle(w))
  /\ WF_worker(TriggerRefresh \/ Work("refresh"))
  /\ WF_app(Handler)

Spec == Init /\ [][Next]_vars /\ Fairness

-----------------------------------------------------------------------------
(***************************************************************************)
(* Properties                                                              *)
(***************************************************************************)

Steps == {"free", "get", "build", "call", "ok", "failed", "begin", "use", "set", "reset",
          "use back", "set back", "reset back"}

TypeOK ==
  /\ shell \in Contexts /\ pin \in Contexts
  /\ client \in Contexts \cup {None} /\ snapshot \in Contexts \cup {None}
  /\ builder \in Workers \cup {None}
  /\ \A w \in Workers : builder = w <=> worker[w].step = "build"
  /\ refreshing \in BOOLEAN
  /\ worker \in [Workers -> [step : Steps, ctx : Contexts \cup {None},
                             from : Contexts \cup {None}, to : Contexts \cup {None}]]
  /\ revertTo \in {NoRevert} \cup [ctx : Contexts, writes : BOOLEAN]
  /\ handler \in {"idle", "enter", "revert", "reverted"}
  /\ Len(notice) \in 0..1
  /\ check \in Contexts \cup {"none", "agrees", "inconclusive"}
  /\ inContexts \in BOOLEAN /\ pendingSwitch \in BOOLEAN
  /\ listed \in Contexts \cup {None} /\ listing \in Contexts \cup {None}
  /\ prompt \in Contexts \cup {None} /\ declined \in Contexts \cup {None}
  /\ ops \in 0..MaxOps /\ fails \in 0..MaxFails

\* Somebody who has moved the pin is about to drop the client.
ResetToCome ==
  \/ \E w \in Switches : worker[w].step \in {"reset", "reset back"}
  \/ handler \in {"enter", "reverted"}

\* "Two pieces of state, both stale until moved" (ValidateContext): the cached
\* client is the pinned context's, or whoever moved the pin will yet drop it,
\* whichever commands build a client meanwhile.
ClientIsThePins == client \in {None, pin} \/ ResetToCome

\* "So an operator who keeps two terminals on two swarms is asked once per
\* target rather than every five seconds": a context is not offered again as
\* long as neither the shell nor the session has moved since.
AskedOnce == [][prompt = None /\ prompt' # None => prompt' # asked]_vars

\* Whatever fetches were under way when the session moved, and whatever they
\* stored after it had, the cache ends up with the pinned context's snapshot.
SnapshotCatchesUp == <>[](snapshot = pin)

\* "Reverted to previous context", says the dialog of a snapshot that did not
\* load: the session has left the context that failed.
RevertGoesBack == [][handler = "revert" /\ handler' = "reverted" => pin' # pin]_vars
================================================================================
