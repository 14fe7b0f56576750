------------------------------ MODULE ListView ------------------------------
(***************************************************************************)
(* What the list views have in common: a list with a cursor over what the  *)
(* swarm holds, polled on a tick; dialogs that ask before something is     *)
(* done; commands that run beside the update loop and come back as         *)
(* messages in any order, to whichever view is on the screen by then.      *)
(*                                                                         *)
(* A behaviour follows one view, the others being what covers it, and two  *)
(* commands or messages that are alike count as one.                       *)
(***************************************************************************)
EXTENDS Integers, FiniteSets, SequencesExt

CONSTANTS
  Views,      \* the views followed, one in each behaviour
  Names,      \* of what is listed: numbers, as the alphabet orders them
  MaxEvents,  \* bound: keys pressed, changes by others and commands that fail, together
  MaxCalls    \* bound: commands and messages under way together

ASSUME ListViewAssumption ==
  /\ Names \subseteq Nat \ {0} /\ IsFiniteSet(Names)
  /\ MaxEvents \in Nat /\ MaxCalls \in Nat

VARIABLES
  view,      \* the view followed
  world,     \* what the list would show of each name, 0 when it is not there
  snapshot,  \* the cached snapshot
  place,     \* "on" the screen, "under" a view opened over it, "gone", or "crashed"
  visible,   \* Visible
  entries,   \* List.Filtered
  cursor,    \* List.Cursor, from 1
  ascending, \* sortAscending
  items,     \* List.Items, which is sorted only while nothing is filtered
  query,     \* the names List.Query matches
  seen,      \* lastSnapshot: what was loaded and hashed
  gen,       \* pollGen
  ticks,     \* of each generation, those on their way
  dialog,    \* the dialog shown last, with the action and the name it tells of, and whether it is up
  pending,   \* pendingAction
  form,      \* what else the view has open, and its flags
  running,   \* commands under way
  mail,      \* messages on their way
  events

screen  == <<view, place, visible>>
cluster == <<world, snapshot>>
list    == <<entries, cursor, ascending, items, query, seen>>
poll    == <<gen, ticks>>
asking  == <<dialog, pending, form>>
out     == <<running, mail>>
bounds  == <<events>>
vars    == <<screen, cluster, list, poll, asking, out, bounds>>

Nobody   == 0
Unhashed == <<>>
Gens     == 1..(MaxEvents + 1)

Holds(w) == {n \in Names : w[n] # 0}

-----------------------------------------------------------------------------
(***************************************************************************)
(* The list                                                                *)
(***************************************************************************)

\* The positions I in the order of what is at each.
Arranged(I, key, up) ==
  CHOOSE p \in [1..Cardinality(I) -> I] :
    /\ IsInjective(p)
    /\ \A i, j \in DOMAIN p : i < j => IF up THEN key[p[i]] <= key[p[j]] ELSE key[p[i]] >= key[p[j]]

Sorted(S, up) == Arranged(S, [n \in S |-> n], up)

InOrder(seq, up) ==
  LET p == Arranged(DOMAIN seq, seq, up) IN [i \in DOMAIN seq |-> seq[p[i]]]

At(c, seq) == IF c \in DOMAIN seq THEN seq[c] ELSE Nobody

Selected == At(cursor, entries)

\* ApplyFilter
Filtered(q, all) ==
  LET kept == Sorted({i \in DOMAIN all : all[i] \in q}, TRUE) IN [i \in DOMAIN kept |-> all[kept[i]]]

\* addConfig, addSecret: at the end, also of a list that has it already.
Adds(n) ==
  /\ items' = Append(items, n)
  /\ entries' = Filtered(query, items')

\* Where the name that was selected is now, else the first row.
RowOf(n, seq) == IF n \in Range(seq) THEN SelectInSeq(seq, LAMBDA e : e = n) ELSE 1

\* ApplyFilter keeps the cursor in bounds.
InBounds(c, seq) == IF c < 1 \/ seq = <<>> THEN 1 ELSE IF c <= Len(seq) THEN c ELSE Len(seq)

\* What is loaded, here listed by the daemon the other way round than by name, is
\* filtered, and what is shown of it is sorted.
Shows(w) ==
  /\ entries' = Sorted(Holds(w) \cap query, ascending)
  /\ items' = IF query = Names THEN entries' ELSE Sorted(Holds(w), FALSE)
  /\ seen' = w
  /\ UNCHANGED <<ascending, query>>

\* A mutant: the cursor is left below a list that has become shorter.
KeepsRowUnclamped == UNCHANGED cursor

\* The cursor keeps its row, whatever is listed there now.
KeepsRow == cursor' = InBounds(cursor, entries')

\* The cursor keeps its row before the sorting, which then keeps what is there.
KeepsLoadedRow(w) ==
  LET loaded == Sorted(Holds(w) \cap query, FALSE)
  IN cursor' = RowOf(At(InBounds(cursor, loaded), loaded), entries')

\* HandleKey, and ClickRow with SelectLine.
MoveCursor ==
  /\ \E i \in DOMAIN entries : i # cursor /\ cursor' = i
  /\ UNCHANGED <<entries, ascending, items, query, seen>>

\* A page down that forgets that the list may be empty.
PageDown ==
  /\ entries = <<>> /\ cursor' = 0
  /\ UNCHANGED <<entries, ascending, items, query, seen>>

\* A sort key a second time turns the order round; the selection stays.
ToggleSort ==
  /\ ascending' = ~ascending
  /\ entries' = InOrder(entries, ascending')
  /\ items' = IF query = Names THEN entries' ELSE items
  /\ cursor' = IF entries = <<>> THEN cursor ELSE RowOf(Selected, entries')
  /\ UNCHANGED <<query, seen>>

Listed == Range(items)

\* ApplySearchQuery and ClearSearchQuery, which some views have sort what they show.
Search(sorts) ==
  /\ IF query = Names THEN \E n \in Names : query' = {n} ELSE query' = Names
  /\ LET found == Filtered(query', items)
         row   == IF query' = Names THEN 1 ELSE InBounds(cursor, found)
     IN /\ entries' = IF sorts THEN InOrder(found, ascending) ELSE found
        /\ cursor' = RowOf(At(row, found), entries')
        /\ items' = IF query' = Names THEN entries' ELSE items
  /\ UNCHANGED <<ascending, seen>>

Moves == MoveCursor \/ ToggleSort \/ Search(FALSE)

-----------------------------------------------------------------------------
(***************************************************************************)
(* Keys and dialogs                                                        *)
(***************************************************************************)

Happens == events < MaxEvents /\ events' = events + 1

Press == place = "on" /\ visible /\ Happens

Quiet == [mode |-> "none", act |-> "none", on |-> Nobody, up |-> FALSE]
Asks(act, n)  == [mode |-> "confirm", act |-> act, on |-> n, up |-> TRUE]
Tells(act, n) == [mode |-> "error", act |-> act, on |-> n, up |-> TRUE]
Notes(act, n) == [mode |-> "info", act |-> act, on |-> n, up |-> TRUE]
Hidden == [dialog EXCEPT !.up = FALSE]

\* InfoMode is cleared when the answer is heard: what is put up before is a notice too.
OverNotice(d) == [d EXCEPT !.mode = IF dialog.mode = "info" THEN "info" ELSE @]

\* The panels that are open, the flags that are up, whom a panel is about, the
\* step it is at, and the rows that are expanded.
Closed == [open |-> {}, busy |-> {}, on |-> Nobody, step |-> "none", for |-> "none", rows |-> {}]

With(f) == form' = f
Opened(p) == [form EXCEPT !.open = @ \cup {p}]
Shut(p)   == [form EXCEPT !.open = @ \ {p}]
Busy(f)   == [form EXCEPT !.busy = @ \cup {f}]
Idle(f)   == [form EXCEPT !.busy = @ \ {f}]
Opens(p)  == With(Opened(p)) /\ UNCHANGED <<dialog, pending>>
Shuts(p)  == With(Shut(p)) /\ UNCHANGED <<dialog, pending>>

IsOpen(p) == p \in form.open \/ (p = "dialog" /\ dialog.up)

\* The first of what is open, in a view's order, takes the keys.
KeysGoTo(order) ==
  LET front == SelectInSeq(order, IsOpen) IN IF front = 0 THEN "list" ELSE order[front]

-----------------------------------------------------------------------------
(***************************************************************************)
(* Commands and messages                                                   *)
(***************************************************************************)

Cmd(what, n) == [what |-> what, on |-> n, saw |-> Unhashed]
Saw(what, w) == [what |-> what, on |-> Nobody, saw |-> w]

Load  == Cmd("load", Nobody)
Check == Saw("check", seen) \* with the hash of the moment it was asked for

Room(k) == Cardinality(running) + Cardinality(mail) + k <= MaxCalls

Begin(c) == Room(1) /\ running' = running \cup {c} /\ UNCHANGED mail

Hears(m, what) == place = "on" /\ m \in mail /\ m.what \in what
Heard(m) == mail' = mail \ {m} /\ UNCHANGED running
\* A mutant: what was handled is left to be handled again.
HeardTwice(m, c) == UNCHANGED mail /\ running' = running \cup {c}

HeardAndBegun(m, c) == mail' = mail \ {m} /\ running' = running \cup {c}

Runs(c, what) == c \in running /\ c.what \in what

\* A command ends as the messages ms.
Answers(c, ms) == running' = running \ {c} /\ mail' = mail \cup ms

\* A key at the dialog: it hides itself, and the answer comes as a message, however many
\* keys and messages come before it.  Only a question takes a yes.  The dialogs that were
\* asked for bound these keys.
AnswerKey(order) ==
  /\ place = "on" /\ visible /\ KeysGoTo(order) = "dialog" /\ Room(1)
  /\ dialog' = Hidden
  /\ \E yes \in {"no"} \cup (IF dialog.mode = "confirm" THEN {"yes"} ELSE {}) :
       mail' = mail \cup {Cmd(yes, Nobody)}
  /\ UNCHANGED <<screen, cluster, list, poll, pending, form, running, bounds>>

\* ResultMsg
HearsAnswer(m) == Hears(m, {"yes", "no"})

\* What a command does to the name it is about; that the snapshot could not be
\* read again afterwards is only logged.
Does(c, S) ==
  /\ \E is \in S : world' = [world EXCEPT ![c.on] = is]
  /\ snapshot' \in {world', snapshot}
  /\ UNCHANGED bounds

\* A load answers with what it reads, a check only with what differs.
Reads(c, w, as) ==
  /\ Runs(c, {"load", "check"})
  /\ Answers(c, IF c.what = "load" \/ w # c.saw THEN {Saw(as, w)} ELSE {})
  /\ UNCHANGED bounds

\* One that calls the daemon may fail, and both say so.
ReadFails(c, as) ==
  /\ Runs(c, {"load", "check"})
  /\ Answers(c, {Cmd(as, Nobody)})
  /\ Happens

\* Another view does not know the message, and an answer is taken for that to a dialog of
\* the app's own if one is up.
Dropped(m) ==
  /\ m \in mail /\ (place \in {"under", "gone"} \/ HearsAnswer(m))
  /\ Heard(m)
  /\ UNCHANGED <<screen, cluster, list, poll, asking, bounds>>

-----------------------------------------------------------------------------
(***************************************************************************)
(* The swarm and the cached snapshot                                       *)
(***************************************************************************)

Change ==
  /\ Happens
  /\ \E n \in Names, is \in 0..2 :
       /\ is # world[n] /\ world' = [world EXCEPT ![n] = is]
       /\ view = "contexts" => 2 \notin {is, world[n]} \* the current context is this program's
  /\ UNCHANGED <<screen, snapshot, list, poll, asking, out>>

\* TriggerRefreshIfNeeded, at every poll.
Refresh ==
  /\ snapshot # world /\ snapshot' = world
  /\ UNCHANGED <<screen, world, list, poll, asking, out, bounds>>

-----------------------------------------------------------------------------
(***************************************************************************)
(* Coming, going and polling                                               *)
(***************************************************************************)

\* Another view opens over this one, or takes its place for good: the operator's
\* doing, or a NavigateToMsg that comes while something is open.
Leave(stays) ==
  /\ place = "on" /\ Happens
  /\ place' \in {"under", "gone"}
  /\ visible' = (visible /\ stays)
  /\ UNCHANGED <<view, cluster, list, poll, asking, out>>

Armed(g) == [ticks EXCEPT ![g] = @ + 1]

\* OnEnter of a view returned to: each entry gets a generation of its own.
ReEnter ==
  /\ place = "under" /\ place' = "on" /\ visible' = TRUE
  /\ gen' = gen + 1 /\ ticks' = Armed(gen + 1)
  /\ UNCHANGED <<view, cluster, bounds>>

\* A factory makes a new view, which counts its generations from the start.
Enter ==
  /\ place = "gone" /\ place' = "on" /\ visible' = TRUE
  /\ gen' = 1 /\ ticks' = Armed(1)
  /\ dialog' = Quiet /\ pending' = "none"
  /\ ascending' = TRUE /\ query' = Names
  /\ UNCHANGED <<view, cluster, bounds>>

\* A new view that loads what it lists.
EnterEmpty ==
  /\ Enter
  /\ entries' = <<>> /\ items' = <<>> /\ cursor' = 1 /\ seen' = Unhashed
  /\ Begin(Load)

\* A mutant: a beat that finds no room for its checks arms no successor.
TickOnce(g, checks) ==
  /\ ticks[g] > 0
  /\ IF place = "on" /\ g = gen /\ checks # {} /\ checks \cap running = {} /\ Room(1)
     THEN running' = running \cup checks /\ UNCHANGED <<mail, ticks>>
     ELSE ticks' = [ticks EXCEPT ![g] = @ - 1] /\ UNCHANGED out
  /\ UNCHANGED <<screen, cluster, list, gen, asking, bounds>>

\* TickMsg: a leftover of an earlier entry, or of a view no longer shown, ends; one
\* of this entry begins the checks, if any, and arms the next.  A check waits for room.
Tick(g, checks) ==
  /\ ticks[g] > 0 /\ place # "crashed"
  /\ IF place = "on" /\ g = gen
     THEN /\ checks # {} /\ Room(1) /\ checks \cap running = {}
          /\ running' = running \cup checks /\ UNCHANGED <<mail, ticks>>
     ELSE ticks' = [ticks EXCEPT ![g] = @ - 1] /\ UNCHANGED out
  /\ UNCHANGED <<screen, cluster, list, gen, asking, bounds>>

=============================================================================
