------------------------------ MODULE LogScreen ------------------------------
(***************************************************************************)
(* The screen of the log view: lines that arrive, what the reader's keys   *)
(* hide, wrap, mark and search of them, and the rows that the viewport     *)
(* draws. A key's effect on the rows comes with a message of its own, so   *)
(* lines can arrive between the two. How the stream is read is LogStream's *)
(* part; texts, colours and the horizontal scroll are left out.            *)
(***************************************************************************)
EXTENDS Integers, Sequences, FiniteSets, SequencesExt

CONSTANTS
  MaxLines,     \* lines the view keeps (10000 in the program)
  Heights,      \* rows the viewport may have
  MaxArrivals,  \* bound on lines and notices
  MaxKeys       \* bound on keys and resizes

VARIABLES
  buffer,    \* lines: each a kind, and its number as they came
  drawn,     \* the rows the viewport holds: each a line's number, and which of its rows
  offset, height, ready,  \* of the viewport
  matches,   \* row positions of the search's matches, from 0
  match,     \* the one selected, from 0
  reading,   \* what the reader has set
  told,      \* the view's own messages on their way
  stopped,   \* the snapshot shows the other node's task as stopped
  arrivals, keys

viewport == <<drawn, offset, height, ready>>
vars == <<buffer, viewport, matches, match, reading, told, stopped, arrivals, keys>>

\* A line too long for a row, one with the word that is searched and filtered for, and one
\* from a task on another node; what the view says of the stream; the reader's mark.
Logged == {"long", "word", "other"}
Kinds == Logged \cup {"notice", "mark"}

Greater(a, b) == IF a > b THEN a ELSE b
Lesser(a, b) == IF a < b THEN a ELSE b

-----------------------------------------------------------------------------
(***************************************************************************)
(* From the buffer to the rows                                             *)
(***************************************************************************)
\* matchesFilter: a query hides what lacks the word, or with a "!" what has it.
matchesFilter(kind, filter) == filter = "none" \/ (kind = "word") = (filter = "word")

lineVisible(line, r) ==
  line.kind \in Logged =>
    /\ r.node # "any" => line.kind # "other"
    /\ matchesFilter(line.kind, r.filter)
    /\ ~(r.hideStopped /\ stopped /\ line.kind = "other")

Visible(lines, r) == {line \in Range(lines) : lineVisible(line, r)}

RowsOf(line, wrapped) ==
  {[of |-> line.id, row |-> i] : i \in 1..(IF line.kind = "mark" \/ (line.kind = "long" /\ wrapped) THEN 2 ELSE 1)}

\* A finite set as a sequence, its members by their keys, of which no two are the same.
ByKey(S, key) == [k \in 1..Cardinality(S) |-> CHOOSE x \in S : Cardinality({y \in S : key[y] < key[x]}) = k - 1]

\* renderRows, wrapRows: the lines as they came. Matches are positions among the rows before
\* they are wrapped.
Rows(lines, wrapped) ==
  LET rows == UNION {RowsOf(line, wrapped) : line \in lines}
  IN ByKey(rows, [x \in rows |-> 2 * x.of + x.row])
Content(lines, r) == Rows(Visible(lines, r), r.wrap /\ ~r.dialog)

Words(lines) == {line.id : line \in {l \in Range(lines) : l.kind = "word"}}
Found(rows, words) ==
  LET found == {p \in 0..(Len(rows) - 1) : rows[p + 1].of \in words} IN ByKey(found, [p \in found |-> p])
Matches(lines, r) == IF r.term THEN Found(Rows(Visible(lines, r), FALSE), Words(lines)) ELSE <<>>

-----------------------------------------------------------------------------
(***************************************************************************)
(* The viewport                                                            *)
(***************************************************************************)
LastPage(content, rows) == Greater(0, Len(content) - rows)
Bottom(content) == LastPage(content, height')

\* viewport.SetContent: only an offset past the last row is moved.
Kept(content, at) == IF at > Len(content) - 1 THEN Bottom(content) ELSE at

\* buildContent, which is also what collects the matches.
Build == drawn' = Content(buffer', reading') /\ matches' = Matches(buffer', reading')

Draws(at) == IF ready' THEN Build /\ offset' = at ELSE UNCHANGED <<drawn, offset, matches>>

\* SetContent, then the bottom when following.
Reanchored == IF reading'.follow THEN Bottom(drawn') ELSE Kept(drawn', offset)

\* syncViewport without taking off what was dropped.
SyncViewportStill(dropped) ==
  IF ready THEN Build /\ offset' = IF reading'.follow THEN Bottom(drawn') ELSE Lesser(offset, Bottom(drawn'))
  ELSE UNCHANGED <<drawn, offset, matches>>

\* syncViewport: off the offset go the lines that were dropped, hidden or wrapped ones too.
SyncViewport(dropped) ==
  IF ready THEN Build /\ offset' = IF reading'.follow THEN Bottom(drawn')
                                   ELSE Lesser(Greater(0, offset - dropped), Bottom(drawn'))
  ELSE UNCHANGED <<drawn, offset, matches>>

\* highlightContent: rebuilds also before the view is ready.
Highlight(at) ==
  /\ matches' = Matches(buffer', reading')
  /\ IF ready THEN drawn' = Content(buffer', reading') /\ offset' = at ELSE UNCHANGED <<drawn, offset>>

-----------------------------------------------------------------------------
(***************************************************************************)
(* What arrives                                                            *)
(***************************************************************************)
Dropped == IF Len(buffer) = MaxLines THEN 1 ELSE 0

\* appendLine, trimToMaxLines
Append1(kind) ==
  buffer' = SubSeq(Append(buffer, [kind |-> kind, id |-> Last(buffer).id + 1]), 1 + Dropped, Len(buffer) + 1)

\* LineMsg, StreamErrMsg and StreamDoneMsg, each of which is fresh and has its fading armed.
Arrives(kind) ==
  /\ arrivals < MaxArrivals /\ arrivals' = arrivals + 1
  /\ UNCHANGED <<keys, reading, height, ready, match, stopped>>
  /\ Append1(kind) /\ SyncViewport(Dropped)
  /\ told' = told \cup {"fade"}

Receives(message) ==
  message \in told /\ told' = told \ {message} /\ UNCHANGED <<buffer, reading, height, ready, stopped, arrivals, keys>>

\* WrapToggledMsg, which a horizontal scroll sends as well.
WrapToggled ==
  /\ Receives("wrap")
  /\ Draws(IF reading.follow THEN Bottom(drawn') ELSE Lesser(offset, Bottom(drawn'))) /\ UNCHANGED match

NodeFilterToggled == Receives("node") /\ Draws(Reanchored) /\ UNCHANGED match

InRange == match' = IF match >= Len(matches') THEN 0 ELSE match

HideStoppedToggled == Receives("stopped") /\ (IF ready THEN Highlight(Reanchored) /\ InRange ELSE UNCHANGED <<drawn, offset, matches, match>>)

MarkInserted == Receives("mark") /\ SyncViewport(0) /\ UNCHANGED match

FadeTick == Receives("fade") /\ Draws(Kept(drawn', offset)) /\ UNCHANGED match

Resize ==
  /\ keys < MaxKeys /\ keys' = keys + 1 /\ height' \in Heights /\ ready' = TRUE
  /\ UNCHANGED <<buffer, reading, told, stopped, arrivals, match>>
  /\ Build
  /\ LET kept == Kept(drawn', offset) IN
       offset' = IF reading.follow \/ kept > Bottom(drawn') THEN Bottom(drawn') ELSE kept

\* The snapshot comes to know that the task has ended: nothing is drawn again for that.
TaskStops == ~stopped /\ stopped' = TRUE /\ UNCHANGED <<buffer, viewport, matches, match, reading, told, arrivals, keys>>

-----------------------------------------------------------------------------
(***************************************************************************)
(* Keys                                                                    *)
(***************************************************************************)
Press(mode) ==
  /\ reading.mode = mode /\ reading.dialog = FALSE /\ keys < MaxKeys /\ keys' = keys + 1
  /\ UNCHANGED <<height, ready, stopped, arrivals>>

\* Lines and pages, between the first row and the last page.
Scroll ==
  /\ Press("normal")
  /\ \E by \in {-height, -1, 1, height} : offset' = Greater(0, Lesser(offset + by, LastPage(drawn, height)))
  /\ UNCHANGED <<buffer, drawn, matches, match, reading, told>>

Set(r, messages) ==
  reading' = r /\ told' = told \cup messages /\ UNCHANGED <<buffer, drawn, offset, matches, match>>

ToggleFollow == Press("normal") /\ Set([reading EXCEPT !.follow = ~@], {})
ToggleWrap == Press("normal") /\ Set([reading EXCEPT !.wrap = ~@], {"wrap"})
ScrollSideways == Press("normal") /\ ~reading.wrap /\ Set(reading, {"wrap"})
ToggleStopped == Press("normal") /\ Set([reading EXCEPT !.hideStopped = ~@], {"stopped"})

\* The nodes are listed that have a task which should run: while the dialog is open nothing wraps.
OpenNodes == Press("normal") /\ Set([reading EXCEPT !.dialog = TRUE], {})
NodesKey ==
  /\ reading.dialog
  /\ \/ Set([reading EXCEPT !.dialog = FALSE], {})
     \/ \E node \in {"any", "here"} : Set([reading EXCEPT !.dialog = FALSE, !.node = node], {"node"})
  /\ UNCHANGED <<height, ready, stopped, arrivals, keys>>

\* The mark is in the buffer at once, and the oldest line out of it.
Mark ==
  /\ Press("normal")
  /\ Append1("mark") /\ told' = told \cup {"mark"}
  /\ UNCHANGED <<reading, drawn, offset, matches, match>>

\* ApplySearchQuery, ClearSearchQuery: the bar is the app's.
Filter ==
  /\ Press("normal")
  /\ \E query \in {"none", "word", "!word"} : reading' = [reading EXCEPT !.filter = query]
  /\ UNCHANGED <<buffer, told>>
  /\ Highlight(Reanchored) /\ InRange

OpenSearch ==
  /\ Press("normal")
  /\ reading' = [reading EXCEPT !.mode = "search", !.term = FALSE]
  /\ match' = 0
  /\ UNCHANGED <<buffer, told, drawn, offset, matches>>

\* Runes and backspace, down to no term at all.
TypeTerm ==
  /\ Press("search")
  /\ \E term \in BOOLEAN : reading' = [reading EXCEPT !.term = term]
  /\ UNCHANGED <<buffer, told>>
  /\ Highlight(Kept(drawn', offset)) /\ InRange

CancelSearch == Press("search") /\ Set([reading EXCEPT !.mode = "normal"], {})

\* scrollToMatch: the offset is set in what is drawn, which is then drawn again.
ScrollToMatch(position, content) ==
  Kept(drawn', Lesser(Greater(0, position - height \div 2), LastPage(content, height)))

SearchEnter ==
  /\ Press("search")
  /\ reading' = [reading EXCEPT !.mode = "normal"]
  /\ UNCHANGED <<buffer, told>>
  /\ LET found == matches' # <<>> IN
       Highlight(IF found THEN ScrollToMatch(Head(matches'), drawn') ELSE Kept(drawn', offset)) /\ match' = 0

NextMatch ==
  /\ Press("normal") /\ matches # <<>>
  /\ \E by \in {1, -1} : match' = (match + by + Len(matches)) % Len(matches)
  /\ UNCHANGED <<buffer, told, reading>>
  /\ IF ready THEN Build /\ offset' = ScrollToMatch(matches[match' + 1], drawn) ELSE UNCHANGED <<drawn, offset, matches>>

\* A stream that has filled the buffer, followed from the start on; or one line after another
\* of one kind, before the view knows its size.
Begun == [follow |-> TRUE, wrap |-> TRUE, node |-> "any", filter |-> "none", hideStopped |-> TRUE,
          dialog |-> FALSE, mode |-> "normal", term |-> FALSE]
Init ==
  /\ \E kinds \in [1..MaxLines -> Logged] : buffer = [i \in 1..MaxLines |-> [kind |-> kinds[i], id |-> i - MaxLines]]
  /\ height \in Heights /\ (\A h \in Heights : h <= height)
  /\ ready \in BOOLEAN /\ (ready \/ \A i \in DOMAIN buffer : buffer[i].kind = "word")
  /\ reading = Begun /\ told = {} /\ stopped = FALSE
  /\ drawn = IF ready THEN Content(buffer, Begun) ELSE <<>>
  /\ offset = LastPage(drawn, height)
  /\ matches = <<>> /\ match = 0 /\ arrivals = 0 /\ keys = 0

Next ==
  \/ \E kind \in Logged \cup {"notice"} : Arrives(kind)
  \/ WrapToggled \/ NodeFilterToggled \/ HideStoppedToggled \/ MarkInserted \/ FadeTick \/ Resize \/ TaskStops
  \/ Scroll \/ ToggleFollow \/ ToggleWrap \/ ScrollSideways \/ ToggleStopped \/ OpenNodes \/ NodesKey
  \/ Mark \/ Filter \/ OpenSearch \/ TypeTerm \/ CancelSearch \/ SearchEnter \/ NextMatch

Spec == Init /\ [][Next]_vars

-----------------------------------------------------------------------------
(***************************************************************************)
(* What must hold                                                          *)
(***************************************************************************)
\* Every piece of state keeps to its type, and the buffer to its size.
TypeOK ==
  /\ Len(buffer) <= MaxLines /\ \A i \in DOMAIN buffer : buffer[i].kind \in Kinds
  /\ offset \in Nat /\ height \in Heights /\ ready \in BOOLEAN /\ match \in Nat
  /\ told \subseteq {"wrap", "node", "stopped", "mark", "fade"} /\ arrivals \in 0..MaxArrivals /\ keys \in 0..MaxKeys

\* What is drawn is what the buffer and the settings have it be, and the window lies within it.
InStep == drawn = Content(buffer, reading) /\ offset <= LastPage(drawn, height)
OneRow == buffer # <<>> => \E i \in DOMAIN drawn : \A j \in DOMAIN drawn : drawn[j].of = Head(buffer).id => j = i
HeadDrawn == \E i \in DOMAIN drawn : drawn[i].of = Head(buffer).id

Arrived == arrivals' # arrivals
Rebuilt == Arrived \/ height' # height \/ \E message \in told \ {"fade"} : told' = told \ {message}

\* syncViewport "keeps the reader where they were": a line that arrives leaves whoever scrolled up
\* on the same row, also when the oldest line goes, provided that it was one row of the screen
\* and not the one at the top. "Pinned to the bottom while following": after every line, resize
\* and message of the view's own, in whatever order they come, the newest row is on the screen.
\* And the match that n, N and enter select is on the screen, when no line is long.
KeepsThePlace ==
  /\ [][ Arrived /\ ready /\ ~reading.follow /\ InStep /\ drawn # <<>>
            /\ (Dropped = 1 => HeadDrawn /\ OneRow /\ offset > 0)
          => drawn'[offset' + 1] = drawn[offset + 1] ]_vars
  /\ [][ Rebuilt /\ ready' /\ reading'.follow => offset' + height' >= Len(drawn') ]_vars
  /\ [][ (NextMatch \/ SearchEnter) /\ ready /\ InStep /\ matches' # <<>> /\ (\A i \in DOMAIN buffer : buffer[i].kind # "long")
          => matches'[match' + 1] \in offset'..(offset' + height - 1) ]_vars
=============================================================================
