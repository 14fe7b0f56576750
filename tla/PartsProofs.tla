----------------------------- MODULE PartsProofs -----------------------------
(***************************************************************************)
(* What holds of the parts that share nothing, for any number of programs, *)
(* identities, contexts, keys, urls, commands, users and services.         *)
(***************************************************************************)
EXTENDS MCParts, FiniteSetTheorems, SequenceTheorems, WellFoundedInduction, TLAPS

-----------------------------------------------------------------------------
(***************************************************************************)
(* The check-in                                                            *)
(***************************************************************************)
NoId == Telemetry!Absent
OnDisk(p) == program[p].step \in {"write", "written"}
Reporting(p) == program[p].env = "full" /\ program[p].step \notin {"closed", "idle"}

\* What install.json holds it has held, and an identity is made only where the disclosure was shown.
StoredKnown ==
  /\ file # NoId => file \in stored
  /\ stored # {} => told
  /\ sent \subseteq stored \cup {NoId}

\* A program that reports usage where an identity can be had has shown the disclosure, or was
\* launched after one that had; only such a program writes one.
ProgramsKnown ==
  \A p \in Programs :
    /\ Reporting(p) /\ home # "none" => told
    /\ OnDisk(p) => program[p].env = "full" /\ home # "none" /\ program[p].id # NoId

CheckInInv == Telemetry!TypeOK /\ StoredKnown /\ ProgramsKnown

LEMMA CheckInInit == Telemetry!Init => CheckInInv
  <1>. SUFFICES ASSUME Telemetry!Init
               PROVE  CheckInInv
    OBVIOUS
  <1>1. program = [p \in Programs |-> Telemetry!Closed]
    BY DEF Telemetry!Init
  <1>2. Telemetry!Closed \in [env : {"full", "off", "none"}, dev : BOOLEAN, step : Telemetry!Steps,
                             id : 0..MaxIds, notice : BOOLEAN]
    BY CheckInAssumption DEF Telemetry!Closed, Telemetry!Steps, Telemetry!Absent
  <1>3. program \in [Programs -> [env : {"full", "off", "none"}, dev : BOOLEAN, step : Telemetry!Steps,
                                 id : 0..MaxIds, notice : BOOLEAN]]
    BY <1>1, <1>2, Zenon
  <1>4. file \in 0..MaxIds /\ ids \in 0..MaxIds
    BY CheckInAssumption DEF Telemetry!Init, Telemetry!Absent
  <1>5. Telemetry!TypeOK
    BY <1>3, <1>4, Zenon DEF Telemetry!Init, Telemetry!TypeOK
  <1>6. ProgramsKnown
    BY <1>1 DEF ProgramsKnown, Reporting, OnDisk, Telemetry!Closed
  <1>. QED
    BY <1>5, <1>6 DEF CheckInInv, Telemetry!Init, StoredKnown, NoId

LEMMA CheckInStep == CheckInInv /\ [Telemetry!Next]_telemetry => CheckInInv'
  <1>. SUFFICES ASSUME CheckInInv, [Telemetry!Next]_telemetry
               PROVE  CheckInInv'
    OBVIOUS
  <1>. USE CheckInAssumption DEF NoId, Telemetry!Absent
  <1>1. CASE UNCHANGED telemetry
    BY <1>1 DEF CheckInInv, telemetry, Telemetry!TypeOK, StoredKnown, ProgramsKnown, Reporting, OnDisk
  <1>2. CASE Telemetry!Damage
    BY <1>2 DEF CheckInInv, Telemetry!Damage, Telemetry!TypeOK, StoredKnown, ProgramsKnown, Reporting, OnDisk
  <1>3. ASSUME NEW p \in Programs, NEW env \in {"full", "off", "none"}, NEW dev \in BOOLEAN,
               Telemetry!Launch(p, env, dev)
        PROVE  CheckInInv'
    <2>1. Telemetry!TypeOK'
      BY <1>3 DEF CheckInInv, Telemetry!Launch, Telemetry!TypeOK, Telemetry!Steps, Telemetry!IsFirstRun
    <2>2. (told => told') /\ UNCHANGED <<home, file, stored, sent>>
      BY <1>3 DEF Telemetry!Launch
    <2>3. StoredKnown'
      BY <2>2 DEF CheckInInv, StoredKnown
    <2>4. env = "full" /\ home # "none" => told'
      BY <1>3 DEF CheckInInv, StoredKnown, Telemetry!Launch, Telemetry!IsFirstRun
    <2>5. program'[p].env = env /\ program'[p].step \in {"idle", "check-in"}
          /\ \A q \in Programs \ {p} : program'[q] = program[q]
      BY <1>3 DEF CheckInInv, Telemetry!Launch, Telemetry!TypeOK
    <2>6. ProgramsKnown'
      BY <2>2, <2>4, <2>5 DEF CheckInInv, ProgramsKnown, Reporting, OnDisk
    <2>. QED
      BY <2>1, <2>3, <2>6 DEF CheckInInv
  <1>4. ASSUME NEW p \in Programs, Telemetry!Key(p)
        PROVE  CheckInInv'
    BY <1>4 DEF CheckInInv, Telemetry!Key, Telemetry!TypeOK, StoredKnown, ProgramsKnown, Reporting, OnDisk
  <1>5. ASSUME NEW p \in Programs, Telemetry!Quit(p)
        PROVE  CheckInInv'
    BY <1>5 DEF CheckInInv, Telemetry!Quit, Telemetry!Closed, Telemetry!TypeOK, Telemetry!Steps,
                StoredKnown, ProgramsKnown, Reporting, OnDisk
  <1>6. ASSUME NEW p \in Programs, Telemetry!ReadInstall(p)
        PROVE  CheckInInv'
    BY <1>6 DEF CheckInInv, Telemetry!ReadInstall, Telemetry!Send, Telemetry!StepsTo, Telemetry!TypeOK,
                Telemetry!Steps, StoredKnown, ProgramsKnown, Reporting, OnDisk
  <1>7. ASSUME NEW p \in Programs, Telemetry!OpenInstall(p)
        PROVE  CheckInInv'
    BY <1>7 DEF CheckInInv, Telemetry!OpenInstall, Telemetry!Send, Telemetry!StepsTo, Telemetry!TypeOK,
                Telemetry!Steps, StoredKnown, ProgramsKnown, Reporting, OnDisk
  <1>8. ASSUME NEW p \in Programs, Telemetry!Truncate(p)
        PROVE  CheckInInv'
    BY <1>8 DEF CheckInInv, Telemetry!Truncate, Telemetry!StepsTo, Telemetry!TypeOK,
                Telemetry!Steps, StoredKnown, ProgramsKnown, Reporting, OnDisk
  <1>9. ASSUME NEW p \in Programs, Telemetry!Report(p)
        PROVE  CheckInInv'
    BY <1>9 DEF CheckInInv, Telemetry!Report, Telemetry!Send, Telemetry!StepsTo, Telemetry!TypeOK,
                Telemetry!Steps, StoredKnown, ProgramsKnown, Reporting, OnDisk
  <1>10. ASSUME NEW p \in Programs, Telemetry!Heartbeat(p)
         PROVE  CheckInInv'
    BY <1>10 DEF CheckInInv, Telemetry!Heartbeat, Telemetry!StepsTo, Telemetry!TypeOK,
                 Telemetry!Steps, StoredKnown, ProgramsKnown, Reporting, OnDisk
  <1>. QED
    BY <1>1, <1>2, <1>3, <1>4, <1>5, <1>6, <1>7, <1>8, <1>9, <1>10 DEF Telemetry!Next

\* No identity leaves a machine that has not shown the disclosure, nor one that install.json
\* has never held, however many programs are launched, quit and interleave (telemetry package).
THEOREM ReportsAreDisclosed == Spec => []SentAsDisclosed
  <1>1. Init => CheckInInv
    BY CheckInInit DEF Init
  <1>2. CheckInInv /\ [Next]_vars => CheckInInv'
    BY CheckInStep DEF Next, vars
  <1>3. CheckInInv => SentAsDisclosed
    BY DEF CheckInInv, StoredKnown, SentAsDisclosed, NoId, Telemetry!NothingSentUntold, Telemetry!ReportsStoredIds,
           Telemetry!Absent
  <1>. QED
    BY <1>1, <1>2, <1>3, PTL DEF Spec

-----------------------------------------------------------------------------
(***************************************************************************)
(* The root of the TUI: the layout                                         *)
(***************************************************************************)
\* The view on the screen and those under it are views, the bars exclude each other, and the
\* view has the room that the bars, the terminal and the fullscreen leave it.
BarsKnown == command \in BOOLEAN /\ search \in {"hidden", "editing", "passive"} /\ App!OneBar

SizeKnown == fullscreen \in BOOLEAN /\ terminal \in 1..2

ViewsKnown == screen \in App!Seen /\ below \in Seq(App!Seen) /\ Len(below) <= Deepest

LayoutKnown == BarsKnown /\ SizeKnown /\ ViewsKnown /\ App!FitsTheScreen

LEMMA BarIsBoolean == App!BarOpen \in BOOLEAN
  BY DEF App!BarOpen

LEMMA RoomIsARoom ==
  ASSUME BarsKnown, SizeKnown
  PROVE  App!Room \in App!Rooms
  BY BarIsBoolean DEF SizeKnown, App!Room, App!Rooms

\* resizeToTerminal: whatever view is given the room that is left fits the screen.
LEMMA LaidOutFits ==
  ASSUME NEW v \in App!Seen, App!LaidOut(v), BarsKnown', SizeKnown',
         below' \in Seq(App!Seen), Len(below') <= Deepest
  PROVE  LayoutKnown'
  <1>1. App!Room' \in App!Rooms
    BY DEF SizeKnown, App!BarOpen, App!Room, App!Rooms
  <1>2. screen' \in App!Seen /\ screen'.room = App!Room'
    BY <1>1 DEF App!LaidOut, App!Seen
  <1>. QED
    BY <1>2 DEF LayoutKnown, ViewsKnown, App!FitsTheScreen, App!LaidOut

LEMMA RelaidFits ==
  ASSUME LayoutKnown, App!Relaid, BarsKnown', SizeKnown'
  PROVE  LayoutKnown'
  BY LaidOutFits DEF LayoutKnown, ViewsKnown, App!Relaid

\* A view that was stepped into or out of keeps its room, and so does one that is left alone.
LEMMA SteppedFits ==
  ASSUME LayoutKnown, NEW mode \in {"plain", "asking", "inside"}, App!StepsTo(mode),
         UNCHANGED <<command, search, fullscreen, terminal>>
  PROVE  LayoutKnown'
  <1>1. screen' \in App!Seen /\ screen'.room = screen.room
    BY DEF LayoutKnown, ViewsKnown, App!Seen, App!StepsTo
  <1>. QED
    BY <1>1 DEF LayoutKnown, BarsKnown, SizeKnown, ViewsKnown, App!FitsTheScreen, App!OneBar, App!BarOpen, App!Room,
                App!StepsTo

LEMMA UntouchedFits ==
  ASSUME LayoutKnown, UNCHANGED <<screen, below, fullscreen, terminal, reserved>>,
         BarsKnown', App!BarOpen' = App!BarOpen
  PROVE  LayoutKnown'
  BY DEF LayoutKnown, SizeKnown, ViewsKnown, App!FitsTheScreen, App!Room

\* A view that is opened has the room of the moment.
LEMMA FreshFits ==
  ASSUME LayoutKnown, NEW n \in App!Views, screen' = App!Fresh(n),
         below' \in Seq(App!Seen), Len(below') <= Deepest,
         UNCHANGED <<fullscreen, terminal, reserved, command, search>>
  PROVE  LayoutKnown'
  <1>1. App!Fresh(n) = [name |-> n, mode |-> "plain", room |-> App!Room]
    BY DEF LayoutKnown, App!FitsTheScreen, App!Fresh, App!Room
  <1>2. screen' \in App!Seen /\ screen'.room = App!Room
    BY <1>1, RoomIsARoom DEF LayoutKnown, App!Seen
  <1>. QED
    BY <1>2 DEF LayoutKnown, BarsKnown, SizeKnown, ViewsKnown, App!FitsTheScreen, App!OneBar, App!BarOpen, App!Room

LEMMA ReplacedFits ==
  ASSUME LayoutKnown, NEW n \in App!Views, App!ReplaceView(n), UNCHANGED <<command, search>>
  PROVE  LayoutKnown'
  <1>1. below' \in Seq(App!Seen) /\ Len(below') <= Deepest
    BY AppAssumption DEF App!ReplaceView
  <1>. QED
    BY <1>1, FreshFits DEF App!ReplaceView

\* What is under the view on the screen is never more than the stack keeps: the oldest goes.
LEMMA SwitchedFits ==
  ASSUME LayoutKnown, NEW n \in App!Views, App!SwitchToView(n), UNCHANGED <<command, search>>
  PROVE  LayoutKnown'
  <1>. DEFINE s == Append(below, screen)
  <1>1. s \in Seq(App!Seen) /\ Len(s) = Len(below) + 1 /\ Len(below) \in Nat
    BY DEF LayoutKnown, ViewsKnown
  <1>2. Deepest \in Nat /\ Len(below) <= Deepest
    BY AppAssumption DEF LayoutKnown, ViewsKnown
  <1>3. below' = IF Len(s) > Deepest THEN App!Kept(s) ELSE s
    BY DEF App!SwitchToView
  <1>4. CASE Len(s) > Deepest
    <2>. DEFINE k == Len(s) - Deepest + 1
    <2>1. k \in 1..Len(s) + 1 /\ Len(s) \in Nat /\ Len(s) - k + 1 = Deepest
      BY <1>1, <1>2, <1>4
    <2>2. below' = SubSeq(s, k, Len(s))
      BY <1>3, <1>4 DEF App!Kept
    <2>3. SubSeq(s, k, Len(s)) \in Seq(App!Seen) /\ Len(SubSeq(s, k, Len(s))) = Deepest
      BY <2>1, <1>1, <1>2
    <2>4. below' \in Seq(App!Seen) /\ Len(below') <= Deepest
      <3>. HIDE DEF s, k
      <3>. QED
        BY <2>2, <2>3, <1>2
    <2>. QED
      BY <2>4, FreshFits DEF App!SwitchToView
  <1>5. CASE ~(Len(s) > Deepest)
    <2>1. below' \in Seq(App!Seen) /\ Len(below') <= Deepest
      BY <1>1, <1>2, <1>3, <1>5
    <2>. QED
      BY <2>1, FreshFits DEF App!SwitchToView
  <1>. QED
    BY <1>4, <1>5

LEMMA ReturnedFits ==
  ASSUME LayoutKnown, NEW i \in DOMAIN below, App!ReturnTo(i), BarsKnown', SizeKnown'
  PROVE  LayoutKnown'
  <1>1. below \in Seq(App!Seen) /\ Len(below) \in Nat /\ Len(below) <= Deepest /\ i \in 1..Len(below)
    BY DEF LayoutKnown, ViewsKnown
  <1>2. below[i] \in App!Seen
    BY <1>1
  <1>3. SubSeq(below, 1, i - 1) \in Seq(App!Seen) /\ Len(SubSeq(below, 1, i - 1)) = i - 1
    BY <1>1
  <1>4. i - 1 <= Deepest
    BY <1>1, AppAssumption
  <1>5. below' \in Seq(App!Seen) /\ Len(below') <= Deepest
    BY <1>3, <1>4 DEF App!ReturnTo
  <1>. QED
    BY <1>2, <1>5, LaidOutFits DEF App!ReturnTo

-----------------------------------------------------------------------------
(***************************************************************************)
(* Who takes a key                                                         *)
(***************************************************************************)
DialogNames == {"error", "unlock", "update", "drift", "connect"}

LEMMA DialogsNamed == App!ToSet(App!Dialogs) = DialogNames
  BY DEF App!ToSet, App!Dialogs, DialogNames

LEMMA FirstUpIsUp ==
  ASSUME up \subseteq DialogNames, up # {}
  PROVE  App!FirstUp \in DialogNames
  <1>. DEFINE P(i) == App!Dialogs[i] \in up /\ \A j \in 1..(i - 1) : App!Dialogs[j] \notin up
  <1>1. DOMAIN App!Dialogs = 1..5
    BY DEF App!Dialogs
  <1>2. \A i \in 1..5 : App!Dialogs[i] \in DialogNames
    BY DEF App!Dialogs, DialogNames
  <1>3. \E i \in 1..5 : P(i)
    <2>1. \A n \in up : n = App!Dialogs[1] \/ n = App!Dialogs[2] \/ n = App!Dialogs[3] \/ n = App!Dialogs[4]
                        \/ n = App!Dialogs[5]
      BY DEF App!Dialogs, DialogNames
    <2>. DEFINE D == App!Dialogs
    <2>. HIDE DEF D
    <2>2. D[1] \in up \/ D[2] \in up \/ D[3] \in up \/ D[4] \in up \/ D[5] \in up
      BY <2>1 DEF D
    <2>3. CASE D[1] \in up
      BY <2>3 DEF D
    <2>4. CASE D[1] \notin up /\ D[2] \in up
      <3>1. \A j \in 1..(2 - 1) : j = 1
        OBVIOUS
      <3>. QED
        BY <2>4, <3>1 DEF D
    <2>5. CASE D[1] \notin up /\ D[2] \notin up /\ D[3] \in up
      <3>1. \A j \in 1..(3 - 1) : j = 1 \/ j = 2
        OBVIOUS
      <3>. QED
        BY <2>5, <3>1 DEF D
    <2>6. CASE D[1] \notin up /\ D[2] \notin up /\ D[3] \notin up /\ D[4] \in up
      <3>1. \A j \in 1..(4 - 1) : j = 1 \/ j = 2 \/ j = 3
        OBVIOUS
      <3>. QED
        BY <2>6, <3>1 DEF D
    <2>7. CASE D[1] \notin up /\ D[2] \notin up /\ D[3] \notin up /\ D[4] \notin up /\ D[5] \in up
      <3>1. \A j \in 1..(5 - 1) : j = 1 \/ j = 2 \/ j = 3 \/ j = 4
        OBVIOUS
      <3>. QED
        BY <2>7, <3>1 DEF D
    <2>. QED
      BY <2>2, <2>3, <2>4, <2>5, <2>6, <2>7
  <1>4. App!FirstUp = App!Dialogs[CHOOSE i \in DOMAIN App!Dialogs : P(i)]
    BY DEF App!FirstUp
  <1>. QED
    BY <1>1, <1>2, <1>3, <1>4

\* A bar is opened when the other one is not, and typed into when it is open.
LEMMA TakerOfBars ==
  ASSUME up \subseteq DialogNames, NEW k
  PROVE  /\ App!Taker(k) = "bar" => ~command
         /\ App!Taker(k) = "search" => ~command /\ search = "editing"
         /\ App!Taker(k) = "command" => command
  <1>1. App!First => up # {}
    BY DEF App!First
  <1>2. up # {} => App!FirstUp \notin {"bar", "search", "command"}
    BY FirstUpIsUp DEF DialogNames
  <1>. QED
    BY <1>1, <1>2 DEF App!Taker, App!BarTaker

-----------------------------------------------------------------------------
(***************************************************************************)
(* The root of the TUI: every step                                         *)
(***************************************************************************)
\* The dialogs that are seen are those whose flag is set, and there is a context to offer
\* exactly while the drift prompt has its flag set.
DialogsKnown ==
  /\ up \subseteq DialogNames /\ shown \subseteq up /\ fallback \in {"", "contexts"}
  /\ {pin, config} \subseteq Contexts /\ {previous, offered, declined} \subseteq Contexts \cup {App!None}
  /\ (offered # App!None) <=> ("drift" \in up)
  /\ writes \in BOOLEAN

\* Only what names a context is taken for a switch, and only a view is navigated to.
Sound(m) ==
  /\ m.what \in {"switching", "switched", "changed", "loading"} => m.of \in Contexts
  /\ m.what = "navigate" => m.of \in App!Views
  /\ m.what = "drift" => m.of \in Contexts \cup {App!None}

MailKnown == \A m \in mail : Sound(m)

CountsKnown == mouseOn \in BOOLEAN /\ quit \in BOOLEAN /\ keys \in 0..MaxKeys

AppInv == LayoutKnown /\ DialogsKnown /\ MailKnown /\ CountsKnown

LEMMA AppInit == App!Init => AppInv
  <1>. SUFFICES ASSUME App!Init
               PROVE  AppInv
    OBVIOUS
  <1>0. /\ command = FALSE /\ search = "hidden" /\ fullscreen = FALSE /\ terminal = 1 /\ reserved = FALSE
        /\ screen = [name |-> "loading", mode |-> "plain", room |-> App!Room] /\ below = <<>>
    BY DEF App!Init
  <1>1. BarsKnown /\ SizeKnown
    <2>1. terminal \in 1..2
      BY <1>0
    <2>2. command \in BOOLEAN /\ fullscreen \in BOOLEAN /\ App!OneBar
      BY <1>0, Zenon DEF App!OneBar
    <2>3. search \in {"hidden", "editing", "passive"}
      BY <1>0
    <2>. QED
      BY <2>1, <2>2, <2>3, Zenon DEF BarsKnown, SizeKnown
  <1>2. LayoutKnown
    <2>1. screen \in App!Seen /\ screen.room = App!Room
      BY <1>0, <1>1, RoomIsARoom DEF App!Seen, App!Views
    <2>2. below \in Seq(App!Seen) /\ Len(below) = 0
      BY <1>0
    <2>3. ViewsKnown
      BY <2>1, <2>2, AppAssumption DEF ViewsKnown
    <2>. QED
      BY <1>0, <1>1, <2>1, <2>3 DEF LayoutKnown, App!FitsTheScreen, App!BarOpen
  <1>3. DialogsKnown
    BY DEF App!Init, DialogsKnown
  <1>4. MailKnown
    <2>1. mail = {App!Loading(pin)} /\ pin \in Contexts
      BY DEF App!Init
    <2>2. App!Loading(pin).what = "loading" /\ App!Loading(pin).of = pin
      BY DEF App!Loading, App!Message
    <2>. QED
      BY <2>1, <2>2 DEF MailKnown, Sound
  <1>5. CountsKnown
    <2>1. mouseOn \in BOOLEAN /\ quit = FALSE /\ keys = 0
      BY DEF App!Init
    <2>2. quit \in BOOLEAN
      BY <2>1, Zenon
    <2>3. keys \in 0..MaxKeys
      BY <2>1, AppAssumption
    <2>. QED
      BY <2>1, <2>2, <2>3, Zenon DEF CountsKnown
  <1>. QED
    BY <1>2, <1>3, <1>4, <1>5 DEF AppInv

\* A step that leaves the layout and the bars alone.
LayoutLeft == UNCHANGED <<screen, below, fullscreen, terminal, reserved, command, search>>

LEMMA LeftFits ==
  ASSUME LayoutKnown, LayoutLeft
  PROVE  LayoutKnown'
  BY DEF LayoutLeft, LayoutKnown, BarsKnown, SizeKnown, ViewsKnown, App!FitsTheScreen, App!OneBar, App!BarOpen, App!Room

LEMMA EscFits ==
  ASSUME LayoutKnown, App!Esc
  PROVE  LayoutKnown'
  <1>1. UNCHANGED <<command, terminal>> /\ fullscreen' \in BOOLEAN /\ terminal \in 1..2
    BY DEF LayoutKnown, SizeKnown, App!Esc
  <1>2. SizeKnown'
    BY <1>1, Zenon DEF SizeKnown
  <1>3. search' = search \/ search' = "hidden"
    BY DEF App!Esc
  <1>4. BarsKnown'
    BY <1>1, <1>3, Zenon DEF LayoutKnown, BarsKnown, App!OneBar
  <1>5. CASE App!Relaid
    BY <1>2, <1>4, <1>5, RelaidFits
  <1>6. CASE App!StepsTo("plain") /\ UNCHANGED <<fullscreen, search>>
    BY <1>1, <1>6, SteppedFits
  <1>7. CASE below # <<>> /\ App!ReturnTo(Len(below))
    <2>1. Len(below) \in DOMAIN below
      BY <1>7 DEF LayoutKnown, ViewsKnown
    <2>. QED
      BY <1>2, <1>4, <1>7, <2>1, ReturnedFits
  <1>8. CASE UNCHANGED <<screen, below, reserved, fullscreen, search>>
    BY <1>1, <1>8, LeftFits DEF LayoutLeft
  <1>. QED
    BY <1>5, <1>6, <1>7, <1>8 DEF App!Esc

LEMMA LayoutStep ==
  ASSUME LayoutKnown, DialogsKnown, MailKnown, App!Next
  PROVE  LayoutKnown'
  <1>. USE DEF App!layout, App!bars
  <1>0. up \subseteq DialogNames /\ BarsKnown /\ SizeKnown
    BY DEF DialogsKnown, LayoutKnown
  <1>1. ASSUME NEW k \in App!Keys, NEW d \in {"error", "update", "drift"}, App!DialogKey(d, k)
        PROVE  LayoutLeft
    BY <1>1 DEF LayoutLeft, App!DialogKey
  <1>2. ASSUME NEW k \in App!Keys, App!UnlockKey(k) \/ App!ConnectKey(k)
        PROVE  LayoutLeft
    BY <1>2 DEF LayoutLeft, App!UnlockKey, App!ConnectKey
  <1>3. ASSUME NEW k \in App!Keys, App!OpenBar(k)
        PROVE  LayoutKnown'
    <2>1. ~command /\ UNCHANGED <<fullscreen, terminal>>
      BY <1>0, <1>3, TakerOfBars DEF App!OpenBar
    <2>2. SizeKnown'
      BY <1>0, <2>1 DEF SizeKnown
    <2>3. CASE search = "hidden" /\ command' = TRUE /\ UNCHANGED search /\ App!Relaid
      <3>1. BarsKnown'
        BY <1>0, <2>3, Zenon DEF BarsKnown, App!OneBar
      <3>. QED
        BY <2>2, <2>3, <3>1, RelaidFits
    <2>4. CASE UNCHANGED <<command, search, screen, below, reserved>>
      BY <2>1, <2>4, LeftFits DEF LayoutLeft
    <2>5. CASE search = "passive" /\ search' = "editing" /\ UNCHANGED <<command, screen, below, reserved>>
      <3>1. BarsKnown'
        BY <1>0, <2>1, <2>5 DEF BarsKnown, App!OneBar
      <3>2. App!BarOpen' = App!BarOpen
        BY <2>5 DEF App!BarOpen
      <3>. QED
        BY <2>1, <2>5, <3>1, <3>2, UntouchedFits
    <2>6. CASE search' = "editing" /\ UNCHANGED command /\ App!Relaid
      <3>1. BarsKnown'
        BY <1>0, <2>1, <2>6 DEF BarsKnown, App!OneBar
      <3>. QED
        BY <2>2, <2>6, <3>1, RelaidFits
    <2>. QED
      BY <1>3, <2>3, <2>4, <2>5, <2>6 DEF App!OpenBar
  <1>4. ASSUME NEW k \in App!Keys, App!CommandKey(k)
        PROVE  LayoutKnown'
    <2>1. command' = FALSE /\ UNCHANGED <<search, fullscreen, terminal>> /\ App!Relaid
      BY <1>4 DEF App!CommandKey
    <2>2. BarsKnown'
      BY <1>0, <2>1, Zenon DEF BarsKnown, App!OneBar
    <2>3. SizeKnown'
      BY <1>0, <2>1 DEF SizeKnown
    <2>. QED
      BY <2>1, <2>2, <2>3, RelaidFits
  <1>5. ASSUME NEW k \in App!Keys, App!SearchKey(k)
        PROVE  LayoutKnown'
    <2>1. ~command /\ search = "editing" /\ UNCHANGED <<command, fullscreen, terminal>>
      BY <1>0, <1>5, TakerOfBars DEF App!SearchKey
    <2>2. SizeKnown'
      BY <1>0, <2>1 DEF SizeKnown
    <2>3. search' \in {"passive", "hidden"}
      BY <1>5 DEF App!SearchKey
    <2>4. BarsKnown'
      BY <1>0, <2>1, <2>3 DEF BarsKnown, App!OneBar
    <2>5. CASE search' = "passive" /\ UNCHANGED <<screen, below, reserved>>
      <3>1. App!BarOpen' = App!BarOpen
        BY <2>1, <2>5 DEF App!BarOpen
      <3>. QED
        BY <2>1, <2>4, <2>5, <3>1, UntouchedFits
    <2>6. CASE App!Relaid
      BY <2>2, <2>4, <2>6, RelaidFits
    <2>. QED
      BY <1>5, <2>5, <2>6 DEF App!SearchKey
  <1>6. ASSUME NEW k \in App!Keys, App!ViewKey(k)
        PROVE  LayoutKnown'
    <2>1. App!StepsTo("plain") /\ UNCHANGED <<command, search, fullscreen, terminal>>
      BY <1>6 DEF App!ViewKey
    <2>. QED
      BY <2>1, SteppedFits
  <1>7. ASSUME NEW k \in App!Keys, App!OwnKey(k)
        PROVE  LayoutKnown'
    <2>1. UNCHANGED <<command, search, fullscreen, terminal>>
      BY <1>7 DEF App!OwnKey
    <2>2. CASE \E mode \in {"asking", "inside"} : App!StepsTo(mode)
      BY <2>1, <2>2, SteppedFits
    <2>3. CASE UNCHANGED <<screen, below, reserved>>
      BY <2>1, <2>3, LeftFits DEF LayoutLeft
    <2>. QED
      BY <1>7, <2>2, <2>3 DEF App!OwnKey
  <1>8. CASE App!EscKey \/ App!RightClick
    BY <1>8, EscFits DEF App!EscKey, App!RightClick
  <1>9. CASE App!HelpKey \/ App!ConnectAppKey \/ App!QuitKey
    <2>1. LayoutLeft
      BY <1>9 DEF LayoutLeft, App!HelpKey, App!ConnectAppKey, App!QuitKey
    <2>. QED
      BY <2>1, LeftFits
  <1>10. CASE App!FullscreenKey
    <2>1. fullscreen' \in BOOLEAN /\ UNCHANGED <<terminal, command, search>> /\ App!Relaid
      BY <1>10 DEF App!FullscreenKey
    <2>2. BarsKnown'
      BY <1>0, <2>1 DEF BarsKnown, App!OneBar
    <2>3. SizeKnown'
      BY <1>0, <2>1, Zenon DEF SizeKnown
    <2>. QED
      BY <2>1, <2>2, <2>3, RelaidFits
  <1>11. CASE App!ClickBreadcrumb
    <2>1. search' = "hidden" /\ UNCHANGED <<command, fullscreen, terminal>>
      BY <1>11 DEF App!ClickBreadcrumb
    <2>2. BarsKnown'
      BY <1>0, <2>1, Zenon DEF BarsKnown, App!OneBar
    <2>3. SizeKnown'
      BY <1>0, <2>1 DEF SizeKnown
    <2>4. PICK i \in DOMAIN below : App!ReturnTo(i)
      BY <1>11 DEF App!ClickBreadcrumb
    <2>. QED
      BY <2>2, <2>3, <2>4, ReturnedFits
  <1>12. CASE App!Resize
    <2>1. UNCHANGED <<fullscreen, command, search>> /\ App!Relaid
      BY <1>12 DEF App!Resize
    <2>2. BarsKnown'
      BY <1>0, <2>1 DEF BarsKnown, App!OneBar
    <2>3. terminal' \in 1..2
      BY <1>0, <1>12 DEF SizeKnown, App!Resize
    <2>4. SizeKnown'
      BY <1>0, <2>1, <2>3, Zenon DEF SizeKnown
    <2>. QED
      BY <2>1, <2>2, <2>4, RelaidFits
  <1>13. ASSUME NEW m \in mail, App!Deliver(m)
         PROVE  LayoutKnown'
    <2>1. CASE App!RunSwitch(m) \/ App!Switched(m) \/ App!SnapshotNotLoaded(m) \/ App!UnlockAnswered(m)
               \/ App!UnlockResult(m) \/ App!OpenDialog(m) \/ App!ContextDrift(m)
      <3>1. LayoutLeft
        BY <2>1 DEF LayoutLeft, App!RunSwitch, App!Switched, App!SnapshotNotLoaded, App!UnlockAnswered,
                    App!UnlockResult, App!OpenDialog, App!ContextDrift
      <3>. QED
        BY <3>1, LeftFits
    <2>2. CASE App!ContextChanged(m)
      <3>1. App!ReplaceView("loading") /\ UNCHANGED <<command, search>> /\ "loading" \in App!Views
        BY <2>2 DEF App!ContextChanged, App!EnterContext, App!Views
      <3>. QED
        BY <3>1, ReplacedFits
    <2>3. CASE App!SnapshotLoaded(m)
      <3>1. App!ReplaceView("stacks") /\ UNCHANGED <<command, search>> /\ "stacks" \in App!Views
        BY <2>3 DEF App!SnapshotLoaded, App!Views
      <3>. QED
        BY <3>1, ReplacedFits
    <2>4. CASE App!Navigate(m)
      <3>1. m.of \in App!Views /\ UNCHANGED <<command, search>> /\ (App!ReplaceView(m.of) \/ App!SwitchToView(m.of))
        BY <2>4 DEF App!Navigate, MailKnown, Sound
      <3>. QED
        BY <3>1, ReplacedFits, SwitchedFits
    <2>5. CASE App!Answered(m)
      <3>1. UNCHANGED <<command, search>> /\ (fallback # "" => fallback = "contexts")
        BY <2>5 DEF App!Answered, DialogsKnown
      <3>2. \/ \E n \in App!Views : App!ReplaceView(n)
            \/ UNCHANGED <<screen, below, fullscreen, terminal, reserved>>
        <4>1. "loading" \in App!Views /\ "contexts" \in App!Views
          BY DEF App!Views
        <4>. QED
          BY <2>5, <3>1, <4>1, Zenon DEF App!Answered, App!EnterContext
      <3>. QED
        BY <3>1, <3>2, ReplacedFits, LeftFits DEF LayoutLeft
    <2>. QED
      BY <1>13, <2>1, <2>2, <2>3, <2>4, <2>5 DEF App!Deliver
  <1>14. CASE App!CheckDrift \/ App!Outside \/ App!UseElsewhere
    <2>1. LayoutLeft
      BY <1>14 DEF LayoutLeft, App!CheckDrift, App!Outside, App!UseElsewhere
    <2>. QED
      BY <2>1, LeftFits
  <1>. QED
    BY <1>1, <1>2, <1>3, <1>4, <1>5, <1>6, <1>7, <1>8, <1>9, <1>10, <1>11, <1>12, <1>13, <1>14, LeftFits
    DEF App!Next, App!Operator

\* A step that raises or lowers no dialog, shows at most those whose flag is set, and keeps
\* the contexts.
LEMMA DialogsLeft ==
  ASSUME DialogsKnown, UNCHANGED <<up, fallback, pin, config, previous, writes, offered, declined>>,
         shown' \subseteq shown
  PROVE  DialogsKnown'
  BY DEF DialogsKnown

\* A dialog other than the drift prompt is raised or lowered.
LEMMA DialogsMoved ==
  ASSUME DialogsKnown, NEW d \in DialogNames \ {"drift"}, App!Raised(d) \/ App!Lowered(d), fallback' \in {"", "contexts"},
         UNCHANGED <<pin, config, previous, writes, offered, declined>>
  PROVE  DialogsKnown'
  BY DEF DialogsKnown, App!Raised, App!Lowered

LEMMA DialogsStep ==
  ASSUME DialogsKnown, MailKnown, App!Next
  PROVE  DialogsKnown'
  <1>. USE DEF App!dialogs, App!contexts, App!layout
  <1>1. ASSUME NEW k \in App!Keys, NEW d \in {"error", "update", "drift"}, App!DialogKey(d, k)
        PROVE  DialogsKnown'
    BY <1>1, DialogsLeft DEF App!DialogKey
  <1>2. ASSUME NEW k \in App!Keys, App!UnlockKey(k)
        PROVE  DialogsKnown'
    BY <1>2, DialogsLeft DEF App!UnlockKey
  <1>3. ASSUME NEW k \in App!Keys, App!ConnectKey(k)
        PROVE  DialogsKnown'
    <2>1. App!Lowered("connect") /\ UNCHANGED <<fallback, pin, config, previous, writes, offered, declined>>
      BY <1>3 DEF App!ConnectKey
    <2>2. fallback' \in {"", "contexts"} /\ "connect" \in DialogNames \ {"drift"}
      BY <2>1 DEF DialogsKnown, DialogNames
    <2>. QED
      BY <2>1, <2>2, DialogsMoved
  <1>4. ASSUME NEW k \in App!Keys,
               App!OpenBar(k) \/ App!CommandKey(k) \/ App!SearchKey(k) \/ App!ViewKey(k) \/ App!OwnKey(k)
        PROVE  DialogsKnown'
    BY <1>4, DialogsLeft DEF App!OpenBar, App!CommandKey, App!SearchKey, App!ViewKey, App!OwnKey
  <1>5. CASE App!EscKey \/ App!RightClick \/ App!HelpKey \/ App!FullscreenKey \/ App!QuitKey \/ App!ClickBreadcrumb
             \/ App!Resize
    BY <1>5, DialogsLeft DEF App!EscKey, App!RightClick, App!Esc, App!HelpKey, App!FullscreenKey, App!QuitKey,
                             App!ClickBreadcrumb, App!Resize
  <1>6. CASE App!ConnectAppKey
    <2>1. App!Raised("connect") /\ UNCHANGED <<fallback, pin, config, previous, writes, offered, declined>>
      BY <1>6 DEF App!ConnectAppKey
    <2>2. fallback' \in {"", "contexts"} /\ "connect" \in DialogNames \ {"drift"}
      BY <2>1 DEF DialogsKnown, DialogNames
    <2>. QED
      BY <2>1, <2>2, DialogsMoved
  <1>7. ASSUME NEW m \in mail, App!Deliver(m)
        PROVE  DialogsKnown'
    <2>1. CASE App!RunSwitch(m)
      <3>1. m.of \in Contexts
        BY <2>1 DEF App!RunSwitch, MailKnown, Sound
      <3>. QED
        BY <2>1, <3>1 DEF App!RunSwitch, DialogsKnown
    <2>2. CASE App!Switched(m) \/ App!Navigate(m)
      BY <2>2, DialogsLeft DEF App!Switched, App!Navigate
    <2>3. CASE App!ContextChanged(m)
      <3>1. m.of \in Contexts
        BY <2>3 DEF App!ContextChanged, MailKnown, Sound
      <3>2. writes' = TRUE
        BY <2>3 DEF App!ContextChanged, App!EnterContext
      <3>3. writes' \in BOOLEAN
        BY <3>2, Zenon
      <3>4. previous' = m.of /\ UNCHANGED <<up, shown, fallback, pin, config, offered, declined>>
        BY <2>3 DEF App!ContextChanged, App!EnterContext
      <3>. QED
        BY <3>1, <3>3, <3>4 DEF DialogsKnown
    <2>4. CASE App!SnapshotLoaded(m)
      <3>1. previous' = App!None /\ UNCHANGED <<pin, config, writes, offered, declined>>
        BY <2>4 DEF App!SnapshotLoaded
      <3>2. \/ UNCHANGED <<up, shown, fallback>>
            \/ App!Raised("error") /\ fallback' = ""
        BY <2>4 DEF App!SnapshotLoaded, App!ShowAppError
      <3>. QED
        BY <3>1, <3>2 DEF DialogsKnown, App!Raised, DialogNames
    <2>5. CASE App!SnapshotNotLoaded(m)
      <3>1. App!Raised("error") /\ fallback' = "contexts" /\ UNCHANGED <<writes, offered>>
        BY <2>5 DEF App!SnapshotNotLoaded, App!ShowAppError
      <3>2. {pin', config'} \subseteq Contexts /\ {previous', declined'} \subseteq Contexts \cup {App!None}
        <4>1. CASE UNCHANGED <<pin, config, previous, declined>>
          BY <4>1 DEF DialogsKnown
        <4>2. CASE previous # App!None /\ pin' = previous /\ previous' = App!None
                   /\ config' = (IF writes THEN previous ELSE config) /\ declined' = (IF writes THEN declined ELSE pin)
          BY <4>2 DEF DialogsKnown
        <4>. QED
          BY <2>5, <4>1, <4>2 DEF App!SnapshotNotLoaded
      <3>. QED
        BY <3>1, <3>2 DEF DialogsKnown, App!Raised, DialogNames
    <2>6. CASE App!Answered(m)
      <3>1. CASE "drift" \in up /\ App!Lowered("drift") /\ UNCHANGED <<fallback, config>> /\ offered' = App!None
                 /\ declined' = (IF m.yes THEN App!None ELSE offered)
                 /\ (IF m.yes THEN pin' = offered /\ App!EnterContext(m, pin, FALSE)
                     ELSE UNCHANGED <<pin, previous, writes>>)
        <4>1. offered \in Contexts
          BY <3>1 DEF DialogsKnown
        <4>2. pin' \in Contexts /\ previous' \in Contexts \cup {App!None}
          BY <3>1, <4>1 DEF DialogsKnown, App!EnterContext
        <4>3. writes' = FALSE \/ writes' = writes
          BY <3>1 DEF App!EnterContext
        <4>4. writes' \in BOOLEAN
          BY <4>3, Zenon DEF DialogsKnown
        <4>5. declined' \in Contexts \cup {App!None}
          BY <3>1, <4>1
        <4>6. up' \subseteq DialogNames /\ shown' \subseteq up' /\ "drift" \notin up'
          BY <3>1 DEF DialogsKnown, App!Lowered
        <4>. QED
          BY <3>1, <4>2, <4>4, <4>5, <4>6 DEF DialogsKnown
      <3>2. CASE App!Lowered("update") /\ UNCHANGED <<fallback, pin, config, previous, writes, offered, declined>>
        <4>1. fallback' \in {"", "contexts"} /\ "update" \in DialogNames \ {"drift"}
          BY <3>2 DEF DialogsKnown, DialogNames
        <4>. QED
          BY <3>2, <4>1, DialogsMoved
      <3>3. CASE App!Lowered("error") /\ fallback' = "" /\ UNCHANGED <<pin, config, previous, writes, offered, declined>>
        <4>1. "error" \in DialogNames \ {"drift"}
          BY DEF DialogNames
        <4>. QED
          BY <3>3, <4>1, DialogsMoved
      <3>4. CASE UNCHANGED <<up, shown, fallback, pin, config, previous, writes, offered, declined>>
        BY <3>4, DialogsLeft
      <3>. QED
        BY <2>6, <3>1, <3>2, <3>3, <3>4, Zenon DEF App!Answered
    <2>7. CASE App!UnlockAnswered(m)
      <3>1. App!Lowered("unlock") /\ UNCHANGED <<fallback, pin, config, previous, writes, offered, declined>>
        BY <2>7 DEF App!UnlockAnswered
      <3>2. fallback' \in {"", "contexts"} /\ "unlock" \in DialogNames \ {"drift"}
        BY <3>1 DEF DialogsKnown, DialogNames
      <3>. QED
        BY <3>1, <3>2, DialogsMoved
    <2>8. CASE App!UnlockResult(m)
      <3>1. UNCHANGED <<pin, config, previous, writes, offered, declined>>
        BY <2>8 DEF App!UnlockResult
      <3>2. \/ App!Raised("error") /\ fallback' = ""
            \/ UNCHANGED <<up, shown, fallback>>
        BY <2>8 DEF App!UnlockResult, App!ShowAppError
      <3>3. "error" \in DialogNames \ {"drift"}
        BY DEF DialogNames
      <3>. QED
        BY <3>1, <3>2, <3>3, DialogsMoved, DialogsLeft
    <2>9. CASE App!OpenDialog(m)
      <3>1. UNCHANGED <<pin, config, previous, writes, offered, declined>>
        BY <2>9 DEF App!OpenDialog
      <3>2. \/ \E d \in {"unlock", "update", "connect", "error"} : App!Raised(d) /\ fallback' \in {fallback, ""}
            \/ UNCHANGED <<up, shown, fallback>>
        BY <2>9 DEF App!OpenDialog, App!ShowAppError
      <3>3. CASE UNCHANGED <<up, shown, fallback>>
        BY <3>1, <3>3, DialogsLeft
      <3>4. ASSUME NEW d \in {"unlock", "update", "connect", "error"}, App!Raised(d), fallback' \in {fallback, ""}
            PROVE  DialogsKnown'
        <4>1. d \in DialogNames \ {"drift"} /\ fallback' \in {"", "contexts"}
          BY <3>4 DEF DialogNames, DialogsKnown
        <4>. QED
          BY <3>1, <3>4, <4>1, DialogsMoved
      <3>. QED
        BY <3>2, <3>3, <3>4
    <2>10. CASE App!ContextDrift(m)
      <3>1. UNCHANGED <<pin, config, previous, writes, fallback>>
        BY <2>10 DEF App!ContextDrift
      <3>2. m.of \in Contexts \cup {App!None}
        BY <2>10 DEF App!ContextDrift, MailKnown, Sound
      <3>3. CASE UNCHANGED <<up, shown, offered>> /\ declined' \in {App!None, declined}
        BY <3>1, <3>3 DEF DialogsKnown
      <3>4. CASE m.of # App!None /\ App!Raised("drift") /\ offered' = m.of /\ UNCHANGED declined
        BY <3>1, <3>2, <3>4 DEF DialogsKnown, App!Raised, DialogNames
      <3>. QED
        BY <2>10, <3>3, <3>4 DEF App!ContextDrift
    <2>. QED
      BY <1>7, <2>1, <2>2, <2>3, <2>4, <2>5, <2>6, <2>7, <2>8, <2>9, <2>10 DEF App!Deliver
  <1>8. CASE App!CheckDrift \/ App!Outside
    BY <1>8, DialogsLeft DEF App!CheckDrift, App!Outside
  <1>9. CASE App!UseElsewhere
    <2>1. config' \in Contexts /\ UNCHANGED <<up, shown, fallback, pin, previous, writes, offered, declined>>
      BY <1>9 DEF App!UseElsewhere
    <2>. QED
      BY <2>1 DEF DialogsKnown
  <1>. QED
    BY <1>1, <1>2, <1>3, <1>4, <1>5, <1>6, <1>7, <1>8, <1>9 DEF App!Next, App!Operator

LEMMA MailGrows ==
  ASSUME MailKnown, NEW new, \A m \in new : Sound(m), mail' \subseteq mail \cup new
  PROVE  MailKnown'
  BY DEF MailKnown, Sound

LEMMA MailGrowsByOne ==
  ASSUME MailKnown, NEW m, Sound(m), mail' \subseteq mail \cup {m}
  PROVE  MailKnown'
  BY DEF MailKnown, Sound

\* Messages that name neither a context nor a view.
LEMMA PlainIsSound ==
  ASSUME NEW what \in {"answer", "key", "unlocking", "ask key", "preview", "connect", "mouse", "error", "latest"},
         NEW of, NEW yes
  PROVE  Sound(App!Message(what, of, yes))
  BY DEF Sound, App!Message

LEMMA NavigationIsSound ==
  ASSUME NEW v \in App!Views, NEW yes
  PROVE  Sound(App!Message("navigate", v, yes))
  BY DEF Sound, App!Message

LEMMA ContextIsSound ==
  ASSUME NEW what \in {"switching", "switched", "changed", "loading", "drift"}, NEW c \in Contexts, NEW yes
  PROVE  Sound(App!Message(what, c, yes))
  BY DEF Sound, App!Message

LEMMA MailStep ==
  ASSUME DialogsKnown, MailKnown, App!Next
  PROVE  MailKnown'
  <1>0. pin \in Contexts /\ config \in Contexts
    BY DEF DialogsKnown
  <1>1. CASE mail' \subseteq mail
    BY <1>1 DEF MailKnown, Sound
  <1>2. ASSUME NEW k \in App!Keys, NEW d \in {"error", "update", "drift"}, App!DialogKey(d, k)
        PROVE  MailKnown'
    <2>1. mail' \subseteq mail \cup {App!Message("answer", d, k = "y")}
      BY <1>2 DEF App!DialogKey, App!Answers
    <2>. QED
      BY <2>1, PlainIsSound, MailGrowsByOne
  <1>3. ASSUME NEW k \in App!Keys, App!UnlockKey(k)
        PROVE  MailKnown'
    <2>1. mail' \subseteq mail \cup {App!Message("key", App!None, k = "enter")}
      BY <1>3 DEF App!UnlockKey
    <2>. QED
      BY <2>1, PlainIsSound, MailGrowsByOne
  <1>4. ASSUME NEW k \in App!Keys, App!CommandKey(k)
        PROVE  MailKnown'
    <2>1. \A m \in App!Commands : Sound(m)
      <3>1. ASSUME NEW m \in [what : {"navigate"}, of : App!Lists, yes : BOOLEAN]
            PROVE  Sound(m)
        BY DEF Sound, App!Views, App!Lists
      <3>2. ASSUME NEW m \in [what : {"ask key", "preview", "connect", "mouse", "error"}, of : {App!None}, yes : {TRUE}]
            PROVE  Sound(m)
        BY Zenon DEF Sound
      <3>. QED
        BY <3>1, <3>2, Zenon DEF App!Commands
    <2>2. mail' \subseteq mail \cup App!Commands
      BY <1>4 DEF App!CommandKey
    <2>. QED
      BY <2>1, <2>2, MailGrows
  <1>5. ASSUME NEW k \in App!Keys, App!ViewKey(k)
        PROVE  MailKnown'
    <2>1. mail' \subseteq mail \cup {App!Message("answer", "view", k = "y")}
      BY <1>5 DEF App!ViewKey, App!Answers
    <2>. QED
      BY <2>1, PlainIsSound, MailGrowsByOne
  <1>6. ASSUME NEW k \in App!Keys, App!OwnKey(k)
        PROVE  MailKnown'
    <2>1. \/ mail' \subseteq mail
          \/ mail' = mail \cup {App!Message("navigate", "services", FALSE)}
          \/ \E c \in Contexts : mail' = mail \cup {App!Message("switching", c, TRUE)}
      BY <1>6 DEF App!OwnKey
    <2>2. Sound(App!Message("navigate", "services", FALSE))
      BY NavigationIsSound DEF App!Views
    <2>3. \A c \in Contexts : Sound(App!Message("switching", c, TRUE))
      BY ContextIsSound
    <2>. QED
      BY <1>1, <2>1, <2>2, <2>3, MailGrowsByOne
  <1>7. CASE App!HelpKey
    <2>1. mail' \subseteq mail \cup {App!Message("navigate", "help", FALSE)}
      BY <1>7 DEF App!HelpKey
    <2>2. Sound(App!Message("navigate", "help", FALSE))
      BY NavigationIsSound DEF App!Views
    <2>. QED
      BY <2>1, <2>2, MailGrowsByOne
  <1>8. ASSUME NEW k \in App!Keys, App!ConnectKey(k) \/ App!OpenBar(k) \/ App!SearchKey(k)
        PROVE  mail' \subseteq mail
    BY <1>8 DEF App!ConnectKey, App!OpenBar, App!SearchKey
  <1>9. CASE App!EscKey \/ App!RightClick \/ App!FullscreenKey \/ App!ConnectAppKey \/ App!QuitKey
             \/ App!ClickBreadcrumb \/ App!Resize
    <2>1. mail' \subseteq mail
      BY <1>9 DEF App!EscKey, App!RightClick, App!Esc, App!FullscreenKey, App!ConnectAppKey, App!QuitKey,
                  App!ClickBreadcrumb, App!Resize
    <2>. QED
      BY <1>1, <2>1
  <1>10. ASSUME NEW m \in mail, App!Deliver(m)
         PROVE  MailKnown'
    <2>1. CASE App!RunSwitch(m)
      <3>1. mail' \subseteq mail \cup {App!Message("switched", pin, TRUE)}
        BY <2>1 DEF App!RunSwitch, App!Took
      <3>. QED
        BY <1>0, <3>1, ContextIsSound, MailGrowsByOne
    <2>2. CASE App!Switched(m)
      <3>1. m.of \in Contexts
        BY <2>2 DEF App!Switched, MailKnown, Sound
      <3>2. mail' \subseteq mail \cup {App!Message("changed", m.of, TRUE)}
        BY <2>2 DEF App!Switched, App!Took
      <3>. QED
        BY <3>1, <3>2, ContextIsSound, MailGrowsByOne
    <2>3. CASE App!ContextChanged(m)
      <3>1. mail' \subseteq mail \cup {App!Loading(pin)}
        BY <2>3 DEF App!ContextChanged, App!EnterContext, App!Took
      <3>. QED
        BY <1>0, <3>1, ContextIsSound, MailGrowsByOne DEF App!Loading
    <2>4. CASE App!Answered(m)
      <3>1. \/ mail' \subseteq mail
            \/ "drift" \in up /\ pin' = offered /\ mail' \subseteq mail \cup {App!Loading(pin')}
        BY <2>4 DEF App!Answered, App!EnterContext, App!Took
      <3>2. "drift" \in up => offered \in Contexts
        BY DEF DialogsKnown
      <3>. QED
        BY <1>1, <3>1, <3>2, ContextIsSound, MailGrowsByOne DEF App!Loading
    <2>5. CASE App!UnlockAnswered(m)
      <3>1. mail' \subseteq mail \cup {App!Message("unlocking", App!None, TRUE)}
        BY <2>5 DEF App!UnlockAnswered, App!Took
      <3>. QED
        BY <3>1, PlainIsSound, MailGrowsByOne
    <2>6. CASE App!UnlockResult(m)
      <3>1. mail' \subseteq mail \cup {App!Loading(pin)}
        BY <2>6 DEF App!UnlockResult, App!Took
      <3>. QED
        BY <1>0, <3>1, ContextIsSound, MailGrowsByOne DEF App!Loading
    <2>7. CASE App!SnapshotLoaded(m) \/ App!SnapshotNotLoaded(m) \/ App!Navigate(m) \/ App!OpenDialog(m)
               \/ App!ContextDrift(m)
      <3>1. mail' \subseteq mail
        BY <2>7 DEF App!SnapshotLoaded, App!SnapshotNotLoaded, App!Navigate, App!OpenDialog, App!ContextDrift, App!Took
      <3>. QED
        BY <1>1, <3>1
    <2>. QED
      BY <1>10, <2>1, <2>2, <2>3, <2>4, <2>5, <2>6, <2>7 DEF App!Deliver
  <1>11. CASE App!CheckDrift
    <2>1. PICK c \in Contexts \cup {App!None}, yes \in BOOLEAN : mail' = mail \cup {App!Message("drift", c, yes)}
      BY <1>0, <1>11 DEF App!CheckDrift, App!Sent
    <2>2. Sound(App!Message("drift", c, yes))
      BY DEF Sound, App!Message
    <2>. QED
      BY <2>1, <2>2, MailGrowsByOne
  <1>12. CASE App!Outside
    <2>1. PICK what \in {"latest", "error"} : mail' = mail \cup {App!Message(what, App!None, TRUE)}
      BY <1>12 DEF App!Outside, App!Sent
    <2>. QED
      BY <2>1, PlainIsSound, MailGrowsByOne
  <1>13. CASE App!UseElsewhere
    BY <1>1, <1>13 DEF App!UseElsewhere, App!Sent
  <1>. QED
    BY <1>1, <1>2, <1>3, <1>4, <1>5, <1>6, <1>7, <1>8, <1>9, <1>10, <1>11, <1>12, <1>13 DEF App!Next, App!Operator

LEMMA CountsStep ==
  ASSUME CountsKnown, App!Next
  PROVE  CountsKnown'
  <1>1. mouseOn' = mouseOn \/ mouseOn' = ~mouseOn
    BY DEF App!Next, App!Operator, App!DialogKey, App!UnlockKey, App!ConnectKey, App!OpenBar, App!CommandKey,
           App!SearchKey, App!ViewKey, App!OwnKey, App!EscKey, App!RightClick, App!Esc, App!HelpKey, App!FullscreenKey,
           App!ConnectAppKey, App!QuitKey, App!ClickBreadcrumb, App!Resize, App!Deliver, App!RunSwitch, App!Switched,
           App!ContextChanged, App!SnapshotLoaded, App!SnapshotNotLoaded, App!Navigate, App!Answered,
           App!UnlockAnswered, App!UnlockResult, App!OpenDialog, App!ContextDrift, App!CheckDrift, App!Outside,
           App!UseElsewhere
  <1>2. quit' = quit \/ quit' = TRUE
    BY DEF App!Next, App!Operator, App!DialogKey, App!UnlockKey, App!ConnectKey, App!OpenBar, App!CommandKey,
           App!SearchKey, App!ViewKey, App!OwnKey, App!EscKey, App!RightClick, App!Esc, App!HelpKey, App!FullscreenKey,
           App!ConnectAppKey, App!QuitKey, App!ClickBreadcrumb, App!Resize, App!Deliver, App!RunSwitch, App!Switched,
           App!ContextChanged, App!EnterContext, App!SnapshotLoaded, App!SnapshotNotLoaded, App!Navigate, App!Answered,
           App!UnlockAnswered, App!UnlockResult, App!OpenDialog, App!ContextDrift, App!CheckDrift, App!Outside,
           App!UseElsewhere, App!Took, App!Sent
  <1>3. keys' = keys \/ (keys < MaxKeys /\ keys' = keys + 1)
    BY DEF App!Next, App!Operator, App!DialogKey, App!UnlockKey, App!ConnectKey, App!OpenBar, App!CommandKey,
           App!SearchKey, App!ViewKey, App!OwnKey, App!EscKey, App!RightClick, App!Esc, App!HelpKey, App!FullscreenKey,
           App!ConnectAppKey, App!QuitKey, App!ClickBreadcrumb, App!Resize, App!Deliver, App!RunSwitch, App!Switched,
           App!ContextChanged, App!EnterContext, App!SnapshotLoaded, App!SnapshotNotLoaded, App!Navigate, App!Answered,
           App!UnlockAnswered, App!UnlockResult, App!OpenDialog, App!ContextDrift, App!CheckDrift, App!Outside,
           App!UseElsewhere, App!Took, App!Sent, App!Pressed
  <1>4. mouseOn' \in BOOLEAN
    BY <1>1, Zenon DEF CountsKnown
  <1>5. quit' \in BOOLEAN
    BY <1>2, Zenon DEF CountsKnown
  <1>6. keys' \in 0..MaxKeys
    BY <1>3, AppAssumption DEF CountsKnown
  <1>. QED
    BY <1>4, <1>5, <1>6 DEF CountsKnown

LEMMA AppIsTyped == AppInv => App!TypeOK /\ App!FitsTheScreen /\ App!OneBar
  <1>. SUFFICES ASSUME AppInv
               PROVE  App!TypeOK /\ App!FitsTheScreen /\ App!OneBar
    OBVIOUS
  <1>1. App!FitsTheScreen /\ App!OneBar
    BY DEF AppInv, LayoutKnown, BarsKnown
  <1>2. up \subseteq App!ToSet(App!Dialogs)
    BY DialogsNamed DEF AppInv, DialogsKnown
  <1>3. reserved \in BOOLEAN
    BY <1>1, BarIsBoolean, Zenon DEF App!FitsTheScreen
  <1>4. /\ screen \in App!Seen /\ below \in Seq(App!Seen) /\ Len(below) <= Deepest
        /\ fullscreen \in BOOLEAN /\ terminal \in 1..2
        /\ command \in BOOLEAN /\ search \in {"hidden", "editing", "passive"}
    BY Zenon DEF AppInv, LayoutKnown, BarsKnown, SizeKnown, ViewsKnown
  <1>5. DialogsKnown /\ CountsKnown
    BY DEF AppInv
  <1>6. App!TypeOK
    BY <1>2, <1>3, <1>4, <1>5, Zenon DEF DialogsKnown, CountsKnown, App!TypeOK
  <1>. QED
    BY <1>1, <1>6

LEMMA AppStep == AppInv /\ [App!Next]_app => AppInv'
  <1>1. ASSUME AppInv, App!Next
        PROVE  AppInv'
    BY <1>1, LayoutStep, DialogsStep, MailStep, CountsStep DEF AppInv
  <1>2. ASSUME AppInv, UNCHANGED app
        PROVE  AppInv'
    <2>1. LayoutKnown'
      BY <1>2, LeftFits DEF AppInv, LayoutLeft, app
    <2>2. DialogsKnown' /\ MailKnown' /\ CountsKnown'
      BY <1>2 DEF AppInv, DialogsKnown, MailKnown, Sound, CountsKnown, app
    <2>. QED
      BY <2>1, <2>2 DEF AppInv
  <1>. QED
    BY <1>1, <1>2

\* Whatever opens, closes, resizes, navigates or goes back, in whatever order, the view on the
\* screen has the room the layout leaves it, at most one input bar is open, and the stack of
\* views stays within its bound (app package: resizeToTerminal, handleViewResize, switchToView).
THEOREM LayoutFits == Spec => []FitsTheScreen
  <1>1. Init => AppInv
    BY AppInit DEF Init
  <1>2. AppInv /\ [Next]_vars => AppInv'
    BY AppStep DEF Next, vars
  <1>3. AppInv => FitsTheScreen
    BY AppIsTyped DEF FitsTheScreen
  <1>. QED
    BY <1>1, <1>2, <1>3, PTL DEF Spec

\* The sequences that the commands are made of, put together.
LEMMA Join13 ==
  ASSUME NEW a1, NEW b1, NEW b2, NEW b3
  PROVE  <<a1>> \o <<b1, b2, b3>> = <<a1, b1, b2, b3>>
  <1>. DEFINE S == {a1, b1, b2, b3}
              s == <<a1>>
              t == <<b1, b2, b3>>
              u == s \o t
  <1>1. s \in Seq(S) /\ Len(s) = 1 /\ s[1] = a1
    OBVIOUS
  <1>2. t \in Seq(S) /\ Len(t) = 3 /\ t[1] = b1 /\ t[2] = b2 /\ t[3] = b3
    OBVIOUS
  <1>. HIDE DEF s, t, S
  <1>3. u \in Seq(S) /\ Len(u) = Len(s) + Len(t)
        /\ \A i \in 1..Len(s) + Len(t) : u[i] = IF i <= Len(s) THEN s[i] ELSE t[i - Len(s)]
    <2>1. s \in Seq(S) /\ t \in Seq(S)
      BY <1>1, <1>2
    <2>. HIDE DEF s, t
    <2>. QED
      BY <2>1, ConcatProperties, Zenon
  <1>. HIDE DEF u
  <1>4. u[1] = a1 /\ u[2] = b1 /\ u[3] = b2 /\ u[4] = b3
    BY <1>1, <1>2, <1>3
  <1>5. Len(u) = 4
    BY <1>1, <1>2, <1>3
  <1>6. u \in Seq(S)
    BY <1>3
  <1>7. u = <<a1, b1, b2, b3>>
    BY <1>4, <1>5, <1>6
  <1>. QED
    BY <1>7 DEF u, s, t

LEMMA Join32 ==
  ASSUME NEW a1, NEW a2, NEW a3, NEW b1, NEW b2
  PROVE  <<a1, a2, a3>> \o <<b1, b2>> = <<a1, a2, a3, b1, b2>>
  <1>. DEFINE S == {a1, a2, a3, b1, b2}
              s == <<a1, a2, a3>>
              t == <<b1, b2>>
              u == s \o t
  <1>1. s \in Seq(S) /\ Len(s) = 3 /\ s[1] = a1 /\ s[2] = a2 /\ s[3] = a3
    OBVIOUS
  <1>2. t \in Seq(S) /\ Len(t) = 2 /\ t[1] = b1 /\ t[2] = b2
    OBVIOUS
  <1>. HIDE DEF s, t, S
  <1>3. u \in Seq(S) /\ Len(u) = Len(s) + Len(t)
        /\ \A i \in 1..Len(s) + Len(t) : u[i] = IF i <= Len(s) THEN s[i] ELSE t[i - Len(s)]
    <2>1. s \in Seq(S) /\ t \in Seq(S)
      BY <1>1, <1>2
    <2>. HIDE DEF s, t
    <2>. QED
      BY <2>1, ConcatProperties, Zenon
  <1>. HIDE DEF u
  <1>4. u[1] = a1 /\ u[2] = a2 /\ u[3] = a3 /\ u[4] = b1 /\ u[5] = b2
    BY <1>1, <1>2, <1>3
  <1>5. Len(u) = 5
    BY <1>1, <1>2, <1>3
  <1>6. u \in Seq(S)
    BY <1>3
  <1>7. u = <<a1, a2, a3, b1, b2>>
    BY <1>4, <1>5, <1>6
  <1>. QED
    BY <1>7 DEF u, s, t

LEMMA Join33 ==
  ASSUME NEW a1, NEW a2, NEW a3, NEW b1, NEW b2, NEW b3
  PROVE  <<a1, a2, a3>> \o <<b1, b2, b3>> = <<a1, a2, a3, b1, b2, b3>>
  <1>. DEFINE S == {a1, a2, a3, b1, b2, b3}
              s == <<a1, a2, a3>>
              t == <<b1, b2, b3>>
              u == s \o t
  <1>1. s \in Seq(S) /\ Len(s) = 3 /\ s[1] = a1 /\ s[2] = a2 /\ s[3] = a3
    OBVIOUS
  <1>2. t \in Seq(S) /\ Len(t) = 3 /\ t[1] = b1 /\ t[2] = b2 /\ t[3] = b3
    OBVIOUS
  <1>. HIDE DEF s, t, S
  <1>3. u \in Seq(S) /\ Len(u) = Len(s) + Len(t)
        /\ \A i \in 1..Len(s) + Len(t) : u[i] = IF i <= Len(s) THEN s[i] ELSE t[i - Len(s)]
    <2>1. s \in Seq(S) /\ t \in Seq(S)
      BY <1>1, <1>2
    <2>. HIDE DEF s, t
    <2>. QED
      BY <2>1, ConcatProperties, Zenon
  <1>. HIDE DEF u
  <1>4. u[1] = a1 /\ u[2] = a2 /\ u[3] = a3 /\ u[4] = b1 /\ u[5] = b2 /\ u[6] = b3
    BY <1>1, <1>2, <1>3
  <1>5. Len(u) = 6
    BY <1>1, <1>2, <1>3
  <1>6. u \in Seq(S)
    BY <1>3
  <1>7. u = <<a1, a2, a3, b1, b2, b3>>
    BY <1>4, <1>5, <1>6
  <1>. QED
    BY <1>7 DEF u, s, t

LEMMA Join53 ==
  ASSUME NEW a1, NEW a2, NEW a3, NEW a4, NEW a5, NEW b1, NEW b2, NEW b3
  PROVE  <<a1, a2, a3, a4, a5>> \o <<b1, b2, b3>> = <<a1, a2, a3, a4, a5, b1, b2, b3>>
  <1>. DEFINE S == {a1, a2, a3, a4, a5, b1, b2, b3}
              s == <<a1, a2, a3, a4, a5>>
              t == <<b1, b2, b3>>
              u == s \o t
  <1>1. s \in Seq(S) /\ Len(s) = 5 /\ s[1] = a1 /\ s[2] = a2 /\ s[3] = a3 /\ s[4] = a4 /\ s[5] = a5
    OBVIOUS
  <1>2. t \in Seq(S) /\ Len(t) = 3 /\ t[1] = b1 /\ t[2] = b2 /\ t[3] = b3
    OBVIOUS
  <1>. HIDE DEF s, t, S
  <1>3. u \in Seq(S) /\ Len(u) = Len(s) + Len(t)
        /\ \A i \in 1..Len(s) + Len(t) : u[i] = IF i <= Len(s) THEN s[i] ELSE t[i - Len(s)]
    <2>1. s \in Seq(S) /\ t \in Seq(S)
      BY <1>1, <1>2
    <2>. HIDE DEF s, t
    <2>. QED
      BY <2>1, ConcatProperties, Zenon
  <1>. HIDE DEF u
  <1>4. u[1] = a1 /\ u[2] = a2 /\ u[3] = a3 /\ u[4] = a4 /\ u[5] = a5 /\ u[6] = b1 /\ u[7] = b2 /\ u[8] = b3
    BY <1>1, <1>2, <1>3
  <1>5. Len(u) = 8
    BY <1>1, <1>2, <1>3
  <1>6. u \in Seq(S)
    BY <1>3
  <1>7. u = <<a1, a2, a3, a4, a5, b1, b2, b3>>
    BY <1>4, <1>5, <1>6
  <1>. QED
    BY <1>7 DEF u, s, t

-----------------------------------------------------------------------------
(***************************************************************************)
(* The chart repositories: what a command has left to do                   *)
(***************************************************************************)
Loaded == {<<>>, <<"resolve", "read", "pull">>, <<"read", "pull">>}    \* what may follow, and what an error falls back to

Resolving == {<<"resolve", "read", "pull">>}
Reading == {<<"read", "pull">>}
Pulling == {<<"pull">>}
Ensuring == {<<"ensure", "resolve", "read", "pull">>}

\* `repo update`, and the refreshes of an apply and of a load.
Updating == {<<"list", "fetch", "write">>}
Listing == {<<"list", "fetch", "write", "resolve", "read", "pull">>, <<"list", "fetch", "write", "read", "pull">>}
Fetching == {<<"fetch", "write">>, <<"fetch", "write", "resolve", "read", "pull">>, <<"fetch", "write", "read", "pull">>}
Writing == {<<"write">>, <<"write", "resolve", "read", "pull">>, <<"write", "read", "pull">>}

\* `repo add`, and that of an apply.
Adding == {<<"may-add", "fetch", "write", "truncate", "save">>,
           <<"may-add", "fetch", "write", "truncate", "save", "resolve", "read", "pull">>}
AddFetching == {<<"fetch", "write", "truncate", "save">>,
                <<"fetch", "write", "truncate", "save", "resolve", "read", "pull">>}
AddWriting == {<<"write", "truncate", "save">>, <<"write", "truncate", "save", "resolve", "read", "pull">>}
AddTruncating == {<<"truncate", "save">>, <<"truncate", "save", "resolve", "read", "pull">>}
AddSaving == {<<"save">>, <<"save", "resolve", "read", "pull">>}

Removing == {<<"may-remove", "truncate", "save", "unlink">>}
RemoveTruncating == {<<"truncate", "save", "unlink">>}
RemoveSaving == {<<"save", "unlink">>}
Unlinking == {<<"unlink">>}

Adds == Adding \cup AddFetching \cup AddWriting \cup AddTruncating \cup AddSaving
Removes == Removing \cup RemoveTruncating \cup RemoveSaving \cup Unlinking

\* Those that need the URL, which they were given or took from repos.json.
UrlKnown == Reading \cup Pulling \cup Ensuring \cup Listing \cup Fetching \cup Writing \cup Adds

Todos == {<<>>} \cup Resolving \cup Updating \cup UrlKnown \cup Removes

LEMMA HeadsOfLoads ==
  /\ \A t \in Resolving : Head(t) = "resolve"
  /\ \A t \in Reading : Head(t) = "read"
  /\ \A t \in Pulling : Head(t) = "pull"
  /\ \A t \in Ensuring : Head(t) = "ensure"
  BY DEF Resolving, Reading, Pulling, Ensuring

LEMMA HeadsOfRefreshes ==
  /\ \A t \in Updating \cup Listing : Head(t) = "list"
  /\ \A t \in Fetching : Head(t) = "fetch"
  /\ \A t \in Writing : Head(t) = "write"
  BY DEF Updating, Listing, Fetching, Writing

LEMMA HeadsOfAdds ==
  /\ \A t \in Adding : Head(t) = "may-add"
  /\ \A t \in AddFetching : Head(t) = "fetch"
  /\ \A t \in AddWriting : Head(t) = "write"
  /\ \A t \in AddTruncating : Head(t) = "truncate"
  /\ \A t \in AddSaving : Head(t) = "save"
  BY DEF Adding, AddFetching, AddWriting, AddTruncating, AddSaving

LEMMA HeadsOfRemoves ==
  /\ \A t \in Removing : Head(t) = "may-remove"
  /\ \A t \in RemoveTruncating : Head(t) = "truncate"
  /\ \A t \in RemoveSaving : Head(t) = "save"
  /\ \A t \in Unlinking : Head(t) = "unlink"
  BY DEF Removing, RemoveTruncating, RemoveSaving, Unlinking

LEMMA TailsOfLoads ==
  /\ \A t \in Resolving : Tail(t) \in Reading
  /\ \A t \in Reading : Tail(t) \in Pulling
  /\ \A t \in Pulling : Tail(t) = <<>>
  /\ \A t \in Ensuring : Tail(t) = <<"resolve", "read", "pull">>
  <1>1. \A t \in Resolving : Tail(t) \in Reading
    <2>1. Tail(<<"resolve", "read", "pull">>) = <<"read", "pull">>
      OBVIOUS
    <2>. QED
      BY <2>1, Zenon DEF Resolving, Reading
  <1>2. \A t \in Reading : Tail(t) \in Pulling
    <2>1. Tail(<<"read", "pull">>) = <<"pull">>
      OBVIOUS
    <2>. QED
      BY <2>1, Zenon DEF Reading, Pulling
  <1>3. \A t \in Pulling : Tail(t) = <<>>
    <2>1. Tail(<<"pull">>) = <<>>
      OBVIOUS
    <2>. QED
      BY <2>1, Zenon DEF Pulling
  <1>4. \A t \in Ensuring : Tail(t) = <<"resolve", "read", "pull">>
    <2>1. Tail(<<"ensure", "resolve", "read", "pull">>) = <<"resolve", "read", "pull">>
      OBVIOUS
    <2>. QED
      BY <2>1, Zenon DEF Ensuring
  <1>. QED
    BY <1>1, <1>2, <1>3, <1>4

LEMMA TailsOfRefreshes ==
  /\ \A t \in Updating \cup Listing : Tail(t) \in Fetching
  /\ \A t \in Fetching : Tail(t) \in Writing
  /\ \A t \in Writing : Tail(t) \in Loaded
  <1>1. \A t \in Updating \cup Listing : Tail(t) \in Fetching
    <2>1. Tail(<<"list", "fetch", "write">>) = <<"fetch", "write">>
      OBVIOUS
    <2>2. Tail(<<"list", "fetch", "write", "resolve", "read", "pull">>) = <<"fetch", "write", "resolve", "read", "pull">>
      OBVIOUS
    <2>3. Tail(<<"list", "fetch", "write", "read", "pull">>) = <<"fetch", "write", "read", "pull">>
      OBVIOUS
    <2>. QED
      BY <2>1, <2>2, <2>3, Zenon DEF Updating, Listing, Fetching
  <1>2. \A t \in Fetching : Tail(t) \in Writing
    <2>1. Tail(<<"fetch", "write">>) = <<"write">>
      OBVIOUS
    <2>2. Tail(<<"fetch", "write", "resolve", "read", "pull">>) = <<"write", "resolve", "read", "pull">>
      OBVIOUS
    <2>3. Tail(<<"fetch", "write", "read", "pull">>) = <<"write", "read", "pull">>
      OBVIOUS
    <2>. QED
      BY <2>1, <2>2, <2>3, Zenon DEF Fetching, Writing
  <1>3. \A t \in Writing : Tail(t) \in Loaded
    <2>1. Tail(<<"write">>) = <<>>
      OBVIOUS
    <2>2. Tail(<<"write", "resolve", "read", "pull">>) = <<"resolve", "read", "pull">>
      OBVIOUS
    <2>3. Tail(<<"write", "read", "pull">>) = <<"read", "pull">>
      OBVIOUS
    <2>. QED
      BY <2>1, <2>2, <2>3, Zenon DEF Writing, Loaded
  <1>. QED
    BY <1>1, <1>2, <1>3

LEMMA TailsOfAdds ==
  /\ \A t \in Adding : Tail(t) \in AddFetching
  /\ \A t \in AddFetching : Tail(t) \in AddWriting
  /\ \A t \in AddWriting : Tail(t) \in AddTruncating
  /\ \A t \in AddTruncating : Tail(t) \in AddSaving
  /\ \A t \in AddSaving : Tail(t) \in {<<>>} \cup Resolving
  <1>1. \A t \in Adding : Tail(t) \in AddFetching
    <2>1. Tail(<<"may-add", "fetch", "write", "truncate", "save">>) = <<"fetch", "write", "truncate", "save">>
      OBVIOUS
    <2>2. Tail(<<"may-add", "fetch", "write", "truncate", "save", "resolve", "read", "pull">>) = <<"fetch", "write", "truncate", "save", "resolve", "read", "pull">>
      OBVIOUS
    <2>. QED
      BY <2>1, <2>2, Zenon DEF Adding, AddFetching
  <1>2. \A t \in AddFetching : Tail(t) \in AddWriting
    <2>1. Tail(<<"fetch", "write", "truncate", "save">>) = <<"write", "truncate", "save">>
      OBVIOUS
    <2>2. Tail(<<"fetch", "write", "truncate", "save", "resolve", "read", "pull">>) = <<"write", "truncate", "save", "resolve", "read", "pull">>
      OBVIOUS
    <2>. QED
      BY <2>1, <2>2, Zenon DEF AddFetching, AddWriting
  <1>3. \A t \in AddWriting : Tail(t) \in AddTruncating
    <2>1. Tail(<<"write", "truncate", "save">>) = <<"truncate", "save">>
      OBVIOUS
    <2>2. Tail(<<"write", "truncate", "save", "resolve", "read", "pull">>) = <<"truncate", "save", "resolve", "read", "pull">>
      OBVIOUS
    <2>. QED
      BY <2>1, <2>2, Zenon DEF AddWriting, AddTruncating
  <1>4. \A t \in AddTruncating : Tail(t) \in AddSaving
    <2>1. Tail(<<"truncate", "save">>) = <<"save">>
      OBVIOUS
    <2>2. Tail(<<"truncate", "save", "resolve", "read", "pull">>) = <<"save", "resolve", "read", "pull">>
      OBVIOUS
    <2>. QED
      BY <2>1, <2>2, Zenon DEF AddTruncating, AddSaving
  <1>5. \A t \in AddSaving : Tail(t) \in {<<>>} \cup Resolving
    <2>1. Tail(<<"save">>) = <<>>
      OBVIOUS
    <2>2. Tail(<<"save", "resolve", "read", "pull">>) = <<"resolve", "read", "pull">>
      OBVIOUS
    <2>. QED
      BY <2>1, <2>2, Zenon DEF AddSaving, Resolving
  <1>. QED
    BY <1>1, <1>2, <1>3, <1>4, <1>5

LEMMA TailsOfRemoves ==
  /\ \A t \in Removing : Tail(t) \in RemoveTruncating
  /\ \A t \in RemoveTruncating : Tail(t) \in RemoveSaving
  /\ \A t \in RemoveSaving : Tail(t) \in Unlinking
  /\ \A t \in Unlinking : Tail(t) = <<>>
  <1>1. \A t \in Removing : Tail(t) \in RemoveTruncating
    <2>1. Tail(<<"may-remove", "truncate", "save", "unlink">>) = <<"truncate", "save", "unlink">>
      OBVIOUS
    <2>. QED
      BY <2>1, Zenon DEF Removing, RemoveTruncating
  <1>2. \A t \in RemoveTruncating : Tail(t) \in RemoveSaving
    <2>1. Tail(<<"truncate", "save", "unlink">>) = <<"save", "unlink">>
      OBVIOUS
    <2>. QED
      BY <2>1, Zenon DEF RemoveTruncating, RemoveSaving
  <1>3. \A t \in RemoveSaving : Tail(t) \in Unlinking
    <2>1. Tail(<<"save", "unlink">>) = <<"unlink">>
      OBVIOUS
    <2>. QED
      BY <2>1, Zenon DEF RemoveSaving, Unlinking
  <1>4. \A t \in Unlinking : Tail(t) = <<>>
    <2>1. Tail(<<"unlink">>) = <<>>
      OBVIOUS
    <2>. QED
      BY <2>1, Zenon DEF Unlinking
  <1>. QED
    BY <1>1, <1>2, <1>3, <1>4

LEMMA NothingLeft == \A t \in UrlKnown \cup Removes \cup Resolving \cup Updating : t # <<>>
  <1>1. \A t \in Resolving : t # <<>>
    BY DEF Resolving
  <1>2. \A t \in Reading : t # <<>>
    BY DEF Reading
  <1>3. \A t \in Pulling : t # <<>>
    BY DEF Pulling
  <1>4. \A t \in Ensuring : t # <<>>
    BY DEF Ensuring
  <1>5. \A t \in Updating : t # <<>>
    BY DEF Updating
  <1>6. \A t \in Listing : t # <<>>
    BY DEF Listing
  <1>7. \A t \in Fetching : t # <<>>
    BY DEF Fetching
  <1>8. \A t \in Writing : t # <<>>
    BY DEF Writing
  <1>9. \A t \in Adding : t # <<>>
    BY DEF Adding
  <1>10. \A t \in AddFetching : t # <<>>
    BY DEF AddFetching
  <1>11. \A t \in AddWriting : t # <<>>
    BY DEF AddWriting
  <1>12. \A t \in AddTruncating : t # <<>>
    BY DEF AddTruncating
  <1>13. \A t \in AddSaving : t # <<>>
    BY DEF AddSaving
  <1>14. \A t \in Removing : t # <<>>
    BY DEF Removing
  <1>15. \A t \in RemoveTruncating : t # <<>>
    BY DEF RemoveTruncating
  <1>16. \A t \in RemoveSaving : t # <<>>
    BY DEF RemoveSaving
  <1>17. \A t \in Unlinking : t # <<>>
    BY DEF Unlinking
  <1>. QED
    BY <1>1, <1>2, <1>3, <1>4, <1>5, <1>6, <1>7, <1>8, <1>9, <1>10, <1>11, <1>12, <1>13, <1>14, <1>15, <1>16, <1>17
    DEF UrlKnown, Removes, Adds

\* What shares its first step with another is told from it by the rest.
LEMMA Apart ==
  /\ Fetching \cap AddFetching = {} /\ Writing \cap AddWriting = {}
  /\ AddTruncating \cap RemoveTruncating = {} /\ AddSaving \cap RemoveSaving = {}
  BY DEF Fetching, AddFetching, Writing, AddWriting, AddTruncating, RemoveTruncating, AddSaving, RemoveSaving

LEMMA PutTogether ==
  /\ <<"ensure">> \o Repo!Load \in Ensuring
  /\ Repo!Refresh \o <<"resolve", "read", "pull">> \in Listing
  /\ Repo!Refresh \o <<"read", "pull">> \in Listing
  /\ Repo!Add \o <<"resolve", "read", "pull">> \in Adding
  <1>1. <<"ensure">> \o <<"resolve", "read", "pull">> = <<"ensure", "resolve", "read", "pull">>
    BY Join13, Zenon
  <1>2. <<"list", "fetch", "write">> \o <<"resolve", "read", "pull">>
        = <<"list", "fetch", "write", "resolve", "read", "pull">>
    BY Join33
  <1>3. <<"list", "fetch", "write">> \o <<"read", "pull">> = <<"list", "fetch", "write", "read", "pull">>
    BY Join32, Zenon
  <1>4. <<"may-add", "fetch", "write", "truncate", "save">> \o <<"resolve", "read", "pull">>
        = <<"may-add", "fetch", "write", "truncate", "save", "resolve", "read", "pull">>
    BY Join53
  <1>. QED
    BY <1>1, <1>2, <1>3, <1>4, Zenon DEF Repo!Load, Repo!Refresh, Repo!Add, Ensuring, Listing, Adding

-----------------------------------------------------------------------------
(***************************************************************************)
(* The chart repositories: what is published, kept and loaded              *)
(***************************************************************************)
NoUrl == Repo!None
Indexes == [url : Urls \cup {Repo!Absent}, entries : Seq(Nat)]
RunRecords ==
  [todo : Todos, otherwise : Loaded, url : Urls \cup {NoUrl}, version : Nat, always : BOOLEAN, refreshed : BOOLEAN,
   fetched : Indexes, entry : [version : Nat, content : Nat, digest : BOOLEAN], tries : 0..Retries,
   loaded : 0..MaxContents]

\* What a list of versions holds was published under those versions.
Listed(entries, known) == \A v \in DOMAIN entries : [version |-> v, content |-> entries[v]] \in known

\* A content is published once; a version more needs a content more.
PublishedKnown ==
  /\ published \in [Urls -> Seq(Nat)] /\ IsFiniteSet(ever) /\ Cardinality(ever) \in 0..MaxContents
  /\ \A u \in Urls : Listed(published[u], ever) /\ Len(published[u]) <= Cardinality(ever)
  /\ ever \subseteq [version : 1..Cardinality(ever), content : 1..Cardinality(ever)]

StoreKnown ==
  /\ repos \in Urls \cup {Repo!Absent, Repo!None, Repo!Torn}
  /\ index \in Indexes /\ Listed(index.entries, ever)
  /\ \A c \in DOMAIN archives : archives[c] \in {Repo!Spoilt, c}
  /\ commands \in 0..MaxCommands

\* A command that is about to pull has chosen an entry of an index, and one that has loaded
\* took what that entry names, or at least what its version was published with.
Chosen(r, known) ==
  /\ [version |-> r.entry.version, content |-> r.entry.content] \in known
  /\ r.version # 0 => r.entry.version = r.version

LoadedAsChosen(r, known) ==
  /\ [version |-> r.entry.version, content |-> r.loaded] \in known
  /\ r.version # 0 => r.entry.version = r.version
  /\ r.entry.digest => r.loaded = r.entry.content

RunOk(r, known) ==
  /\ r.otherwise # <<>> \/ r.todo \in UrlKnown => r.url \in Urls
  /\ r.todo \in Removes => r.url = NoUrl
  /\ Listed(r.fetched.entries, known)
  /\ r.todo \in Pulling => Chosen(r, known)
  /\ r.todo # <<>> => r.loaded = 0
  /\ r.loaded # 0 => LoadedAsChosen(r, known)

RunsKnown ==
  /\ run \in [Programs -> RunRecords]
  /\ \A p \in Programs : RunOk(run[p], ever)

\* Where commands do not overlap: a refresh goes to the URL that is configured, and an add
\* configures the one whose index it has put in the cache.
CacheOk(r, at, cached) ==
  /\ r.todo \in Fetching \cup Writing => at = r.url
  /\ r.todo \in Writing \cup AddWriting => r.fetched.url = r.url
  /\ r.todo \in AddFetching \cup AddWriting \cup AddTruncating \cup AddSaving => at \notin Urls
  /\ r.todo \in AddTruncating \cup AddSaving => cached.url = r.url

CacheRight(at, cached) == at \in Urls /\ cached # Repo!NoIndex => cached.url = at

Resting(p) == run[p].todo = <<>>

CacheInv ==
  /\ repos = Repo!Absent => index = Repo!NoIndex /\ \A p \in Programs : Resting(p)
  /\ ~overlapped => /\ \A p, q \in Programs : p # q => Resting(p) \/ Resting(q)
                    /\ CacheRight(repos, index)
                    /\ \A p \in Programs : CacheOk(run[p], repos, index)

RepoInv == PublishedKnown /\ StoreKnown /\ RunsKnown /\ CacheInv

LEMMA RepoNumbers == MaxContents \in Nat /\ MaxCommands \in Nat /\ Retries \in Nat
  BY RepoAssumption

LEMMA Markers ==
  /\ Repo!Absent \notin Urls /\ Repo!None \notin Urls /\ Repo!Torn \notin Urls /\ Seeded \in Urls
  /\ Repo!None # Repo!Absent /\ Repo!Torn # Repo!Absent
  <1>1. Repo!None # Repo!Absent
    BY Zenon DEF Repo!None, Repo!Absent
  <1>2. Repo!Torn # Repo!Absent
    BY Zenon DEF Repo!Torn, Repo!Absent
  <1>. QED
    BY <1>1, <1>2, RepoAssumption

LEMMA RepoCounts == Cardinality(ever) = Repo!Cardinality(ever)
  BY DEF Cardinality, Repo!Cardinality

LEMMA NoEntries == \A known : Listed(<<>>, known)
  BY DEF Listed

LEMMA NoIndexKnown == Repo!NoIndex \in Indexes /\ Repo!NoIndex.entries = <<>>
  BY DEF Repo!NoIndex, Indexes

\* The command that does nothing, and what is left of one that has loaded.
LEMMA IdleKnown ==
  /\ Repo!Idle \in RunRecords
  /\ Repo!Idle.todo = <<>> /\ Repo!Idle.otherwise = <<>> /\ Repo!Idle.loaded = 0
  /\ Repo!Idle.fetched = Repo!NoIndex /\ Repo!Idle.url = NoUrl
  <1>1. <<>> \in Todos /\ <<>> \in Loaded
    BY DEF Todos, Loaded
  <1>2. 0 \in 0..Retries /\ 0 \in 0..MaxContents
    BY RepoNumbers
  <1>3. [version |-> 0, content |-> 0, digest |-> FALSE] \in [version : Nat, content : Nat, digest : BOOLEAN]
    OBVIOUS
  <1>. QED
    BY <1>1, <1>2, <1>3, NoIndexKnown DEF Repo!Idle, RunRecords, NoUrl

LEMMA RestingOk ==
  ASSUME NEW known
  PROVE  RunOk(Repo!Idle, known)
  <1>1. <<>> \notin UrlKnown /\ <<>> \notin Removes /\ <<>> \notin Pulling
    BY NothingLeft DEF UrlKnown
  <1>. QED
    BY <1>1, IdleKnown, NoIndexKnown, NoEntries DEF RunOk

\* A command that has ended has none of the steps a cache depends on.
LEMMA RestingCache ==
  ASSUME NEW r, NEW at, NEW cached, r.todo \in Loaded
  PROVE  CacheOk(r, at, cached)
  <1>1. \A t \in Fetching \cup Writing \cup AddFetching \cup AddWriting \cup AddTruncating \cup AddSaving : t \notin Loaded
    <2>1. \A t \in Loaded : t = <<>> \/ Head(t) \in {"resolve", "read"}
      BY DEF Loaded
    <2>2. \A t \in Fetching \cup Writing \cup AddFetching \cup AddWriting \cup AddTruncating \cup AddSaving : t # <<>>
      BY NothingLeft DEF UrlKnown, Adds
    <2>. QED
      BY <2>1, <2>2, HeadsOfRefreshes, HeadsOfAdds
  <1>. QED
    BY <1>1 DEF CacheOk

\* What On leaves of a command's next state.
Ended(r) ==
  IF r.todo # <<>> THEN r ELSE IF r.loaded = 0 THEN Repo!Idle
  ELSE [Repo!Idle EXCEPT !.version = r.version, !.entry = r.entry, !.loaded = r.loaded]

LEMMA EndedOk ==
  ASSUME NEW known, NEW r \in RunRecords, RunOk(r, known)
  PROVE  Ended(r) \in RunRecords /\ RunOk(Ended(r), known) /\ Ended(r).todo = r.todo
         /\ (r.todo # <<>> => Ended(r) = r)
  <1>1. CASE r.todo # <<>>
    BY <1>1 DEF Ended
  <1>2. CASE r.todo = <<>> /\ r.loaded = 0
    BY <1>2, RestingOk, IdleKnown DEF Ended
  <1>3. CASE r.todo = <<>> /\ r.loaded # 0
    <2>. DEFINE e == [Repo!Idle EXCEPT !.version = r.version, !.entry = r.entry, !.loaded = r.loaded]
    <2>1. Ended(r) = e
      BY <1>3 DEF Ended
    <2>2. e \in RunRecords
      BY IdleKnown DEF RunRecords
    <2>3. /\ e.todo = Repo!Idle.todo /\ e.otherwise = Repo!Idle.otherwise /\ e.fetched = Repo!Idle.fetched
          /\ e.version = r.version /\ e.entry = r.entry /\ e.loaded = r.loaded
      BY IdleKnown DEF RunRecords
    <2>. HIDE DEF e
    <2>4. e.todo = <<>> /\ e.otherwise = <<>> /\ Listed(e.fetched.entries, known)
      BY <2>3, IdleKnown, NoIndexKnown, NoEntries
    <2>5. <<>> \notin UrlKnown /\ <<>> \notin Removes /\ <<>> \notin Pulling
      BY NothingLeft DEF UrlKnown
    <2>6. LoadedAsChosen(e, known)
      BY <1>3, <2>3 DEF RunOk, LoadedAsChosen
    <2>7. RunOk(e, known)
      BY <2>4, <2>5, <2>6 DEF RunOk
    <2>. QED
      BY <1>3, <2>1, <2>2, <2>4, <2>7
  <1>. QED
    BY <1>1, <1>2, <1>3

LEMMA OnEnds ==
  ASSUME RunsKnown, NEW p \in Programs, NEW r \in RunRecords, Repo!On(p, r)
  PROVE  run'[p] = Ended(r) /\ run' = [run EXCEPT ![p] = Ended(r)] /\ \A q \in Programs \ {p} : run'[q] = run[q]
  BY DEF RunsKnown, Repo!On, Ended

LEMMA RepoInit == Repo!Init => RepoInv
  <1>. SUFFICES ASSUME Repo!Init
               PROVE  RepoInv
    OBVIOUS
  <1>1. run = [p \in Programs |-> Repo!Idle]
    BY DEF Repo!Init
  <1>2. RunsKnown
    BY <1>1, IdleKnown, RestingOk DEF RunsKnown
  <1>3. PublishedKnown
    <2>1. IsFiniteSet(ever) /\ Cardinality(ever) = 0
      BY FS_EmptySet DEF Repo!Init
    <2>2. published = [u \in Urls |-> <<>>] /\ ever = {}
      BY DEF Repo!Init
    <2>3. published \in [Urls -> Seq(Nat)] /\ \A u \in Urls : published[u] = <<>> /\ Len(published[u]) = 0
      BY <2>2
    <2>. QED
      BY <2>1, <2>2, <2>3, NoEntries, RepoNumbers DEF PublishedKnown
  <1>4. StoreKnown
    <2>1. repos = Repo!Absent /\ index = Repo!NoIndex /\ commands = 0 /\ DOMAIN archives = {}
      BY DEF Repo!Init
    <2>. QED
      BY <2>1, NoIndexKnown, NoEntries, RepoNumbers DEF StoreKnown
  <1>5. CacheInv
    <2>1. repos = Repo!Absent /\ index = Repo!NoIndex /\ \A p \in Programs : Resting(p)
      BY <1>1, IdleKnown DEF Repo!Init, Resting
    <2>2. \A p \in Programs : CacheOk(run[p], repos, index)
      BY <2>1, RestingCache DEF Loaded, Resting
    <2>. QED
      BY <2>1, <2>2, Markers DEF CacheInv, CacheRight
  <1>. QED
    BY <1>2, <1>3, <1>4, <1>5 DEF RepoInv

-----------------------------------------------------------------------------
(***************************************************************************)
(* The chart repositories: every step                                      *)
(***************************************************************************)
\* What a step's name says of what is left to do, and of what is left after it.
LEMMA AtClass ==
  ASSUME NEW p \in Programs, run[p].todo \in Todos
  PROVE  /\ Repo!At(p, "may-add") => run[p].todo \in Adding
         /\ Repo!At(p, "may-remove") => run[p].todo \in Removing
         /\ Repo!At(p, "ensure") => run[p].todo \in Ensuring
         /\ Repo!At(p, "list") => run[p].todo \in Updating \cup Listing
         /\ Repo!At(p, "fetch") => run[p].todo \in Fetching \cup AddFetching
         /\ Repo!At(p, "write") => run[p].todo \in Writing \cup AddWriting
         /\ Repo!At(p, "truncate") => run[p].todo \in AddTruncating \cup RemoveTruncating
         /\ Repo!At(p, "save") => run[p].todo \in AddSaving \cup RemoveSaving
         /\ Repo!At(p, "unlink") => run[p].todo \in Unlinking
         /\ Repo!At(p, "resolve") => run[p].todo \in Resolving
         /\ Repo!At(p, "read") => run[p].todo \in Reading
         /\ Repo!At(p, "pull") => run[p].todo \in Pulling
  BY HeadsOfLoads, HeadsOfRefreshes, HeadsOfAdds, HeadsOfRemoves DEF Repo!At, Todos, UrlKnown, Adds, Removes

\* A step that is not of a refresh's fetch and write nor of an add depends on no cache.
LEMMA NothingCached ==
  ASSUME NEW r, NEW at, NEW cached,
         r.todo \in Loaded \cup Resolving \cup Reading \cup Pulling \cup Ensuring \cup Updating \cup Listing \cup Adding
                    \cup Removes
  PROVE  CacheOk(r, at, cached)
  <1>. DEFINE T == Fetching \cup Writing \cup AddFetching \cup AddWriting \cup AddTruncating \cup AddSaving
  <1>1. \A t \in T : Head(t) \in {"fetch", "write", "truncate", "save"}
    BY HeadsOfRefreshes, HeadsOfAdds
  <1>2. \A t \in Loaded : t \notin T
    <2>1. \A t \in Loaded : t = <<>> \/ Head(t) \in {"resolve", "read"}
      BY DEF Loaded
    <2>2. \A t \in T : t # <<>>
      BY NothingLeft DEF UrlKnown, Adds
    <2>. QED
      BY <1>1, <2>1, <2>2
  <1>3. \A t \in Resolving \cup Reading \cup Pulling \cup Ensuring \cup Updating \cup Listing \cup Adding : t \notin T
    BY <1>1, HeadsOfLoads, HeadsOfRefreshes, HeadsOfAdds
  <1>4. \A t \in Removing \cup Unlinking : t \notin T
    BY <1>1, HeadsOfRemoves
  <1>5. \A t \in RemoveTruncating : t \notin T
    BY HeadsOfRefreshes, HeadsOfAdds, HeadsOfRemoves, Apart
  <1>6. \A t \in RemoveSaving : t \notin T
    BY HeadsOfRefreshes, HeadsOfAdds, HeadsOfRemoves, Apart
  <1>7. r.todo \notin T
    BY <1>2, <1>3, <1>4, <1>5, <1>6 DEF Removes
  <1>. QED
    BY <1>7 DEF CacheOk

LEMMA Going ==
  ASSUME RepoInv, NEW p \in Programs, ~Resting(p), NEW r \in RunRecords, RunOk(r, ever), Repo!On(p, r),
         Repo!Quiet, StoreKnown', repos' # Repo!Absent,
         ~overlapped => CacheOk(r, repos', index') /\ CacheRight(repos', index')
  PROVE  RepoInv'
  <1>0. UNCHANGED <<published, ever, commands, overlapped>>
    BY DEF Repo!Quiet
  <1>1. /\ Ended(r) \in RunRecords /\ RunOk(Ended(r), ever)
        /\ run' = [run EXCEPT ![p] = Ended(r)] /\ run'[p] = Ended(r) /\ \A q \in Programs \ {p} : run'[q] = run[q]
    BY EndedOk, OnEnds DEF RepoInv
  <1>2. PublishedKnown'
    BY <1>0 DEF RepoInv, PublishedKnown
  <1>3. RunsKnown'
    <2>1. run' \in [Programs -> RunRecords]
      BY <1>1 DEF RepoInv, RunsKnown
    <2>2. \A q \in Programs : RunOk(run'[q], ever)
      BY <1>1 DEF RepoInv, RunsKnown
    <2>. QED
      BY <1>0, <2>1, <2>2 DEF RunsKnown
  <1>4. CacheInv'
    <2>1. ASSUME ~overlapped, NEW q \in Programs, q # p
          PROVE  run'[q] = run[q] /\ run[q].todo = <<>>
      BY <1>1, <2>1 DEF RepoInv, CacheInv, Resting
    <2>2. ASSUME ~overlapped, NEW q \in Programs
          PROVE  CacheOk(run'[q], repos', index')
      <3>1. CASE q # p
        BY <2>1, <2>2, <3>1, RestingCache DEF Loaded
      <3>2. CASE q = p /\ r.todo # <<>>
        BY <1>1, <2>2, <3>2, EndedOk
      <3>3. CASE q = p /\ r.todo = <<>>
        <4>1. run'[q].todo \in Loaded
          BY <1>1, <3>3, EndedOk DEF Loaded
        <4>. QED
          BY <4>1, RestingCache
      <3>. QED
        BY <3>1, <3>2, <3>3
    <2>3. ~overlapped => \A q1, q2 \in Programs : q1 # q2 => run'[q1].todo = <<>> \/ run'[q2].todo = <<>>
      BY <2>1
    <2>. QED
      BY <1>0, <2>2, <2>3 DEF CacheInv, Resting
  <1>. QED
    BY <1>2, <1>3, <1>4 DEF RepoInv

\* What a step finds.
LEMMA Underway ==
  ASSUME RepoInv, NEW p \in Programs, ~Resting(p)
  PROVE  /\ run[p] \in RunRecords /\ RunOk(run[p], ever) /\ run[p].loaded = 0
         /\ repos \in Urls \cup {Repo!None, Repo!Torn} /\ repos # Repo!Absent
         /\ StoreKnown
         /\ ~overlapped => CacheOk(run[p], repos, index) /\ CacheRight(repos, index)
  <1>1. run[p] \in RunRecords /\ RunOk(run[p], ever)
    BY DEF RepoInv, RunsKnown
  <1>2. run[p].loaded = 0
    BY <1>1 DEF RunOk, Resting
  <1>3. repos # Repo!Absent
    BY DEF RepoInv, CacheInv
  <1>. QED
    BY <1>1, <1>2, <1>3 DEF RepoInv, StoreKnown, CacheInv

LEMMA StoreLeft ==
  ASSUME StoreKnown, Repo!Quiet, UNCHANGED <<repos, index, archives>>
  PROVE  StoreKnown'
  BY DEF StoreKnown, Repo!Quiet

\* A step that writes no file and leads to one that depends on none.
LEMMA GoingOn ==
  ASSUME RepoInv, NEW p \in Programs, ~Resting(p), NEW r \in RunRecords, RunOk(r, ever), Repo!On(p, r),
         Repo!Quiet, UNCHANGED <<repos, index, archives>>, ~overlapped => CacheOk(r, repos, index)
  PROVE  RepoInv'
  BY Underway, StoreLeft, Going

LEMMA FailingGoesOn ==
  ASSUME RepoInv, NEW p \in Programs, ~Resting(p), Repo!Fails(p), Repo!Quiet, UNCHANGED <<repos, index, archives>>
  PROVE  RepoInv'
  <1>. DEFINE r == [run[p] EXCEPT !.todo = run[p].otherwise, !.otherwise = <<>>]
  <1>1. run[p] \in RunRecords /\ RunOk(run[p], ever) /\ run[p].loaded = 0
    BY Underway
  <1>2. <<>> \in Loaded /\ Loaded \subseteq Todos
    BY DEF Loaded, Todos, Resolving, UrlKnown, Reading
  <1>3. r \in RunRecords
    BY <1>1, <1>2 DEF RunRecords
  <1>4. /\ r.todo = run[p].otherwise /\ r.todo \in Loaded /\ r.otherwise = <<>> /\ r.url = run[p].url
        /\ r.fetched = run[p].fetched /\ r.loaded = 0
    BY <1>1 DEF RunRecords
  <1>5. Repo!On(p, r)
    BY DEF Repo!Fails
  <1>. HIDE DEF r
  <1>6. r.todo # <<>> => Head(r.todo) \in {"resolve", "read"}
    BY <1>4 DEF Loaded
  <1>7. r.todo \notin Removes /\ r.todo \notin Pulling
    BY <1>6, HeadsOfRemoves, HeadsOfLoads, NothingLeft DEF Removes, UrlKnown
  <1>8. r.todo \in UrlKnown => r.url \in Urls
    BY <1>1, <1>4, NothingLeft DEF RunOk
  <1>9. RunOk(r, ever)
    BY <1>1, <1>4, <1>7, <1>8 DEF RunOk
  <1>10. CacheOk(r, repos, index)
    BY <1>4, RestingCache
  <1>. QED
    BY <1>3, <1>5, <1>9, <1>10, GoingOn

\* A step that only takes the next one up.
LEMMA Ahead ==
  ASSUME RepoInv, NEW p \in Programs, ~Resting(p), NEW t \in Todos, Repo!Go(p, t),
         t \in UrlKnown => run[p].url \in Urls, t \in Removes => run[p].url = NoUrl, t \notin Pulling
  PROVE  \E r \in RunRecords : /\ RunOk(r, ever) /\ Repo!On(p, r)
                               /\ r.todo = t /\ r.url = run[p].url /\ r.fetched = run[p].fetched
  <1>. DEFINE r == [run[p] EXCEPT !.todo = t]
  <1>1. run[p] \in RunRecords /\ RunOk(run[p], ever) /\ run[p].loaded = 0
    BY Underway
  <1>2. /\ r \in RunRecords /\ r.todo = t /\ r.otherwise = run[p].otherwise /\ r.url = run[p].url
        /\ r.fetched = run[p].fetched /\ r.loaded = 0
    BY <1>1 DEF RunRecords
  <1>3. Repo!On(p, r)
    BY DEF Repo!Go
  <1>. HIDE DEF r
  <1>4. RunOk(r, ever)
    BY <1>1, <1>2 DEF RunOk
  <1>. QED
    BY <1>2, <1>3, <1>4

\* Each of the steps a cache depends on is of one kind.
LEMMA OneKind ==
  /\ \A t \in Fetching : t \notin AddFetching \cup Writing \cup AddWriting \cup AddTruncating \cup AddSaving
  /\ \A t \in Writing : t \notin AddFetching \cup AddWriting \cup AddTruncating \cup AddSaving
  /\ \A t \in AddFetching : t \notin Fetching \cup Writing \cup AddWriting \cup AddTruncating \cup AddSaving
  /\ \A t \in AddWriting : t \notin Fetching \cup Writing \cup AddTruncating \cup AddSaving
  /\ \A t \in AddTruncating : t \notin Fetching \cup Writing \cup AddWriting
  /\ \A t \in AddSaving : t \notin Fetching \cup Writing \cup AddWriting
  BY Apart, HeadsOfRefreshes, HeadsOfAdds

LEMMA Kinds ==
  /\ UrlKnown \subseteq Todos /\ Removes \subseteq Todos /\ Loaded \subseteq Todos /\ Resolving \subseteq Loaded
  /\ Adding \cup AddFetching \cup AddWriting \cup AddTruncating \cup AddSaving \subseteq UrlKnown
  /\ Reading \cup Pulling \cup Ensuring \cup Listing \cup Fetching \cup Writing \subseteq UrlKnown
  BY DEF Todos, UrlKnown, Adds, Removes, Loaded, Resolving, Reading

\* A step is of a command that looks up, refreshes, adds or removes, never of two.
LEMMA Unremoved ==
  /\ \A t \in Reading \cup Pulling \cup Listing \cup Fetching \cup Writing \cup Adds \cup Loaded : t \notin Removes
  /\ \A t \in Removes : t \notin UrlKnown
  /\ \A t \in Resolving : t \notin UrlKnown /\ t \notin Removes /\ t \notin Pulling
  /\ \A t \in Reading \cup Listing \cup Fetching \cup Writing \cup Adds \cup Removes \cup Loaded \cup Updating : t \notin Pulling
  <1>1. \A t \in Removes : t # <<>> /\ Head(t) \in {"may-remove", "truncate", "save", "unlink"}
    BY HeadsOfRemoves, NothingLeft DEF Removes
  <1>2. \A t \in Reading \cup Pulling \cup Listing \cup Fetching \cup Writing \cup Ensuring :
          Head(t) \in {"read", "pull", "list", "fetch", "write", "ensure"}
    BY HeadsOfLoads, HeadsOfRefreshes
  <1>3. \A t \in Adds : t \notin Removes
    BY HeadsOfAdds, HeadsOfRemoves, Apart DEF Adds, Removes
  <1>4. \A t \in Loaded : t = <<>> \/ Head(t) \in {"resolve", "read"}
    BY DEF Loaded
  <1>5. \A t \in Resolving : Head(t) = "resolve"
    BY HeadsOfLoads
  <1>6. \A t \in Adds : Head(t) \in {"may-add", "fetch", "write", "truncate", "save"}
    BY HeadsOfAdds DEF Adds
  <1>7. \A t \in Pulling : t # <<>> /\ Head(t) = "pull"
    BY HeadsOfLoads, NothingLeft DEF UrlKnown
  <1>8. \A t \in Removes : t \notin UrlKnown
    BY <1>1, <1>2, <1>3 DEF UrlKnown
  <1>9. \A t \in Resolving : t \notin UrlKnown /\ t \notin Removes /\ t \notin Pulling
    BY <1>1, <1>2, <1>5, <1>6, <1>7 DEF UrlKnown
  <1>10. \A t \in Updating : Head(t) = "list"
    BY HeadsOfRefreshes
  <1>11. \A t \in Listing \cup Fetching \cup Writing \cup Reading : Head(t) \in {"read", "list", "fetch", "write"}
    BY HeadsOfLoads, HeadsOfRefreshes
  <1>12. \A t \in Reading \cup Listing \cup Fetching \cup Writing \cup Adds \cup Removes \cup Loaded \cup Updating : t \notin Pulling
    BY <1>1, <1>4, <1>6, <1>7, <1>10, <1>11
  <1>13. \A t \in Reading \cup Pulling \cup Listing \cup Fetching \cup Writing \cup Adds \cup Loaded : t \notin Removes
    BY <1>1, <1>2, <1>3, <1>4
  <1>. QED
    BY <1>8, <1>9, <1>12, <1>13

LEMMA MayAddStep ==
  ASSUME RepoInv, NEW p \in Programs, Repo!MayAdd(p)
  PROVE  RepoInv'
  <1>1. /\ ~Resting(p) /\ Repo!At(p, "may-add") /\ Repo!Quiet /\ UNCHANGED <<repos, index, archives>>
        /\ Repo!Fails(p) \/ (repos \in {Repo!Absent, Repo!None} /\ Repo!Go(p, Repo!Rest(p)))
    BY DEF Repo!MayAdd, Repo!Unreadable, Repo!At, Repo!files, Resting
  <1>2. run[p].todo \in Adding /\ RunOk(run[p], ever)
    BY <1>1, AtClass, Underway DEF RunRecords
  <1>3. CASE Repo!Fails(p)
    BY <1>1, <1>3, FailingGoesOn
  <1>4. CASE repos \in {Repo!Absent, Repo!None} /\ Repo!Go(p, Repo!Rest(p))
    <2>1. Repo!Rest(p) \in AddFetching
      BY <1>2, TailsOfAdds DEF Repo!Rest
    <2>2. run[p].url \in Urls
      BY <1>2, Kinds DEF RunOk
    <2>3. Repo!Rest(p) \in Todos /\ Repo!Rest(p) \notin Removes /\ Repo!Rest(p) \notin Pulling
      BY <2>1, Kinds, Unremoved DEF Adds
    <2>4. PICK r \in RunRecords : RunOk(r, ever) /\ Repo!On(p, r) /\ r.todo = Repo!Rest(p)
      BY <1>1, <1>4, <2>2, <2>3, Ahead
    <2>5. CacheOk(r, repos, index)
      BY <1>4, <2>1, <2>4, OneKind, Markers DEF CacheOk
    <2>. QED
      BY <1>1, <2>4, <2>5, GoingOn
  <1>. QED
    BY <1>1, <1>3, <1>4

LEMMA MayRemoveStep ==
  ASSUME RepoInv, NEW p \in Programs, Repo!MayRemove(p)
  PROVE  RepoInv'
  <1>1. /\ ~Resting(p) /\ Repo!At(p, "may-remove") /\ Repo!Quiet /\ UNCHANGED <<repos, index, archives>>
        /\ Repo!Fails(p) \/ Repo!Go(p, Repo!Rest(p))
    BY DEF Repo!MayRemove, Repo!Unreadable, Repo!At, Repo!files, Resting
  <1>2. run[p].todo \in Removing /\ RunOk(run[p], ever)
    BY <1>1, AtClass, Underway DEF RunRecords
  <1>3. CASE Repo!Fails(p)
    BY <1>1, <1>3, FailingGoesOn
  <1>4. CASE Repo!Go(p, Repo!Rest(p))
    <2>1. Repo!Rest(p) \in Removes
      BY <1>2, TailsOfRemoves DEF Repo!Rest, Removes
    <2>2. run[p].url = NoUrl
      BY <1>2 DEF RunOk, Removes
    <2>3. Repo!Rest(p) \in Todos /\ Repo!Rest(p) \notin UrlKnown /\ Repo!Rest(p) \notin Pulling
      BY <2>1, Kinds, Unremoved
    <2>4. PICK r \in RunRecords : RunOk(r, ever) /\ Repo!On(p, r) /\ r.todo = Repo!Rest(p)
      BY <1>1, <1>4, <2>2, <2>3, Ahead
    <2>5. CacheOk(r, repos, index)
      BY <2>1, <2>4, NothingCached
    <2>. QED
      BY <1>1, <2>4, <2>5, GoingOn
  <1>. QED
    BY <1>1, <1>3, <1>4

\* A refresh that may fail: what follows it is what an error falls back to.
LEMMA RefreshAhead ==
  ASSUME RepoInv, NEW p \in Programs, ~Resting(p), NEW t \in Listing, NEW o \in Loaded, NEW u \in Urls,
         Repo!On(p, [run[p] EXCEPT !.todo = t, !.otherwise = o, !.url = u]),
         Repo!Quiet, UNCHANGED <<repos, index, archives>>
  PROVE  RepoInv'
  <1>. DEFINE r == [run[p] EXCEPT !.todo = t, !.otherwise = o, !.url = u]
  <1>1. run[p] \in RunRecords /\ RunOk(run[p], ever) /\ run[p].loaded = 0
    BY Underway
  <1>2. t \in Todos /\ t \notin Removes /\ t \notin Pulling
    BY Kinds, Unremoved
  <1>3. /\ r \in RunRecords /\ r.todo = t /\ r.url = u /\ r.fetched = run[p].fetched /\ r.loaded = 0
    BY <1>1, <1>2 DEF RunRecords
  <1>4. Repo!On(p, r)
    OBVIOUS
  <1>. HIDE DEF r
  <1>5. RunOk(r, ever)
    BY <1>1, <1>2, <1>3 DEF RunOk
  <1>6. CacheOk(r, repos, index)
    BY <1>3, NothingCached
  <1>. QED
    BY <1>3, <1>4, <1>5, <1>6, GoingOn

LEMMA EnsureStep ==
  ASSUME RepoInv, NEW p \in Programs, Repo!Ensure(p)
  PROVE  RepoInv'
  <1>1. /\ ~Resting(p) /\ Repo!At(p, "ensure") /\ Repo!Quiet /\ UNCHANGED <<repos, index, archives>>
    BY DEF Repo!Ensure, Repo!At, Repo!files, Resting
  <1>2. run[p].todo \in Ensuring /\ RunOk(run[p], ever) /\ run[p] \in RunRecords
    BY <1>1, AtClass, Underway DEF RunRecords
  <1>3. run[p].url \in Urls
    BY <1>2, Kinds DEF RunOk
  <1>4. Repo!Rest(p) = <<"resolve", "read", "pull">>
    BY <1>2, TailsOfLoads DEF Repo!Rest
  <1>5. Repo!Rest(p) \in Resolving /\ Repo!Rest(p) \in Loaded
    BY <1>4 DEF Resolving, Loaded
  <1>6. CASE Repo!Fails(p)
    BY <1>1, <1>6, FailingGoesOn
  <1>7. CASE Repo!Go(p, Repo!Add \o Repo!Rest(p))
    <2>. DEFINE t == Repo!Add \o Repo!Rest(p)
    <2>1. t \in Adding
      BY <1>4, PutTogether
    <2>. HIDE DEF t
    <2>2. t \in Todos /\ t \notin Removes /\ t \notin Pulling
      BY <2>1, Kinds, Unremoved DEF Adds
    <2>3. PICK r \in RunRecords : RunOk(r, ever) /\ Repo!On(p, r) /\ r.todo = t
      BY <1>1, <1>3, <1>7, <2>2, Ahead DEF t
    <2>4. CacheOk(r, repos, index)
      BY <2>1, <2>3, NothingCached
    <2>. QED
      BY <1>1, <2>3, <2>4, GoingOn
  <1>8. CASE Repo!Go(p, Repo!Rest(p))
    <2>1. Repo!Rest(p) \in Todos /\ Repo!Rest(p) \notin Removes /\ Repo!Rest(p) \notin Pulling
      BY <1>5, Kinds, Unremoved
    <2>2. PICK r \in RunRecords : RunOk(r, ever) /\ Repo!On(p, r) /\ r.todo = Repo!Rest(p)
      BY <1>1, <1>3, <1>8, <2>1, Ahead
    <2>3. CacheOk(r, repos, index)
      BY <1>5, <2>2, NothingCached
    <2>. QED
      BY <1>1, <2>2, <2>3, GoingOn
  <1>9. CASE Repo!On(p, [run[p] EXCEPT !.todo = Repo!Refresh \o Repo!Rest(p), !.otherwise = Repo!Rest(p)])
    <2>. DEFINE t == Repo!Refresh \o Repo!Rest(p)
                o == Repo!Rest(p)
    <2>1. t \in Listing /\ o \in Loaded
      BY <1>4, <1>5, PutTogether
    <2>. HIDE DEF t, o
    <2>2. [run[p] EXCEPT !.todo = t, !.otherwise = o] = [run[p] EXCEPT !.todo = t, !.otherwise = o, !.url = run[p].url]
      BY <1>2 DEF RunRecords
    <2>3. Repo!On(p, [run[p] EXCEPT !.todo = t, !.otherwise = o, !.url = run[p].url])
      BY <1>9, <2>2 DEF t, o
    <2>. QED
      BY <1>1, <1>3, <2>1, <2>3, RefreshAhead
  <1>. QED
    BY <1>6, <1>7, <1>8, <1>9 DEF Repo!Ensure, Repo!Unreadable

LEMMA ListStep ==
  ASSUME RepoInv, NEW p \in Programs, Repo!List(p)
  PROVE  RepoInv'
  <1>. DEFINE t == Repo!Rest(p)
              r == [run[p] EXCEPT !.todo = t, !.url = repos, !.refreshed = TRUE]
  <1>1. /\ ~Resting(p) /\ Repo!At(p, "list") /\ Repo!Quiet /\ UNCHANGED <<repos, index, archives>>
        /\ Repo!Fails(p) \/ (repos \in Urls /\ Repo!On(p, r))
    BY DEF Repo!List, Repo!Unreadable, Repo!At, Repo!files, Resting
  <1>2. run[p].todo \in Updating \cup Listing /\ RunOk(run[p], ever) /\ run[p] \in RunRecords /\ run[p].loaded = 0
    BY <1>1, AtClass, Underway DEF RunRecords
  <1>3. CASE Repo!Fails(p)
    BY <1>1, <1>3, FailingGoesOn
  <1>4. CASE repos \in Urls /\ Repo!On(p, r)
    <2>1. t \in Fetching
      BY <1>2, TailsOfRefreshes DEF Repo!Rest
    <2>. HIDE DEF t
    <2>2. t \in Todos /\ t \notin Removes /\ t \notin Pulling
      BY <2>1, Kinds, Unremoved
    <2>3. r \in RunRecords /\ r.todo = t /\ r.url = repos /\ r.fetched = run[p].fetched /\ r.loaded = 0
      BY <1>2, <1>4, <2>2 DEF RunRecords
    <2>. HIDE DEF r
    <2>4. RunOk(r, ever)
      BY <1>2, <1>4, <2>2, <2>3 DEF RunOk
    <2>5. CacheOk(r, repos, index)
      BY <2>1, <2>3, OneKind DEF CacheOk
    <2>. QED
      BY <1>1, <1>4, <2>3, <2>4, <2>5, GoingOn
  <1>. QED
    BY <1>1, <1>3, <1>4

LEMMA FetchStep ==
  ASSUME RepoInv, NEW p \in Programs, Repo!Fetch(p)
  PROVE  RepoInv'
  <1>. DEFINE t == Repo!Rest(p)
              f == [url |-> run[p].url, entries |-> published[run[p].url]]
              r == [run[p] EXCEPT !.todo = t, !.fetched = f]
  <1>1. /\ ~Resting(p) /\ Repo!At(p, "fetch") /\ Repo!Quiet /\ UNCHANGED <<repos, index, archives>>
        /\ Repo!Fails(p) \/ Repo!On(p, r)
    BY DEF Repo!Fetch, Repo!At, Repo!files, Resting
  <1>2. run[p].todo \in Fetching \cup AddFetching /\ RunOk(run[p], ever) /\ run[p] \in RunRecords /\ run[p].loaded = 0
    BY <1>1, AtClass, Underway DEF RunRecords
  <1>3. run[p].url \in Urls
    BY <1>2, Kinds DEF RunOk
  <1>4. CASE Repo!Fails(p)
    BY <1>1, <1>4, FailingGoesOn
  <1>5. CASE Repo!On(p, r)
    <2>1. (run[p].todo \in Fetching => t \in Writing) /\ (run[p].todo \in AddFetching => t \in AddWriting)
      BY TailsOfRefreshes, TailsOfAdds DEF Repo!Rest
    <2>. HIDE DEF t
    <2>2. t \in Todos /\ t \notin Removes /\ t \notin Pulling
      BY <1>2, <2>1, Kinds, Unremoved DEF Adds
    <2>3. f \in Indexes /\ f.url = run[p].url /\ Listed(f.entries, ever)
      BY <1>3 DEF RepoInv, PublishedKnown, Indexes
    <2>. HIDE DEF f
    <2>4. r \in RunRecords /\ r.todo = t /\ r.url = run[p].url /\ r.fetched = f /\ r.loaded = 0
      BY <1>2, <2>2, <2>3 DEF RunRecords
    <2>. HIDE DEF r
    <2>5. RunOk(r, ever)
      BY <1>2, <1>3, <2>2, <2>3, <2>4 DEF RunOk
    <2>6. ASSUME ~overlapped
          PROVE  CacheOk(r, repos, index)
      <3>1. CacheOk(run[p], repos, index)
        BY <1>1, <2>6, Underway
      <3>2. CASE run[p].todo \in Fetching
        BY <2>1, <2>3, <2>4, <3>1, <3>2, OneKind DEF CacheOk
      <3>3. CASE run[p].todo \in AddFetching
        BY <2>1, <2>3, <2>4, <3>1, <3>3, OneKind DEF CacheOk
      <3>. QED
        BY <1>2, <3>2, <3>3
    <2>. QED
      BY <1>1, <1>5, <2>4, <2>5, <2>6, GoingOn
  <1>. QED
    BY <1>1, <1>4, <1>5

LEMMA WriteStep ==
  ASSUME RepoInv, NEW p \in Programs, Repo!Write(p)
  PROVE  RepoInv'
  <1>. DEFINE t == Repo!Rest(p)
              r == [run[p] EXCEPT !.todo = t, !.refreshed = TRUE, !.otherwise = <<>>]
  <1>1. /\ ~Resting(p) /\ Repo!At(p, "write") /\ Repo!Quiet /\ UNCHANGED <<repos, archives>>
        /\ index' = run[p].fetched /\ Repo!On(p, r)
    BY DEF Repo!Write, Repo!At, Resting
  <1>2. run[p].todo \in Writing \cup AddWriting /\ RunOk(run[p], ever) /\ run[p] \in RunRecords /\ run[p].loaded = 0
    BY <1>1, AtClass, Underway DEF RunRecords
  <1>3. run[p].url \in Urls /\ run[p].fetched \in Indexes /\ Listed(run[p].fetched.entries, ever)
    BY <1>2, Kinds DEF RunOk, RunRecords
  <1>4. (run[p].todo \in Writing => t \in Loaded) /\ (run[p].todo \in AddWriting => t \in AddTruncating)
    BY TailsOfRefreshes, TailsOfAdds DEF Repo!Rest
  <1>. HIDE DEF t
  <1>5. t \in Todos /\ t \notin Removes /\ t \notin Pulling /\ <<>> \in Loaded
    BY <1>2, <1>4, Kinds, Unremoved DEF Adds, Loaded
  <1>6. r \in RunRecords /\ r.todo = t /\ r.url = run[p].url /\ r.fetched = run[p].fetched /\ r.loaded = 0
    BY <1>2, <1>5 DEF RunRecords
  <1>. HIDE DEF r
  <1>7. RunOk(r, ever)
    BY <1>2, <1>3, <1>5, <1>6 DEF RunOk
  <1>8. StoreKnown'
    BY <1>1, <1>3 DEF RepoInv, StoreKnown, Repo!Quiet
  <1>9. repos' # Repo!Absent
    BY <1>1, Underway
  <1>10. ASSUME ~overlapped
         PROVE  CacheOk(r, repos', index') /\ CacheRight(repos', index')
    <2>1. CacheOk(run[p], repos, index) /\ CacheRight(repos, index)
      BY <1>1, <1>10, Underway
    <2>2. run[p].fetched.url = run[p].url
      BY <1>2, <2>1 DEF CacheOk
    <2>3. CASE run[p].todo \in Writing
      <3>1. repos = run[p].url
        BY <2>1, <2>3 DEF CacheOk
      <3>2. CacheOk(r, repos', index')
        BY <1>4, <1>6, <2>3, RestingCache
      <3>. QED
        BY <1>1, <2>2, <3>1, <3>2 DEF CacheRight
    <2>4. CASE run[p].todo \in AddWriting
      <3>1. repos \notin Urls
        BY <2>1, <2>4 DEF CacheOk
      <3>2. t \in AddTruncating
        BY <1>4, <2>4
      <3>3. CacheOk(r, repos', index')
        BY <1>1, <1>6, <2>2, <3>1, <3>2, OneKind DEF CacheOk
      <3>. QED
        BY <1>1, <3>1, <3>3 DEF CacheRight
    <2>. QED
      BY <1>2, <2>3, <2>4
  <1>. QED
    BY <1>1, <1>6, <1>7, <1>8, <1>9, <1>10, Going

LEMMA TruncateStep ==
  ASSUME RepoInv, NEW p \in Programs, Repo!Truncate(p)
  PROVE  RepoInv'
  <1>. DEFINE t == Repo!Rest(p)
  <1>1. /\ ~Resting(p) /\ Repo!At(p, "truncate") /\ Repo!Quiet /\ UNCHANGED <<index, archives>>
        /\ repos' = Repo!Torn /\ Repo!Go(p, t)
    BY DEF Repo!Truncate, Repo!At, Resting
  <1>2. run[p].todo \in AddTruncating \cup RemoveTruncating /\ RunOk(run[p], ever)
    BY <1>1, AtClass, Underway DEF RunRecords
  <1>3. (run[p].todo \in AddTruncating => t \in AddSaving) /\ (run[p].todo \in RemoveTruncating => t \in RemoveSaving)
    BY TailsOfAdds, TailsOfRemoves DEF Repo!Rest
  <1>. HIDE DEF t
  <1>4. StoreKnown' /\ repos' # Repo!Absent /\ repos' \notin Urls
    BY <1>1, Markers DEF RepoInv, StoreKnown, Repo!Quiet
  <1>5. CASE run[p].todo \in AddTruncating
    <2>1. t \in Todos /\ t \notin Removes /\ t \notin Pulling /\ run[p].url \in Urls
      BY <1>2, <1>3, <1>5, Kinds, Unremoved DEF Adds, RunOk
    <2>2. PICK r \in RunRecords : RunOk(r, ever) /\ Repo!On(p, r) /\ r.todo = t /\ r.url = run[p].url
      BY <1>1, <2>1, Ahead
    <2>3. ASSUME ~overlapped
          PROVE  CacheOk(r, repos', index') /\ CacheRight(repos', index')
      <3>1. index.url = run[p].url
        BY <1>1, <1>5, <2>3, Underway DEF CacheOk
      <3>. QED
        BY <1>1, <1>3, <1>4, <1>5, <2>2, <3>1, OneKind DEF CacheOk, CacheRight
    <2>. QED
      BY <1>1, <1>4, <2>2, <2>3, Going
  <1>6. CASE run[p].todo \in RemoveTruncating
    <2>1. t \in Removes /\ t \in Todos /\ t \notin UrlKnown /\ t \notin Pulling /\ run[p].url = NoUrl
      BY <1>2, <1>3, <1>6, Kinds, Unremoved DEF Removes, RunOk
    <2>2. PICK r \in RunRecords : RunOk(r, ever) /\ Repo!On(p, r) /\ r.todo = t /\ r.url = run[p].url
      BY <1>1, <2>1, Ahead
    <2>3. CacheOk(r, repos', index') /\ CacheRight(repos', index')
      BY <1>4, <2>1, <2>2, NothingCached DEF CacheRight
    <2>. QED
      BY <1>1, <1>4, <2>2, <2>3, Going
  <1>. QED
    BY <1>2, <1>5, <1>6

LEMMA SaveReposStep ==
  ASSUME RepoInv, NEW p \in Programs, Repo!SaveRepos(p)
  PROVE  RepoInv'
  <1>. DEFINE t == Repo!Rest(p)
  <1>1. /\ ~Resting(p) /\ Repo!At(p, "save") /\ Repo!Quiet /\ UNCHANGED <<index, archives>>
        /\ repos' = run[p].url /\ Repo!Go(p, t)
    BY DEF Repo!SaveRepos, Repo!At, Resting
  <1>2. run[p].todo \in AddSaving \cup RemoveSaving /\ RunOk(run[p], ever) /\ run[p].url \in Urls \cup {NoUrl}
    BY <1>1, AtClass, Underway DEF RunRecords
  <1>3. (run[p].todo \in AddSaving => t \in {<<>>} \cup Resolving) /\ (run[p].todo \in RemoveSaving => t \in Unlinking)
    BY TailsOfAdds, TailsOfRemoves DEF Repo!Rest
  <1>. HIDE DEF t
  <1>4. StoreKnown' /\ repos' # Repo!Absent
    BY <1>1, <1>2, Markers DEF RepoInv, StoreKnown, Repo!Quiet, NoUrl
  <1>5. CASE run[p].todo \in AddSaving
    <2>1. t \in Loaded
      BY <1>3, <1>5, Kinds DEF Loaded
    <2>2. t \in Todos /\ t \notin Removes /\ t \notin Pulling /\ run[p].url \in Urls
      BY <1>2, <1>5, <2>1, Kinds, Unremoved DEF RunOk
    <2>3. PICK r \in RunRecords : RunOk(r, ever) /\ Repo!On(p, r) /\ r.todo = t
      BY <1>1, <2>2, Ahead
    <2>4. ASSUME ~overlapped
          PROVE  CacheOk(r, repos', index') /\ CacheRight(repos', index')
      <3>1. index.url = run[p].url
        BY <1>1, <1>5, <2>4, Underway DEF CacheOk
      <3>. QED
        BY <1>1, <2>1, <2>3, <3>1, RestingCache DEF CacheRight
    <2>. QED
      BY <1>1, <1>4, <2>3, <2>4, Going
  <1>6. CASE run[p].todo \in RemoveSaving
    <2>1. t \in Removes /\ t \in Todos /\ t \notin UrlKnown /\ t \notin Pulling /\ run[p].url = NoUrl
      BY <1>2, <1>3, <1>6, Kinds, Unremoved DEF Removes, RunOk
    <2>2. PICK r \in RunRecords : RunOk(r, ever) /\ Repo!On(p, r) /\ r.todo = t
      BY <1>1, <2>1, Ahead
    <2>3. CacheOk(r, repos', index') /\ CacheRight(repos', index')
      BY <1>1, <2>1, <2>2, NothingCached, Markers DEF CacheRight, NoUrl
    <2>. QED
      BY <1>1, <1>4, <2>2, <2>3, Going
  <1>. QED
    BY <1>2, <1>5, <1>6

LEMMA UnlinkStep ==
  ASSUME RepoInv, NEW p \in Programs, Repo!Unlink(p)
  PROVE  RepoInv'
  <1>. DEFINE t == Repo!Rest(p)
  <1>1. /\ ~Resting(p) /\ Repo!At(p, "unlink") /\ Repo!Quiet /\ UNCHANGED <<repos, archives>>
        /\ index' = Repo!NoIndex /\ Repo!Go(p, t)
    BY DEF Repo!Unlink, Repo!At, Resting
  <1>2. run[p].todo \in Unlinking
    BY <1>1, AtClass, Underway DEF RunRecords
  <1>3. t = <<>>
    BY <1>2, TailsOfRemoves DEF Repo!Rest
  <1>. HIDE DEF t
  <1>4. StoreKnown' /\ repos' # Repo!Absent
    BY <1>1, Underway, NoIndexKnown, NoEntries DEF RepoInv, StoreKnown, Repo!Quiet
  <1>5. t \in Loaded /\ t \in Todos /\ t \notin Removes /\ t \notin Pulling /\ t \notin UrlKnown
    BY <1>3, Kinds, Unremoved, NothingLeft DEF Loaded
  <1>6. PICK r \in RunRecords : RunOk(r, ever) /\ Repo!On(p, r) /\ r.todo = t
    BY <1>1, <1>5, Ahead
  <1>7. CacheOk(r, repos', index') /\ CacheRight(repos', index')
    BY <1>1, <1>5, <1>6, RestingCache DEF CacheRight
  <1>. QED
    BY <1>1, <1>4, <1>6, <1>7, Going

LEMMA ResolveStep ==
  ASSUME RepoInv, NEW p \in Programs, Repo!Resolve(p)
  PROVE  RepoInv'
  <1>. DEFINE t == Repo!Rest(p)
              l == Repo!Refresh \o t
              r == [run[p] EXCEPT !.todo = t, !.url = repos]
  <1>1. /\ ~Resting(p) /\ Repo!At(p, "resolve") /\ Repo!Quiet /\ UNCHANGED <<repos, index, archives>>
    BY DEF Repo!Resolve, Repo!At, Repo!files, Resting
  <1>2. \/ Repo!Fails(p)
        \/ repos \in Urls /\ Repo!On(p, [run[p] EXCEPT !.todo = l, !.otherwise = t, !.url = repos])
        \/ repos \in Urls /\ Repo!On(p, r)
    BY DEF Repo!Resolve, Repo!Unreadable
  <1>3. run[p].todo \in Resolving /\ RunOk(run[p], ever) /\ run[p] \in RunRecords /\ run[p].loaded = 0
    BY <1>1, AtClass, Underway DEF RunRecords
  <1>4. t \in Reading
    BY <1>3, TailsOfLoads DEF Repo!Rest
  <1>5. t = <<"read", "pull">>
    BY <1>4 DEF Reading
  <1>6. t \in Loaded /\ l \in Listing
    BY <1>5, PutTogether DEF Loaded
  <1>. HIDE DEF t, l
  <1>7. CASE Repo!Fails(p)
    BY <1>1, <1>7, FailingGoesOn
  <1>8. CASE repos \in Urls /\ Repo!On(p, [run[p] EXCEPT !.todo = l, !.otherwise = t, !.url = repos])
    BY <1>1, <1>6, <1>8, RefreshAhead
  <1>9. CASE repos \in Urls /\ Repo!On(p, r)
    <2>1. t \in Todos /\ t \notin Removes /\ t \notin Pulling
      BY <1>4, Kinds, Unremoved
    <2>2. r \in RunRecords /\ r.todo = t /\ r.url = repos /\ r.fetched = run[p].fetched /\ r.loaded = 0
      BY <1>3, <1>9, <2>1 DEF RunRecords
    <2>. HIDE DEF r
    <2>3. RunOk(r, ever)
      BY <1>3, <1>9, <2>1, <2>2 DEF RunOk
    <2>4. CacheOk(r, repos, index)
      BY <1>4, <2>2, NothingCached
    <2>. QED
      BY <1>1, <1>9, <2>2, <2>3, <2>4, GoingOn
  <1>. QED
    BY <1>2, <1>7, <1>8, <1>9

\* The entry that is chosen is one of the index's, and of the version asked for.
LEMMA ReadStep ==
  ASSUME RepoInv, NEW p \in Programs, Repo!Read(p)
  PROVE  RepoInv'
  <1>. DEFINE t == Repo!Rest(p)
              n == Len(index.entries)
              v == IF run[p].version = 0 THEN n ELSE run[p].version
              e == [version |-> v, content |-> index.entries[v], digest |-> index.url \notin Undigested]
              r == [run[p] EXCEPT !.todo = t, !.entry = e]
  <1>1. /\ ~Resting(p) /\ Repo!At(p, "read") /\ Repo!Quiet /\ UNCHANGED <<repos, index, archives>>
        /\ Repo!Fails(p) \/ (v \in 1..n /\ Repo!On(p, r))
    BY DEF Repo!Read, Repo!At, Repo!files, Resting
  <1>2. run[p].todo \in Reading /\ RunOk(run[p], ever) /\ run[p] \in RunRecords /\ run[p].loaded = 0
    BY <1>1, AtClass, Underway DEF RunRecords
  <1>3. CASE Repo!Fails(p)
    BY <1>1, <1>3, FailingGoesOn
  <1>4. CASE v \in 1..n /\ Repo!On(p, r)
    <2>1. t \in Pulling
      BY <1>2, TailsOfLoads DEF Repo!Rest
    <2>2. index.entries \in Seq(Nat) /\ Listed(index.entries, ever)
      BY DEF RepoInv, StoreKnown, Indexes
    <2>3. v \in DOMAIN index.entries /\ v \in Nat /\ index.entries[v] \in Nat
      BY <1>4, <2>2
    <2>4. [version |-> v, content |-> index.entries[v]] \in ever
      BY <2>2, <2>3 DEF Listed
    <2>5. run[p].version # 0 => v = run[p].version
      OBVIOUS
    <2>. HIDE DEF t, v, n
    <2>6. (index.url \notin Undigested) \in BOOLEAN
      OBVIOUS
    <2>7. e \in [version : Nat, content : Nat, digest : BOOLEAN] /\ e.version = v /\ e.content = index.entries[v]
      BY <2>3, <2>6
    <2>. HIDE DEF e
    <2>8. t \in Todos /\ t \notin Removes /\ run[p].url \in Urls
      BY <1>2, <2>1, Kinds, Unremoved DEF RunOk
    <2>9. r \in RunRecords /\ r.todo = t /\ r.url = run[p].url /\ r.fetched = run[p].fetched /\ r.loaded = 0
          /\ r.entry = e /\ r.version = run[p].version
      BY <1>2, <2>7, <2>8 DEF RunRecords
    <2>. HIDE DEF r
    <2>10. Chosen(r, ever)
      BY <2>4, <2>5, <2>7, <2>9 DEF Chosen
    <2>11. RunOk(r, ever)
      BY <1>2, <2>8, <2>9, <2>10 DEF RunOk
    <2>12. CacheOk(r, repos, index)
      BY <2>1, <2>9, NothingCached
    <2>. QED
      BY <1>1, <1>4, <2>9, <2>11, <2>12, GoingOn
  <1>. QED
    BY <1>1, <1>3, <1>4

\* What a pull loads for its version was published, and is the entry's where that has a digest.
LEMMA LoadedStep ==
  ASSUME RepoInv, NEW p \in Programs, Repo!At(p, "pull"), NEW content, Repo!Loaded(p, content),
         [version |-> run[p].entry.version, content |-> content] \in ever,
         run[p].entry.digest => content = run[p].entry.content,
         Repo!Quiet, UNCHANGED <<repos, index>>, StoreKnown'
  PROVE  RepoInv'
  <1>. DEFINE r == [run[p] EXCEPT !.todo = Repo!Rest(p), !.loaded = content]
  <1>1. ~Resting(p)
    BY DEF Repo!At, Resting
  <1>2. run[p].todo \in Pulling /\ RunOk(run[p], ever) /\ run[p] \in RunRecords
    BY <1>1, AtClass, Underway DEF RunRecords
  <1>3. Repo!Rest(p) = <<>> /\ <<>> \in Todos /\ <<>> \in Loaded
    BY <1>2, TailsOfLoads DEF Repo!Rest, Todos, Loaded
  <1>4. content \in 0..MaxContents
    <2>1. Cardinality(ever) \in 0..MaxContents /\ content \in 1..Cardinality(ever)
      BY DEF RepoInv, PublishedKnown
    <2>. QED
      BY <2>1, RepoNumbers
  <1>5. /\ r \in RunRecords /\ r.todo = <<>> /\ r.loaded = content /\ r.entry = run[p].entry /\ r.version = run[p].version
        /\ r.url = run[p].url /\ r.fetched = run[p].fetched /\ r.otherwise = run[p].otherwise
    BY <1>2, <1>3, <1>4 DEF RunRecords
  <1>6. Repo!On(p, r)
    BY DEF Repo!Loaded
  <1>. HIDE DEF r
  <1>7. Chosen(run[p], ever)
    BY <1>2 DEF RunOk
  <1>8. LoadedAsChosen(r, ever)
    BY <1>5, <1>7 DEF Chosen, LoadedAsChosen
  <1>9. <<>> \notin UrlKnown /\ <<>> \notin Removes /\ <<>> \notin Pulling
    BY NothingLeft DEF UrlKnown
  <1>10. RunOk(r, ever)
    BY <1>2, <1>5, <1>8, <1>9 DEF RunOk
  <1>11. CacheOk(r, repos', index')
    BY <1>3, <1>5, RestingCache
  <1>12. repos' # Repo!Absent /\ (~overlapped => CacheRight(repos', index'))
    BY <1>1, Underway
  <1>. QED
    BY <1>1, <1>5, <1>6, <1>10, <1>11, <1>12, Going

LEMMA CachedStep ==
  ASSUME RepoInv, NEW p \in Programs, Repo!Cached(p)
  PROVE  RepoInv'
  <1>. DEFINE e == run[p].entry
  <1>1. /\ Repo!At(p, "pull") /\ archives[e.content] = e.content /\ Repo!Loaded(p, archives[e.content])
        /\ Repo!Quiet /\ UNCHANGED <<repos, index, archives>>
    BY DEF Repo!Cached, Repo!Hit, Repo!files
  <1>2. ~Resting(p)
    BY <1>1 DEF Repo!At, Resting
  <1>3. run[p].todo \in Pulling /\ RunOk(run[p], ever)
    BY <1>1, <1>2, AtClass, Underway DEF RunRecords
  <1>4. [version |-> e.version, content |-> e.content] \in ever
    BY <1>3 DEF RunOk, Chosen
  <1>5. StoreKnown'
    BY <1>1, StoreLeft DEF RepoInv
  <1>. QED
    BY <1>1, <1>4, <1>5, LoadedStep

LEMMA DownloadStep ==
  ASSUME RepoInv, NEW p \in Programs, Repo!Download(p)
  PROVE  RepoInv'
  <1>. DEFINE e == run[p].entry
              served == published[run[p].url]
  <1>1. Repo!At(p, "pull") /\ Repo!Quiet /\ UNCHANGED <<repos, index>> /\ ~Resting(p)
    BY DEF Repo!Download, Repo!At, Resting
  <1>2. run[p].todo \in Pulling /\ RunOk(run[p], ever) /\ run[p] \in RunRecords /\ run[p].url \in Urls /\ run[p].loaded = 0
    BY <1>1, AtClass, Underway, Kinds DEF RunRecords, RunOk
  <1>3. CASE run[p].tries < Retries /\ Repo!On(p, [run[p] EXCEPT !.tries = @ + 1]) /\ UNCHANGED archives
    <2>. DEFINE r == [run[p] EXCEPT !.tries = @ + 1]
    <2>1. run[p].tries + 1 \in 0..Retries
      BY <1>2, <1>3, RepoNumbers DEF RunRecords
    <2>2. /\ r \in RunRecords /\ r.todo = run[p].todo /\ r.loaded = 0 /\ r.entry = run[p].entry
          /\ r.version = run[p].version /\ r.url = run[p].url /\ r.fetched = run[p].fetched
          /\ r.otherwise = run[p].otherwise
      BY <1>2, <2>1 DEF RunRecords
    <2>3. Repo!On(p, r)
      BY <1>3
    <2>. HIDE DEF r
    <2>4. RunOk(r, ever)
      BY <1>2, <2>2 DEF RunOk, Chosen
    <2>5. CacheOk(r, repos, index)
      BY <1>2, <2>2, NothingCached
    <2>. QED
      BY <1>1, <1>3, <2>2, <2>3, <2>4, <2>5, GoingOn
  <1>4. CASE Repo!Fails(p) /\ UNCHANGED archives
    BY <1>1, <1>4, FailingGoesOn
  <1>5. CASE /\ e.version \in DOMAIN served /\ Repo!Verified(e, served[e.version]) /\ Repo!Loaded(p, served[e.version])
             /\ \/ e.digest /\ archives' = [c \in DOMAIN archives \cup {e.content} |-> IF c = e.content THEN c ELSE archives[c]]
                \/ UNCHANGED archives
    <2>1. [version |-> e.version, content |-> served[e.version]] \in ever
      BY <1>2, <1>5 DEF RepoInv, PublishedKnown, Listed
    <2>2. e.digest => served[e.version] = e.content
      BY <1>5 DEF Repo!Verified
    <2>3. \A c \in DOMAIN archives' : archives'[c] \in {Repo!Spoilt, c}
      BY <1>5 DEF RepoInv, StoreKnown
    <2>4. StoreKnown'
      BY <1>1, <2>3 DEF RepoInv, StoreKnown, Repo!Quiet
    <2>. QED
      BY <1>1, <1>5, <2>1, <2>2, <2>4, LoadedStep
  <1>. QED
    BY <1>3, <1>4, <1>5 DEF Repo!Download

\* A program that is killed leaves the files as they are.
LEMMA CrashStep ==
  ASSUME RepoInv, NEW p \in Programs, Repo!Crash(p)
  PROVE  RepoInv'
  <1>. DEFINE r == [run[p] EXCEPT !.todo = <<>>, !.loaded = 0]
  <1>1. ~Resting(p) /\ Repo!Quiet /\ UNCHANGED <<repos, index, archives>> /\ Repo!On(p, r)
    BY DEF Repo!Crash, Repo!files, Resting
  <1>2. RunOk(run[p], ever) /\ run[p] \in RunRecords
    BY <1>1, Underway
  <1>3. <<>> \in Todos /\ <<>> \in Loaded /\ 0 \in 0..MaxContents
    BY RepoNumbers DEF Todos, Loaded
  <1>4. /\ r \in RunRecords /\ r.todo = <<>> /\ r.loaded = 0 /\ r.otherwise = run[p].otherwise /\ r.url = run[p].url
        /\ r.fetched = run[p].fetched
    BY <1>2, <1>3 DEF RunRecords
  <1>. HIDE DEF r
  <1>5. <<>> \notin UrlKnown /\ <<>> \notin Removes /\ <<>> \notin Pulling
    BY NothingLeft DEF UrlKnown
  <1>6. RunOk(r, ever)
    BY <1>2, <1>4, <1>5 DEF RunOk
  <1>7. CacheOk(r, repos, index)
    BY <1>3, <1>4, RestingCache
  <1>. QED
    BY <1>1, <1>4, <1>6, <1>7, GoingOn

LEMMA SweepStep ==
  ASSUME RepoInv, Repo!Sweep
  PROVE  RepoInv'
  <1>1. UNCHANGED <<repos, index, run, published, ever, commands, overlapped>>
    BY DEF Repo!Sweep, Repo!Quiet
  <1>2. \A c \in DOMAIN archives' : archives'[c] \in {Repo!Spoilt, c}
    BY DEF Repo!Sweep, RepoInv, StoreKnown
  <1>3. StoreKnown'
    BY <1>1, <1>2 DEF RepoInv, StoreKnown
  <1>. QED
    BY <1>1, <1>3 DEF RepoInv, PublishedKnown, RunsKnown, CacheInv, Resting

LEMMA ListedMore ==
  ASSUME NEW entries, NEW known, NEW more, known \subseteq more, Listed(entries, known)
  PROVE  Listed(entries, more)
  BY DEF Listed

LEMMA RunOkMore ==
  ASSUME NEW r, NEW known, NEW more, known \subseteq more, RunOk(r, known)
  PROVE  RunOk(r, more)
  BY ListedMore DEF RunOk, Chosen, LoadedAsChosen

\* A version more, or the last one anew: what was listed stays published under its version.
LEMMA PublishStep ==
  ASSUME RepoInv, Repo!Publish
  PROVE  RepoInv'
  <1>. DEFINE c == Cardinality(ever) + 1
  <1>1. Cardinality(ever) < MaxContents /\ UNCHANGED <<run, commands, overlapped, repos, index, archives>>
    BY RepoCounts DEF Repo!Publish, Repo!files
  <1>0. PICK u \in Urls : \E v \in {Len(published[u]), Len(published[u]) + 1} \ {0} :
          /\ published' = [published EXCEPT ![u] = SubSeq(published[u], 1, v - 1) \o <<c>>]
          /\ ever' = ever \cup {[version |-> v, content |-> c]}
    BY RepoCounts DEF Repo!Publish
  <1>2. PICK v \in {Len(published[u]), Len(published[u]) + 1} \ {0} :
          /\ published' = [published EXCEPT ![u] = SubSeq(published[u], 1, v - 1) \o <<c>>]
          /\ ever' = ever \cup {[version |-> v, content |-> c]}
    BY <1>0
  <1>. DEFINE s == published[u]
              s1 == SubSeq(s, 1, v - 1)
              s2 == s1 \o <<c>>
              e == [version |-> v, content |-> c]
  <1>3. /\ published \in [Urls -> Seq(Nat)] /\ IsFiniteSet(ever) /\ Cardinality(ever) \in Nat
        /\ ever \subseteq [version : 1..Cardinality(ever), content : 1..Cardinality(ever)]
        /\ MaxContents \in Nat
    BY RepoNumbers DEF RepoInv, PublishedKnown
  <1>4. s \in Seq(Nat) /\ Len(s) \in Nat /\ Len(s) <= Cardinality(ever) /\ Listed(s, ever)
    BY <1>3 DEF RepoInv, PublishedKnown
  <1>5. v \in 1..(Len(s) + 1) /\ v \in Nat /\ c \in Nat
    BY <1>3, <1>4
  <1>. HIDE DEF s
  <1>6. s1 \in Seq(Nat) /\ Len(s1) = v - 1 /\ \A i \in 1..(v - 1) : s1[i] = s[i]
    BY <1>4, <1>5
  <1>. HIDE DEF s1, c
  <1>7. <<c>> \in Seq(Nat) /\ Len(<<c>>) = 1 /\ <<c>>[1] = c
    BY <1>5
  <1>8. /\ s2 \in Seq(Nat) /\ Len(s2) = Len(s1) + Len(<<c>>)
        /\ \A i \in 1..Len(s1) + Len(<<c>>) : s2[i] = IF i <= Len(s1) THEN s1[i] ELSE <<c>>[i - Len(s1)]
    BY <1>6, <1>7, ConcatProperties, Zenon
  <1>. HIDE DEF s2
  <1>9. Len(s2) = v /\ s2[v] = c /\ \A i \in 1..(v - 1) : s2[i] = s[i]
    BY <1>5, <1>6, <1>7, <1>8
  <1>10. e \notin ever
    BY <1>3 DEF c
  <1>11. IsFiniteSet(ever') /\ Cardinality(ever') = Cardinality(ever) + 1
    BY <1>2, <1>3, <1>10, FS_AddElement
  <1>12. ever \subseteq ever' /\ e \in ever'
    BY <1>2
  <1>13. Listed(s2, ever')
    <2>1. ASSUME NEW i \in DOMAIN s2
          PROVE  [version |-> i, content |-> s2[i]] \in ever'
      <3>1. i \in 1..v
        BY <1>8, <1>9, <2>1
      <3>2. CASE i = v
        BY <1>9, <1>12, <3>2
      <3>3. CASE i # v
        <4>1. i \in 1..(v - 1) /\ i \in DOMAIN s
          BY <1>4, <1>5, <3>1, <3>3
        <4>2. [version |-> i, content |-> s[i]] \in ever
          BY <1>4, <4>1 DEF Listed
        <4>. QED
          BY <1>9, <1>12, <4>1, <4>2
      <3>. QED
        BY <3>2, <3>3
    <2>. QED
      BY <2>1 DEF Listed
  <1>14. PublishedKnown'
    <2>1. published' = [published EXCEPT ![u] = s2]
      BY <1>2 DEF s2, s1, s
    <2>2. published' \in [Urls -> Seq(Nat)] /\ published'[u] = s2 /\ \A w \in Urls \ {u} : published'[w] = published[w]
      BY <1>3, <1>8, <2>1
    <2>3. \A w \in Urls : Listed(published[w], ever) /\ Len(published[w]) <= Cardinality(ever) /\ Len(published[w]) \in Nat
      BY <1>3 DEF RepoInv, PublishedKnown
    <2>4. \A w \in Urls : Listed(published'[w], ever')
      BY <1>12, <1>13, <2>2, <2>3, ListedMore
    <2>5. ASSUME NEW w \in Urls
          PROVE  Len(published'[w]) <= Cardinality(ever')
      <3>1. CASE w = u
        BY <1>3, <1>4, <1>5, <1>9, <1>11, <2>2, <3>1
      <3>2. CASE w # u
        BY <1>3, <1>11, <2>2, <2>3, <3>2
      <3>. QED
        BY <3>1, <3>2
    <2>6. Cardinality(ever') \in 0..MaxContents
      BY <1>1, <1>3, <1>11
    <2>7. ever' \subseteq [version : 1..Cardinality(ever'), content : 1..Cardinality(ever')]
      <3>1. v \in 1..Cardinality(ever') /\ c \in 1..Cardinality(ever')
        BY <1>3, <1>4, <1>5, <1>11 DEF c
      <3>2. e \in [version : 1..Cardinality(ever'), content : 1..Cardinality(ever')]
        BY <3>1
      <3>3. \A x \in 1..Cardinality(ever) : x \in 1..Cardinality(ever')
        BY <1>3, <1>11
      <3>4. ever \subseteq [version : 1..Cardinality(ever'), content : 1..Cardinality(ever')]
        BY <1>3, <3>3
      <3>. QED
        BY <1>2, <3>2, <3>4
    <2>. QED
      BY <1>11, <2>2, <2>4, <2>5, <2>6, <2>7 DEF PublishedKnown
  <1>15. StoreKnown'
    BY <1>1, <1>12, ListedMore DEF RepoInv, StoreKnown
  <1>16. RunsKnown'
    BY <1>1, <1>12, RunOkMore DEF RepoInv, RunsKnown
  <1>17. CacheInv'
    BY <1>1 DEF RepoInv, CacheInv, Resting
  <1>. QED
    BY <1>14, <1>15, <1>16, <1>17 DEF RepoInv

\* A command begins with nothing that the cache depends on; on a new machine it seeds repos.json.
LEMMA Starting ==
  ASSUME RepoInv, NEW p \in Programs, NEW r \in RunRecords, Repo!Start(p, r), RunOk(r, ever),
         r.todo \in Loaded \cup Ensuring \cup Updating \cup Adding \cup Removes
  PROVE  RepoInv'
  <1>1. /\ Resting(p) /\ commands < MaxCommands /\ commands' = commands + 1 /\ Repo!On(p, r)
        /\ overlapped' = (overlapped \/ \E q \in Programs \ {p} : run[q].todo # <<>>)
        /\ repos' = (IF repos = Repo!Absent THEN Seeded ELSE repos)
        /\ UNCHANGED <<published, ever, index, archives>>
    BY DEF Repo!Start, Resting
  <1>2. /\ Ended(r) \in RunRecords /\ RunOk(Ended(r), ever) /\ Ended(r).todo = r.todo /\ (r.todo # <<>> => Ended(r) = r)
        /\ run' = [run EXCEPT ![p] = Ended(r)] /\ run'[p] = Ended(r) /\ \A q \in Programs \ {p} : run'[q] = run[q]
    BY <1>1, EndedOk, OnEnds DEF RepoInv
  <1>3. PublishedKnown'
    BY <1>1 DEF RepoInv, PublishedKnown
  <1>4. StoreKnown'
    <2>1. commands' \in 0..MaxCommands
      BY <1>1, RepoNumbers DEF RepoInv, StoreKnown
    <2>2. repos' \in Urls \cup {Repo!Absent, Repo!None, Repo!Torn} /\ repos' # Repo!Absent
      BY <1>1, Markers DEF RepoInv, StoreKnown
    <2>. QED
      BY <1>1, <2>1, <2>2 DEF RepoInv, StoreKnown
  <1>5. RunsKnown'
    <2>1. run' \in [Programs -> RunRecords]
      BY <1>2 DEF RepoInv, RunsKnown
    <2>2. \A q \in Programs : RunOk(run'[q], ever)
      BY <1>2 DEF RepoInv, RunsKnown
    <2>. QED
      BY <1>1, <2>1, <2>2 DEF RunsKnown
  <1>6. CacheInv'
    <2>1. repos' # Repo!Absent
      BY <1>1, Markers
    <2>2. ASSUME ~overlapped'
          PROVE  ~overlapped /\ \A q \in Programs \ {p} : run'[q] = run[q] /\ run[q].todo = <<>>
      BY <1>1, <1>2, <2>2
    <2>3. ASSUME ~overlapped', NEW q \in Programs
          PROVE  CacheOk(run'[q], repos', index')
      <3>1. CASE q # p
        BY <2>2, <2>3, <3>1, RestingCache DEF Loaded
      <3>2. CASE q = p
        BY <1>2, <3>2, NothingCached
      <3>. QED
        BY <3>1, <3>2
    <2>4. ASSUME ~overlapped'
          PROVE  CacheRight(repos', index')
      <3>1. CASE repos = Repo!Absent
        BY <1>1, <3>1 DEF RepoInv, CacheInv, CacheRight
      <3>2. CASE repos # Repo!Absent
        BY <1>1, <2>2, <2>4, <3>2 DEF RepoInv, CacheInv, CacheRight
      <3>. QED
        BY <3>1, <3>2
    <2>5. ~overlapped' => \A q1, q2 \in Programs : q1 # q2 => run'[q1].todo = <<>> \/ run'[q2].todo = <<>>
      BY <2>2
    <2>. QED
      BY <2>1, <2>3, <2>4, <2>5 DEF CacheInv, Resting
  <1>. QED
    BY <1>3, <1>4, <1>5, <1>6 DEF RepoInv

LEMMA StartStep ==
  ASSUME RepoInv, NEW p \in Programs,
         Repo!RepoAdd(p) \/ Repo!RepoRemove(p) \/ Repo!RepoUpdate(p) \/ Repo!Install(p) \/ Repo!Apply(p)
  PROVE  RepoInv'
  <1>. DEFINE I == Repo!Idle
  <1>1. /\ I \in RunRecords /\ I.todo = <<>> /\ I.otherwise = <<>> /\ I.loaded = 0 /\ Listed(I.fetched.entries, ever)
        /\ I.url = NoUrl
    BY IdleKnown, NoIndexKnown, NoEntries
  <1>. HIDE DEF I
  <1>2. CASE Repo!RepoAdd(p)
    <2>1. PICK u \in Urls : Repo!Start(p, [I EXCEPT !.todo = Repo!Add, !.url = u])
      BY <1>2 DEF Repo!RepoAdd, I
    <2>. DEFINE r == [I EXCEPT !.todo = Repo!Add, !.url = u]
    <2>2. Repo!Add \in Adding
      BY DEF Repo!Add, Adding
    <2>3. Repo!Add \in Todos /\ Repo!Add \notin Removes /\ Repo!Add \notin Pulling
      BY <2>2, Kinds, Unremoved DEF Adds
    <2>4. r \in RunRecords /\ r.todo = Repo!Add /\ r.url = u /\ r.otherwise = <<>> /\ r.loaded = 0 /\ r.fetched = I.fetched
      BY <1>1, <2>3 DEF RunRecords
    <2>5. Repo!Start(p, r)
      BY <2>1
    <2>. HIDE DEF r
    <2>6. RunOk(r, ever)
      BY <1>1, <2>3, <2>4 DEF RunOk
    <2>. QED
      BY <2>2, <2>4, <2>5, <2>6, Starting
  <1>3. CASE Repo!RepoRemove(p)
    <2>. DEFINE t == <<"may-remove", "truncate", "save", "unlink">>
                r == [I EXCEPT !.todo = t]
    <2>1. Repo!Start(p, r)
      BY <1>3 DEF Repo!RepoRemove, I
    <2>2. t \in Removing
      BY DEF Removing
    <2>. HIDE DEF t
    <2>3. t \in Removes /\ t \in Todos /\ t \notin UrlKnown /\ t \notin Pulling
      BY <2>2, Kinds, Unremoved DEF Removes
    <2>4. r \in RunRecords /\ r.todo = t /\ r.url = NoUrl /\ r.otherwise = <<>> /\ r.loaded = 0 /\ r.fetched = I.fetched
      BY <1>1, <2>3 DEF RunRecords
    <2>. HIDE DEF r
    <2>5. RunOk(r, ever)
      BY <1>1, <2>3, <2>4 DEF RunOk
    <2>. QED
      BY <2>1, <2>3, <2>4, <2>5, Starting
  <1>4. CASE Repo!RepoUpdate(p)
    <2>. DEFINE t == Repo!Refresh
                r == [I EXCEPT !.todo = t]
    <2>1. Repo!Start(p, r)
      BY <1>4 DEF Repo!RepoUpdate, I
    <2>2. t \in Updating
      BY DEF Repo!Refresh, Updating
    <2>. HIDE DEF t
    <2>3. Head(t) = "list" /\ t # <<>> /\ t \in Todos /\ t \notin Pulling
      BY <2>2, HeadsOfRefreshes, NothingLeft, Unremoved DEF Todos
    <2>4. t \notin Removes
      BY <2>3, HeadsOfRemoves DEF Removes
    <2>5. t \notin UrlKnown
      <3>1. t \notin Listing
        BY <2>2 DEF Updating, Listing
      <3>. QED
        BY <2>3, <3>1, HeadsOfLoads, HeadsOfRefreshes, HeadsOfAdds DEF UrlKnown, Adds
    <2>6. r \in RunRecords /\ r.todo = t /\ r.url = NoUrl /\ r.otherwise = <<>> /\ r.loaded = 0 /\ r.fetched = I.fetched
      BY <1>1, <2>3 DEF RunRecords
    <2>. HIDE DEF r
    <2>7. RunOk(r, ever)
      BY <1>1, <2>3, <2>4, <2>5, <2>6 DEF RunOk
    <2>. QED
      BY <2>1, <2>2, <2>6, <2>7, Starting
  <1>5. CASE Repo!Install(p)
    <2>1. PICK always \in BOOLEAN, v \in 0..2 :
            Repo!Start(p, [I EXCEPT !.todo = Repo!Load, !.version = v, !.always = always])
      BY <1>5 DEF Repo!Install, I
    <2>. DEFINE t == Repo!Load
                r == [I EXCEPT !.todo = t, !.version = v, !.always = always]
    <2>2. v \in Nat
      OBVIOUS
    <2>3. t \in Resolving
      BY DEF Repo!Load, Resolving
    <2>. HIDE DEF t
    <2>4. t \in Todos /\ t \in Loaded /\ t \notin UrlKnown /\ t \notin Removes /\ t \notin Pulling
      BY <2>3, Kinds, Unremoved
    <2>5. r \in RunRecords /\ r.todo = t /\ r.otherwise = <<>> /\ r.loaded = 0 /\ r.fetched = I.fetched
      BY <1>1, <2>4, <2>2 DEF RunRecords
    <2>6. Repo!Start(p, r)
      BY <2>1 DEF t
    <2>. HIDE DEF r
    <2>7. RunOk(r, ever)
      BY <1>1, <2>4, <2>5 DEF RunOk
    <2>. QED
      BY <2>4, <2>5, <2>6, <2>7, Starting
  <1>6. CASE Repo!Apply(p)
    <2>. DEFINE t == <<"ensure">> \o Repo!Load
    <2>1. PICK always \in BOOLEAN, u \in Urls :
            Repo!Start(p, [I EXCEPT !.todo = t, !.version = 1, !.always = always, !.url = u])
      BY <1>6 DEF Repo!Apply, I
    <2>. DEFINE r == [I EXCEPT !.todo = t, !.version = 1, !.always = always, !.url = u]
    <2>2. t \in Ensuring
      BY PutTogether
    <2>. HIDE DEF t
    <2>3. t \in UrlKnown /\ t \in Todos /\ t \notin Removes /\ t \notin Pulling
      <3>1. Head(t) = "ensure" /\ t # <<>> /\ t \in UrlKnown
        BY <2>2, HeadsOfLoads, NothingLeft DEF UrlKnown
      <3>. QED
        BY <3>1, HeadsOfLoads, Kinds, Unremoved
    <2>4. r \in RunRecords /\ r.todo = t /\ r.url = u /\ r.otherwise = <<>> /\ r.loaded = 0 /\ r.fetched = I.fetched
      BY <1>1, <2>3 DEF RunRecords
    <2>5. Repo!Start(p, r)
      BY <2>1
    <2>. HIDE DEF r
    <2>6. RunOk(r, ever)
      BY <1>1, <2>3, <2>4 DEF RunOk
    <2>. QED
      BY <2>2, <2>4, <2>5, <2>6, Starting
  <1>. QED
    BY <1>2, <1>3, <1>4, <1>5, <1>6

LEMMA RepoStep == RepoInv /\ [Repo!Next]_repository => RepoInv'
  <1>1. ASSUME RepoInv, UNCHANGED repository
        PROVE  RepoInv'
    BY <1>1 DEF RepoInv, repository, PublishedKnown, StoreKnown, RunsKnown, CacheInv, Resting
  <1>2. ASSUME RepoInv, Repo!Next
        PROVE  RepoInv'
    BY <1>2, StartStep, MayAddStep, MayRemoveStep, EnsureStep, ListStep, FetchStep, WriteStep, TruncateStep, SaveReposStep,
       UnlinkStep, ResolveStep, ReadStep, CachedStep, DownloadStep, CrashStep, SweepStep, PublishStep DEF Repo!Next
  <1>. QED
    BY <1>1, <1>2

LEMMA RepoIsTyped == RepoInv => Repo!TypeOK /\ Repo!LoadsWhatWasPublished
  <1>. SUFFICES ASSUME RepoInv
               PROVE  Repo!TypeOK /\ Repo!LoadsWhatWasPublished
    OBVIOUS
  <1>1. MaxContents \in Nat /\ Retries \in Nat /\ Repo!Spoilt = MaxContents + 1
    BY RepoNumbers DEF Repo!Spoilt
  <1>2. ever \subseteq [version : 1..MaxContents, content : 1..MaxContents]
    <2>1. \A x \in 1..Cardinality(ever) : x \in 1..MaxContents
      BY <1>1 DEF RepoInv, PublishedKnown
    <2>. QED
      BY <2>1 DEF RepoInv, PublishedKnown
  <1>3. \A p \in Programs : run[p].tries <= Retries /\ run[p].loaded \in 0..Repo!Spoilt
    <2>1. \A x \in 0..MaxContents : x \in 0..Repo!Spoilt
      BY <1>1
    <2>. QED
      BY <1>1, <2>1 DEF RepoInv, RunsKnown, RunRecords
  <1>4. commands <= MaxCommands /\ index.url \in Urls \cup {Repo!Absent}
    BY RepoNumbers DEF RepoInv, StoreKnown, Indexes
  <1>5. Repo!TypeOK
    BY <1>2, <1>3, <1>4 DEF RepoInv, StoreKnown, Repo!TypeOK
  <1>6. Repo!LoadsWhatWasPublished
    BY DEF RepoInv, RunsKnown, RunOk, LoadedAsChosen, Repo!LoadsWhatWasPublished
  <1>. QED
    BY <1>5, <1>6

LEMMA CommandsKeepIndexes == Spec => []RepoInv
  <1>1. Init => RepoInv
    BY RepoInit DEF Init
  <1>2. RepoInv /\ [Next]_vars => RepoInv'
    BY RepoStep DEF Next, vars
  <1>. QED
    BY <1>1, <1>2, PTL DEF Spec

\* A pinned version is never resolved to another, and what is loaded for an entry that has a
\* digest is what the entry names, whoever else writes the index, the archives and the
\* repository meanwhile, and whoever is killed (charts: LoadIndex, cachedArchive, downloadArchive).
THEOREM LoadsArePublished == Spec => []LoadsWhatWasPublished
  <1>1. RepoInv => LoadsWhatWasPublished
    BY RepoIsTyped DEF LoadsWhatWasPublished
  <1>. QED
    BY <1>1, CommandsKeepIndexes, PTL

\* Of commands that do not overlap, however many were killed half way, the cached index of the
\* configured repository came from its URL: Add writes the index before it saves the name, and
\* Remove saves before it unlinks (charts: RepoStore).
THEOREM CachesAreRight == Spec => []CacheIsItsRepositorys
  <1>1. RepoInv => CacheIsItsRepositorys
    BY DEF RepoInv, CacheInv, CacheRight, CacheIsItsRepositorys, Repo!CacheIsItsRepositorys
  <1>. QED
    BY <1>1, CommandsKeepIndexes, PTL

-----------------------------------------------------------------------------
(***************************************************************************)
(* The operations on the swarm: what is known of what was read             *)
(***************************************************************************)
SpecShape == [replicas : 0..2, force : Int, uses : 0..MaxConfigs]
ServiceShape == [id : Nat, ver : Nat, spec : SpecShape, prev : SpecShape]
NodeShape == [ver : Nat, role : {"worker", "manager"}, availability : {"active", "drain"},
              labels : SUBSET {"theirs", "ours"}]
OnOne == {"scale", "restart", "rollback", "remove"}
OnEach == {"rotate", "remove-stack"}
OnNode == {"promote", "drain", "label"}
OpSteps == {"idle", "read", "write", "each", "done", "failed", "erred"}
OpShape == [what : OnOne \cup OnEach \cup OnNode \cup {"none", "create", "delete"}, name : Services \cup {"none"},
            on : 0..MaxConfigs, arg : Nat, step : OpSteps, read : ServiceShape, seen : NodeShape,
            left : SUBSET ServiceShape, tries : Nat, since : Nat]

OpsShape ==
  /\ service \in [Services -> ServiceShape] /\ node \in NodeShape /\ configs \subseteq 1..MaxConfigs
  /\ ops \in 0..MaxOps /\ op \in [Users -> OpShape]

\* Identities are each one service's, and are counted on; no config in use is gone.
ServicesKnown ==
  \A s \in Services : Ops!Exists(s) =>
    /\ service[s].id < ops + 10 /\ service[s].spec.uses \in configs \cup {0}
    /\ \A t \in Services : service[t].id = service[s].id => s = t

\* What was read of a service is what it still is, when it still has the version.
AsRead(r) ==
  /\ r.id # 0 /\ r.id < ops + 10
  /\ \A s \in Services : service[s].id = r.id =>
       r.ver <= service[s].ver /\ (r.ver = service[s].ver => r = service[s])

Steps(o) ==
  /\ o.step = "write" => o.what \in OnOne \cup OnNode \cup {"delete"}
  /\ o.step = "each" => o.what \in OnEach /\ o.left # {}
  /\ o.what \in OnOne => o.name \in Services
  /\ o.what = "scale" => o.arg \in 0..2
  /\ o.what = "rotate" => o.arg \in 0..MaxConfigs
  /\ o.what = "create" => o.on < MaxConfigs
  /\ o.tries < Attempts

ReadsOf(o) == IF o.step = "each" THEN o.left
              ELSE IF o.step = "write" /\ o.what \in OnOne THEN {o.read} ELSE {}

\* What was read of the node likewise; and it has changed once for each attempt that was refused.
SeenKnown(o) ==
  o.what \in OnNode =>
    /\ o.step = "write" => /\ o.seen.ver <= node.ver /\ (o.seen.ver = node.ver => o.seen = node)
                           /\ o.since + o.tries <= o.seen.ver
    /\ o.step = "read" /\ o.tries > 0 => o.since + o.tries <= node.ver
    /\ o.step = "failed" => o.since + Attempts <= node.ver

OperationsKnown ==
  \A u \in Users : Steps(op[u]) /\ SeenKnown(op[u]) /\ \A r \in ReadsOf(op[u]) : AsRead(r)

\* Each forced restart was asked for, and so was each that is still to be written.
Restarting == {u \in Users : op[u].what = "restart" /\ op[u].step \in {"read", "write"}}
Forced(sp) == -1 <= sp.force /\ sp.force + Cardinality(Restarting) <= ops
ForcesKnown ==
  /\ Cardinality(Restarting) <= ops
  /\ \A s \in Services : Forced(service[s].spec) /\ Forced(service[s].prev)

OpsInv == OpsShape /\ ServicesKnown /\ OperationsKnown /\ ForcesKnown

LEMMA OpsInit == Ops!Init => OpsInv
  <1>. SUFFICES ASSUME Ops!Init
               PROVE  OpsInv
    OBVIOUS
  <1>. USE OpsAssumption DEF Ops!Spec0, Ops!NoSpec, Ops!None
  <1>. DEFINE First == [Ops!None EXCEPT !.id = 1, !.spec.replicas = 1, !.spec.uses = 1]
  <1>1. First = [id |-> 1, ver |-> 0, spec |-> [replicas |-> 1, force |-> 0, uses |-> 1], prev |-> Ops!NoSpec]
    <2>. DEFINE A == [Ops!None EXCEPT !.id = 1]
                B == [A EXCEPT !.spec.replicas = 1]
    <2>1. A = [id |-> 1, ver |-> 0, spec |-> Ops!Spec0, prev |-> Ops!NoSpec]
      OBVIOUS
    <2>. HIDE DEF A
    <2>2. B = [id |-> 1, ver |-> 0, spec |-> [replicas |-> 1, force |-> 0, uses |-> 0], prev |-> Ops!NoSpec]
      BY <2>1
    <2>3. First = [B EXCEPT !.spec.uses = 1]
      BY DEF A
    <2>. HIDE DEF B, First
    <2>. QED
      BY <2>2, <2>3
  <1>2. Ops!None \in ServiceShape /\ First \in ServiceShape
    BY <1>1 DEF ServiceShape, SpecShape
  <1>3. \A s \in Services : service[s] \in {Ops!None, First}
    BY DEF Ops!Init
  <1>4. service \in [Services -> ServiceShape] /\ configs = {1} /\ ops = 0
    BY <1>2 DEF Ops!Init
  <1>5. Ops!Idle \in OpShape /\ Ops!Idle.step = "idle" /\ Ops!Idle.what = "none" /\ Ops!Idle.tries = 0
    BY <1>2 DEF Ops!Idle, OpShape, OpSteps, OnNode, OnOne, OnEach, NodeShape, Ops!Node0
  <1>6. op \in [Users -> OpShape] /\ \A u \in Users : op[u] = Ops!Idle
    BY <1>5 DEF Ops!Init
  <1>7. node \in NodeShape
    BY DEF Ops!Init, Ops!Node0, NodeShape
  <1>8. OpsShape
    BY <1>4, <1>6, <1>7 DEF OpsShape
  <1>9. ServicesKnown
    <2>1. \A s \in Services : Ops!Exists(s) => service[s] = First
      BY <1>3 DEF Ops!Exists
    <2>2. \A s \in Services : Ops!Exists(s) => service[s].id = 1 /\ service[s].spec.uses = 1
      BY <2>1, <1>1
    <2>3. \A s, t \in Services : s # t => service[s] = Ops!None \/ service[t] = Ops!None
      BY DEF Ops!Init
    <2>4. Ops!None.id = 0
      OBVIOUS
    <2>. QED
      BY <2>2, <2>3, <2>4, <1>4 DEF ServicesKnown, Ops!Exists
  <1>10. OperationsKnown
    BY <1>5, <1>6 DEF OperationsKnown, Steps, SeenKnown, ReadsOf, OnNode, OnOne
  <1>11. ForcesKnown
    <2>1. Restarting = {}
      BY <1>5, <1>6 DEF Restarting
    <2>2. Cardinality(Restarting) = 0
      BY <2>1, FS_EmptySet
    <2>3. \A s \in Services : service[s].spec.force = 0 /\ service[s].prev.force = -1
      BY <1>1, <1>3
    <2>. QED
      BY <2>2, <2>3, <1>4 DEF ForcesKnown, Forced
  <1>. QED
    BY <1>8, <1>9, <1>10, <1>11 DEF OpsInv

-----------------------------------------------------------------------------
(***************************************************************************)
(* The operations on the swarm: what a change leaves of what is known      *)
(***************************************************************************)
AllKeep == \A r \in ServiceShape : AsRead(r) => AsRead(r)'

LEMMA UpdatedIs ==
  ASSUME NEW was \in ServiceShape, NEW sp \in SpecShape
  PROVE  /\ Ops!UpdatedTo(was, sp) \in ServiceShape
         /\ Ops!UpdatedTo(was, sp).id = was.id /\ Ops!UpdatedTo(was, sp).ver = was.ver + 1
         /\ Ops!UpdatedTo(was, sp).spec = sp /\ Ops!UpdatedTo(was, sp).prev = was.spec
  <1>. DEFINE a == [was EXCEPT !.ver = @ + 1]
              b == [a EXCEPT !.spec = sp]
              c == [b EXCEPT !.prev = was.spec]
  <1>1. was.ver \in Nat /\ was.spec \in SpecShape
    BY DEF ServiceShape
  <1>2. a \in ServiceShape /\ a.id = was.id /\ a.ver = was.ver + 1
    BY <1>1 DEF ServiceShape
  <1>3. Ops!UpdatedTo(was, sp) = c
    BY DEF Ops!UpdatedTo
  <1>. HIDE DEF a
  <1>4. b \in ServiceShape /\ b.id = a.id /\ b.ver = a.ver /\ b.spec = sp
    BY <1>2 DEF ServiceShape
  <1>. HIDE DEF b
  <1>5. c \in ServiceShape /\ c.id = b.id /\ c.ver = b.ver /\ c.spec = b.spec /\ c.prev = was.spec
    BY <1>1, <1>4 DEF ServiceShape
  <1>. HIDE DEF c
  <1>. QED
    BY <1>2, <1>3, <1>4, <1>5

\* ServiceUpdate: the version goes up, so what others have read of the service is old.
LEMMA UpdateKeeps ==
  ASSUME OpsInv, NEW s \in Services, Ops!Exists(s), NEW sp \in SpecShape, sp.uses \in configs \cup {0},
         service' = [service EXCEPT ![s] = Ops!UpdatedTo(@, sp)],
         configs' = configs, ops' \in 0..MaxOps, ops <= ops'
  PROVE  service' \in [Services -> ServiceShape] /\ ServicesKnown' /\ AllKeep
  <1>. DEFINE new == Ops!UpdatedTo(service[s], sp)
  <1>1. service[s] \in ServiceShape /\ ops \in Nat /\ ops' \in Nat
    BY OpsAssumption DEF OpsInv, OpsShape
  <1>3. new \in ServiceShape /\ new.id = service[s].id /\ new.ver = service[s].ver + 1 /\ new.spec = sp
        /\ service[s].ver \in Nat /\ service[s].id \in Nat
    BY <1>1, UpdatedIs DEF ServiceShape
  <1>4. service \in [Services -> ServiceShape] /\ service' = [service EXCEPT ![s] = new]
    BY DEF OpsInv, OpsShape
  <1>. HIDE DEF new
  <1>5. service' \in [Services -> ServiceShape] /\ service'[s] = new
        /\ (\A t \in Services : t # s => service'[t] = service[t])
        /\ (\A t \in Services : service'[t].id = service[t].id)
    BY <1>3, <1>4
  <1>6. ServicesKnown'
    <2>1. ASSUME NEW t \in Services, service'[t].id # 0
          PROVE  service'[t].id < ops' + 10 /\ service'[t].spec.uses \in configs \cup {0}
                 /\ \A q \in Services : service'[q].id = service'[t].id => t = q
      <3>1. service[t].id # 0 /\ service[t].id \in Nat
        BY <1>4, <1>5, <2>1 DEF ServiceShape
      <3>2. service[t].id < ops + 10 /\ service[t].spec.uses \in configs \cup {0}
            /\ \A q \in Services : service[q].id = service[t].id => t = q
        BY <3>1 DEF OpsInv, ServicesKnown, Ops!Exists
      <3>3. service'[t].spec.uses \in configs \cup {0}
        BY <1>3, <1>5, <3>2
      <3>. QED
        BY <1>1, <1>5, <3>1, <3>2, <3>3
    <2>. QED
      BY <2>1 DEF ServicesKnown, Ops!Exists
  <1>7. ASSUME NEW r \in ServiceShape, AsRead(r)
        PROVE  AsRead(r)'
    <2>1. r.id \in Nat /\ r.ver \in Nat /\ r.id # 0 /\ r.id < ops' + 10
      BY <1>1, <1>7 DEF AsRead, ServiceShape
    <2>2. ASSUME NEW t \in Services, service'[t].id = r.id
          PROVE  r.ver <= service'[t].ver /\ (r.ver = service'[t].ver => r = service'[t])
      <3>1. r.ver <= service[t].ver /\ (r.ver = service[t].ver => r = service[t])
        BY <1>5, <1>7, <2>2 DEF AsRead
      <3>2. CASE t = s
        BY <1>3, <1>5, <2>1, <3>1, <3>2
      <3>. QED
        BY <1>5, <3>1, <3>2
    <2>. QED
      BY <2>1, <2>2 DEF AsRead
  <1>. QED
    BY <1>5, <1>6, <1>7 DEF AllKeep

\* ServiceRemove: what has been read of the service is of none any more.
LEMMA RemoveKeeps ==
  ASSUME OpsInv, NEW s \in Services, service' = [service EXCEPT ![s] = Ops!None], UNCHANGED <<configs, ops>>
  PROVE  service' \in [Services -> ServiceShape] /\ ServicesKnown' /\ AllKeep
  <1>1. Ops!None \in ServiceShape /\ Ops!None.id = 0
    BY OpsAssumption DEF Ops!None, Ops!NoSpec, Ops!Spec0, ServiceShape, SpecShape
  <1>2. service \in [Services -> ServiceShape]
    BY DEF OpsInv, OpsShape
  <1>3. service' \in [Services -> ServiceShape] /\ service'[s].id = 0
        /\ \A t \in Services : t # s => service'[t] = service[t]
    BY <1>1, <1>2
  <1>4. ServicesKnown'
    BY <1>3 DEF OpsInv, ServicesKnown, Ops!Exists
  <1>5. AllKeep
    BY <1>3 DEF AllKeep, AsRead
  <1>. QED
    BY <1>3, <1>4, <1>5

\* ServiceCreate: the identity is one that nothing has had.
LEMMA CreateKeeps ==
  ASSUME OpsInv, NEW s \in Services, NEW sp \in SpecShape, sp.uses \in configs \cup {0},
         service' = [service EXCEPT ![s] = [id |-> ops + 10, ver |-> 1, spec |-> sp, prev |-> Ops!NoSpec]],
         configs' = configs, ops' = ops + 1
  PROVE  service' \in [Services -> ServiceShape] /\ ServicesKnown' /\ AllKeep
  <1>. DEFINE new == [id |-> ops + 10, ver |-> 1, spec |-> sp, prev |-> Ops!NoSpec]
  <1>1. ops \in Nat /\ service \in [Services -> ServiceShape]
    BY OpsAssumption DEF OpsInv, OpsShape
  <1>2. new \in ServiceShape /\ new.id = ops + 10 /\ new.spec = sp
    BY <1>1, OpsAssumption DEF Ops!NoSpec, Ops!Spec0, ServiceShape, SpecShape
  <1>. HIDE DEF new
  <1>3. service' \in [Services -> ServiceShape] /\ service'[s] = new
        /\ \A t \in Services : t # s => service'[t] = service[t]
    BY <1>1, <1>2 DEF new
  <1>4. \A t \in Services : service[t].id \in Nat /\ service[t].id < ops + 10
    BY <1>1 DEF OpsInv, ServicesKnown, Ops!Exists, ServiceShape
  <1>5. ServicesKnown'
    <2>1. ASSUME NEW t \in Services, service'[t].id # 0
          PROVE  service'[t].id < ops' + 10 /\ service'[t].spec.uses \in configs \cup {0}
                 /\ \A q \in Services : service'[q].id = service'[t].id => t = q
      <3>1. CASE t = s
        BY <1>1, <1>2, <1>3, <1>4, <3>1
      <3>2. CASE t # s
        <4>1. service'[t] = service[t] /\ service[t].id # 0
          BY <1>3, <2>1, <3>2
        <4>2. service[t].id < ops + 10 /\ service[t].spec.uses \in configs \cup {0}
              /\ \A q \in Services : service[q].id = service[t].id => t = q
          BY <4>1 DEF OpsInv, ServicesKnown, Ops!Exists
        <4>. QED
          BY <1>1, <1>2, <1>3, <1>4, <4>1, <4>2
      <3>. QED
        BY <3>1, <3>2
    <2>. QED
      BY <2>1 DEF ServicesKnown, Ops!Exists
  <1>6. ASSUME NEW r \in ServiceShape, AsRead(r)
        PROVE  AsRead(r)'
    <2>1. r.id \in Nat /\ r.id # 0 /\ r.id < ops + 10
      BY <1>6 DEF AsRead, ServiceShape
    <2>2. \A t \in Services : service'[t].id = r.id => service'[t] = service[t]
      BY <1>1, <1>2, <1>3, <2>1
    <2>. QED
      BY <1>1, <1>6, <2>1, <2>2 DEF AsRead
  <1>. QED
    BY <1>3, <1>5, <1>6 DEF AllKeep

LEMMA SameKeeps ==
  ASSUME OpsInv, UNCHANGED <<service, configs>>, ops' \in 0..MaxOps, ops <= ops'
  PROVE  service' \in [Services -> ServiceShape] /\ ServicesKnown' /\ AllKeep
  <1>1. ops \in Nat /\ ops' \in Nat /\ service \in [Services -> ServiceShape]
    BY OpsAssumption DEF OpsInv, OpsShape
  <1>2. \A s \in Services : service[s].id \in Nat
    BY <1>1 DEF ServiceShape
  <1>3. ServicesKnown'
    BY <1>1, <1>2 DEF OpsInv, ServicesKnown, Ops!Exists
  <1>4. AllKeep
    BY <1>1 DEF AllKeep, AsRead, ServiceShape
  <1>. QED
    BY <1>1, <1>3, <1>4

\* What is known of an operation stays so whatever others do to the services and the node.
LEMMA OperationKeeps ==
  ASSUME OpsInv, AllKeep, NEW o \in OpShape, Steps(o), SeenKnown(o), \A r \in ReadsOf(o) : AsRead(r),
         node' = node \/ (node'.ver \in Nat /\ node.ver < node'.ver)
  PROVE  SeenKnown(o)' /\ \A r \in ReadsOf(o) : AsRead(r)'
  <1>1. o.seen.ver \in Nat /\ o.since \in Nat /\ o.tries \in Nat /\ node.ver \in Nat /\ Attempts \in Nat
    BY OpsAssumption DEF OpsInv, OpsShape, OpShape, NodeShape
  <1>2. ReadsOf(o) \subseteq ServiceShape
    BY DEF OpShape, ReadsOf
  <1>3. \A r \in ReadsOf(o) : AsRead(r)'
    BY <1>2 DEF AllKeep
  <1>4. SeenKnown(o)'
    BY <1>1 DEF SeenKnown
  <1>. QED
    BY <1>3, <1>4

LEMMA OperationsKeep ==
  ASSUME OpsInv, AllKeep, NEW u \in Users, op' \in [Users -> OpShape],
         \A v \in Users : v # u => op'[v] = op[v],
         Steps(op'[u]), SeenKnown(op[u])', \A r \in ReadsOf(op'[u]) : AsRead(r)',
         node' = node \/ (node'.ver \in Nat /\ node.ver < node'.ver)
  PROVE  OperationsKnown'
  <1>1. ASSUME NEW v \in Users, v # u
        PROVE  Steps(op'[v]) /\ SeenKnown(op[v])' /\ \A r \in ReadsOf(op'[v]) : AsRead(r)'
    <2>1. op'[v] = op[v] /\ op[v] \in OpShape
      BY <1>1 DEF OpsInv, OpsShape
    <2>2. Steps(op[v]) /\ SeenKnown(op[v]) /\ \A r \in ReadsOf(op[v]) : AsRead(r)
      BY DEF OpsInv, OperationsKnown
    <2>. QED
      BY <2>1, <2>2, OperationKeeps DEF SeenKnown
  <1>. QED
    BY <1>1 DEF OperationsKnown

-----------------------------------------------------------------------------
(***************************************************************************)
(* The operations on the swarm: restarts are counted                       *)
(***************************************************************************)
IsRestarting(o) == o.what = "restart" /\ o.step \in {"read", "write"}

LEMMA RestartingCounts == IsFiniteSet(Restarting) /\ Cardinality(Restarting) \in Nat
  <1>1. Restarting \subseteq Users
    BY DEF Restarting
  <1>. QED
    BY <1>1, OpsAssumption, FS_Subset, FS_CardinalityType

LEMMA Recounted ==
  ASSUME NEW u \in Users, \A v \in Users : v # u => op'[v] = op[v]
  PROVE  Cardinality(Restarting)' = Cardinality(Restarting) - (IF IsRestarting(op[u]) THEN 1 ELSE 0)
                                    + (IF IsRestarting(op'[u]) THEN 1 ELSE 0)
  <1>1. Restarting' = IF IsRestarting(op'[u]) THEN Restarting \cup {u} ELSE Restarting \ {u}
    BY DEF Restarting, IsRestarting
  <1>2. u \in Restarting <=> IsRestarting(op[u])
    BY DEF Restarting, IsRestarting
  <1>3. Cardinality(Restarting \cup {u}) = (IF IsRestarting(op[u]) THEN Cardinality(Restarting) ELSE Cardinality(Restarting) + 1)
    BY <1>2, RestartingCounts, FS_AddElement
  <1>4. Cardinality(Restarting \ {u}) = (IF IsRestarting(op[u]) THEN Cardinality(Restarting) - 1 ELSE Cardinality(Restarting))
    BY <1>2, RestartingCounts, FS_RemoveElement
  <1>5. Cardinality(Restarting)' = Cardinality(Restarting')
    OBVIOUS
  <1>6. Cardinality(Restarting') = (IF IsRestarting(op'[u]) THEN Cardinality(Restarting \cup {u}) ELSE Cardinality(Restarting \ {u}))
    BY <1>1
  <1>. QED
    BY <1>3, <1>4, <1>5, <1>6, RestartingCounts

-----------------------------------------------------------------------------
(***************************************************************************)
(* The operations on the swarm: every step                                 *)
(***************************************************************************)
OneStep(u) ==
  /\ op' \in [Users -> OpShape] /\ \A v \in Users : v # u => op'[v] = op[v]
  /\ Steps(op'[u])

LEMMA OpsTypes ==
  ASSUME OpsInv, NEW u \in Users
  PROVE  /\ op \in [Users -> OpShape] /\ op[u] \in OpShape /\ Steps(op[u]) /\ SeenKnown(op[u])
         /\ \A r \in ReadsOf(op[u]) : AsRead(r)
         /\ service \in [Services -> ServiceShape] /\ node \in NodeShape /\ configs \subseteq 1..MaxConfigs
         /\ ops \in 0..MaxOps /\ MaxOps \in Nat /\ MaxConfigs \in Nat \ {0} /\ Attempts \in Nat \ {0}
         /\ ServicesKnown /\ ForcesKnown
  BY OpsAssumption DEF OpsInv, OpsShape, OperationsKnown

LEMMA OpsHold ==
  ASSUME OpsInv, NEW u \in Users, OneStep(u), SeenKnown(op[u])', \A r \in ReadsOf(op'[u]) : AsRead(r)',
         service' \in [Services -> ServiceShape], ServicesKnown', AllKeep,
         node' = node \/ (node' \in NodeShape /\ node.ver < node'.ver),
         configs' \subseteq 1..MaxConfigs, ops' \in 0..MaxOps, ForcesKnown'
  PROVE  OpsInv'
  <1>1. node' = node \/ (node'.ver \in Nat /\ node.ver < node'.ver)
    BY DEF NodeShape
  <1>2. OperationsKnown'
    BY <1>1, OperationsKeep DEF OneStep
  <1>3. OpsShape'
    BY OpsTypes DEF OneStep, OpsShape
  <1>. QED
    BY <1>2, <1>3 DEF OpsInv

LEMMA ForcesKeep ==
  ASSUME OpsInv, NEW u \in Users, OneStep(u), ops' \in 0..MaxOps, ops <= ops',
         IsRestarting(op'[u]) => IsRestarting(op[u]) \/ ops < ops',
         \A s \in Services : \/ service'[s] = service[s]
                             \/ Forced(service[s].spec)' /\ Forced(service[s].prev)'
  PROVE  ForcesKnown'
  <1>1. ops \in Nat /\ ops' \in Nat
    BY OpsTypes
  <1>2. Cardinality(Restarting)' - Cardinality(Restarting) <= ops' - ops
        /\ Cardinality(Restarting) \in Nat /\ Cardinality(Restarting)' \in Nat
    <2>1. Cardinality(Restarting)' = Cardinality(Restarting) - (IF IsRestarting(op[u]) THEN 1 ELSE 0)
                                      + (IF IsRestarting(op'[u]) THEN 1 ELSE 0)
      BY Recounted DEF OneStep
    <2>2. Cardinality(Restarting) \in Nat /\ Cardinality(Restarting)' \in Nat
      <3>1. Restarting' \subseteq Users
        BY DEF Restarting
      <3>. QED
        BY <3>1, RestartingCounts, OpsAssumption, FS_Subset, FS_CardinalityType
    <2>. QED
      BY <1>1, <2>1, <2>2
  <1>3. ASSUME NEW sp \in SpecShape, Forced(sp)
        PROVE  Forced(sp)'
    <2>1. sp.force \in Int
      BY DEF SpecShape
    <2>. QED
      BY <1>1, <1>2, <1>3, <2>1 DEF Forced
  <1>4. \A s \in Services : service[s].spec \in SpecShape /\ service[s].prev \in SpecShape
    BY OpsTypes DEF ServiceShape
  <1>5. Cardinality(Restarting)' <= ops'
    BY <1>1, <1>2 DEF OpsInv, ForcesKnown
  <1>6. ASSUME NEW s \in Services
        PROVE  Forced(service[s].spec)' /\ Forced(service[s].prev)'
    <2>1. CASE service'[s] = service[s]
      <3>1. Forced(service[s].spec) /\ Forced(service[s].prev)
        BY DEF OpsInv, ForcesKnown
      <3>2. Forced(service[s].spec) => -1 <= service[s].spec.force
                                         /\ service[s].spec.force + Cardinality(Restarting)' <= ops'
        BY <1>3, <1>4 DEF Forced
      <3>3. Forced(service[s].prev) => -1 <= service[s].prev.force
                                         /\ service[s].prev.force + Cardinality(Restarting)' <= ops'
        BY <1>3, <1>4 DEF Forced
      <3>. QED
        BY <2>1, <3>1, <3>2, <3>3 DEF Forced
    <2>2. CASE Forced(service[s].spec)' /\ Forced(service[s].prev)'
      BY <2>2 DEF Forced
    <2>. QED
      BY <2>1, <2>2
  <1>. QED
    BY <1>5, <1>6 DEF ForcesKnown, Forced

\* A step of an operation alone, which changes nothing of the swarm.
LEMMA OnlyOp ==
  ASSUME OpsInv, NEW u \in Users, OneStep(u), UNCHANGED <<service, node, configs, ops>>,
         SeenKnown(op'[u]), \A r \in ReadsOf(op'[u]) : AsRead(r),
         IsRestarting(op'[u]) => IsRestarting(op[u])
  PROVE  OpsInv'
  <1>1. ops \in Nat /\ ops' \in 0..MaxOps /\ ops <= ops' /\ configs' \subseteq 1..MaxConfigs
    BY OpsTypes
  <1>2. service' \in [Services -> ServiceShape] /\ ServicesKnown' /\ AllKeep
    BY <1>1, SameKeeps
  <1>3. SeenKnown(op[u])'
    BY DEF SeenKnown
  <1>5. \A r : AsRead(r) => AsRead(r)'
    BY DEF AsRead
  <1>6. \A r \in ReadsOf(op'[u]) : AsRead(r)'
    BY <1>5
  <1>4. ForcesKnown'
    BY <1>1, ForcesKeep
  <1>7. node' = node
    OBVIOUS
  <1>. QED
    BY <1>1, <1>2, <1>3, <1>4, <1>6, <1>7, OpsHold

LEMMA Became ==
  ASSUME OpsInv, NEW u \in Users, NEW step \in OpSteps, Ops!Become(u, step),
         step = "write" => op[u].what \in OnOne \cup OnNode \cup {"delete"},
         step = "each" => op[u].what \in OnEach /\ op[u].left # {}
  PROVE  OneStep(u) /\ op'[u] = [op[u] EXCEPT !.step = step] /\ op'[u].step = step
         /\ op'[u].what = op[u].what /\ op'[u].since = op[u].since /\ op'[u].left = op[u].left
  <1>1. op' = [op EXCEPT ![u] = [op[u] EXCEPT !.step = step]]
    BY DEF Ops!Become
  <1>2. op \in [Users -> OpShape] /\ op[u] \in OpShape /\ Steps(op[u])
    BY OpsTypes
  <1>. DEFINE o == [op[u] EXCEPT !.step = step]
  <1>3. o \in OpShape /\ o.step = step /\ o.what = op[u].what /\ o.since = op[u].since /\ o.left = op[u].left
        /\ o.arg = op[u].arg /\ o.name = op[u].name /\ o.on = op[u].on /\ o.tries = op[u].tries
    BY <1>2 DEF OpShape
  <1>. HIDE DEF o
  <1>4. op' \in [Users -> OpShape] /\ op'[u] = o /\ \A v \in Users : v # u => op'[v] = op[v]
    BY <1>1, <1>2, <1>3 DEF o
  <1>5. Steps(o)
    BY <1>2, <1>3 DEF Steps
  <1>. QED
    BY <1>3, <1>4, <1>5 DEF OneStep, o

\* An operation that ends knows nothing of the services; one on the node that gave up knows why.
LEMMA Finished ==
  ASSUME OpsInv, NEW u \in Users, NEW ok, Ops!Done(u, ok),
         op[u].what \in OnNode => ok \/ op[u].since + Attempts <= node'.ver
  PROVE  OneStep(u) /\ SeenKnown(op[u])' /\ ReadsOf(op'[u]) = {} /\ ~IsRestarting(op'[u])
  <1>. DEFINE step == IF ok THEN "done" ELSE "failed"
  <1>1. Ops!Become(u, step) /\ step \in OpSteps /\ step \notin {"read", "write", "each"}
    BY DEF Ops!Done, OpSteps
  <1>2. ok \/ step = "failed"
    OBVIOUS
  <1>3. step = "failed" => ~ok
    OBVIOUS
  <1>. HIDE DEF step
  <1>4. OneStep(u) /\ op'[u].step = step /\ op'[u].what = op[u].what /\ op'[u].since = op[u].since
    BY <1>1, Became
  <1>. QED
    BY <1>1, <1>3, <1>4 DEF SeenKnown, ReadsOf, IsRestarting

LEMMA FinishedAlone ==
  ASSUME OpsInv, NEW u \in Users, NEW ok, Ops!Done(u, ok), UNCHANGED <<service, node, configs, ops>>,
         op[u].what \in OnNode => ok \/ op[u].since + Attempts <= node.ver
  PROVE  OpsInv'
  <1>1. OneStep(u) /\ SeenKnown(op[u])' /\ ReadsOf(op'[u]) = {} /\ ~IsRestarting(op'[u])
    BY Finished
  <1>2. SeenKnown(op'[u])
    BY <1>1 DEF SeenKnown
  <1>. QED
    BY <1>1, <1>2, OnlyOp

LEMMA CallFailsHolds ==
  ASSUME OpsInv, NEW u \in Users, Ops!CallFails(u)
  PROVE  OpsInv'
  <1>. DEFINE step == IF op[u].what \in OnNode THEN "erred" ELSE "failed"
  <1>1. Ops!Become(u, step) /\ UNCHANGED <<service, node, configs, ops>>
    BY DEF Ops!CallFails, Ops!OfTheNode, OnNode
  <1>2. step \in OpSteps /\ step \notin {"read", "write", "each"} /\ (op[u].what \in OnNode => step # "failed")
    BY DEF OpSteps
  <1>. HIDE DEF step
  <1>3. OneStep(u) /\ op'[u].step = step /\ op'[u].what = op[u].what
    BY <1>1, <1>2, Became
  <1>4. SeenKnown(op'[u]) /\ ReadsOf(op'[u]) = {} /\ ~IsRestarting(op'[u])
    BY <1>2, <1>3 DEF SeenKnown, ReadsOf, IsRestarting
  <1>. QED
    BY <1>1, <1>3, <1>4, OnlyOp

\* Whoever is beside the operations: deploys of a service and changes of the node.
LEMMA BesideHolds ==
  ASSUME OpsInv, UNCHANGED op, ops' \in 0..MaxOps, ops < ops',
         service' \in [Services -> ServiceShape], ServicesKnown', AllKeep,
         node' = node \/ (node' \in NodeShape /\ node.ver < node'.ver), configs' = configs,
         \A s \in Services : \/ service'[s] = service[s]
                             \/ Forced(service[s].spec)' /\ Forced(service[s].prev)'
  PROVE  OpsInv'
  <1>1. ops \in Nat /\ ops' \in Nat /\ node \in NodeShape
    BY OpsAssumption DEF OpsInv, OpsShape
  <1>2. node' = node \/ (node'.ver \in Nat /\ node.ver < node'.ver)
    BY DEF NodeShape
  <1>3. OperationsKnown'
    <2>1. ASSUME NEW v \in Users
          PROVE  SeenKnown(op[v])' /\ Steps(op[v]) /\ \A r \in ReadsOf(op[v]) : AsRead(r)'
      BY <1>2, OpsTypes, OperationKeeps DEF SeenKnown
    <2>. QED
      BY <2>1 DEF OperationsKnown
  <1>4. ForcesKnown'
    <2>1. Restarting' = Restarting
      BY DEF Restarting
    <2>2. Cardinality(Restarting) \in Nat /\ Cardinality(Restarting) <= ops
      BY RestartingCounts DEF OpsInv, ForcesKnown
    <2>3. Cardinality(Restarting') <= ops'
      BY <1>1, <2>1, <2>2
    <2>4. ASSUME NEW s \in Services
          PROVE  Forced(service[s].spec)' /\ Forced(service[s].prev)'
      <3>1. Forced(service[s].spec) /\ Forced(service[s].prev)
            /\ service[s].spec.force \in Int /\ service[s].prev.force \in Int
        BY DEF OpsInv, OpsShape, ServiceShape, SpecShape, ForcesKnown
      <3>2. CASE service'[s] = service[s]
        BY <1>1, <2>1, <2>2, <3>1, <3>2 DEF Forced
      <3>. QED
        BY <3>2
    <2>. QED
      BY <2>3, <2>4 DEF ForcesKnown
  <1>. QED
    BY <1>1, <1>3, <1>4 DEF OpsInv, OpsShape

LEMMA DeployHolds ==
  ASSUME OpsInv, NEW s \in Services, Ops!Deploy(s)
  PROVE  OpsInv'
  <1>1. PICK r \in {0, 2}, c \in configs \cup {0} :
          service' = [service EXCEPT ![s] =
            IF Ops!Exists(s) THEN Ops!UpdatedTo(@, [replicas |-> r, force |-> 0, uses |-> c])
            ELSE [id |-> ops + 10, ver |-> 1, spec |-> [replicas |-> r, force |-> 0, uses |-> c], prev |-> Ops!NoSpec]]
    BY DEF Ops!Deploy
  <1>. DEFINE sp == [replicas |-> r, force |-> 0, uses |-> c]
  <1>2. service \in [Services -> ServiceShape] /\ configs \subseteq 1..MaxConfigs /\ ops \in 0..MaxOps
        /\ MaxOps \in Nat /\ MaxConfigs \in Nat
    BY OpsAssumption DEF OpsInv, OpsShape
  <1>3. UNCHANGED <<node, configs, op>> /\ ops' = ops + 1 /\ ops' \in 0..MaxOps /\ ops < ops' /\ ops <= ops'
    BY <1>2 DEF Ops!Deploy
  <1>4. sp \in SpecShape /\ sp.uses \in configs \cup {0} /\ sp.force = 0
    BY <1>2 DEF SpecShape
  <1>5. Cardinality(Restarting)' = Cardinality(Restarting) /\ Cardinality(Restarting) \in Nat
        /\ Cardinality(Restarting) <= ops
    BY <1>3, RestartingCounts DEF Restarting, OpsInv, ForcesKnown
  <1>6. Ops!NoSpec.force = -1
    BY DEF Ops!NoSpec, Ops!Spec0
  <1>. HIDE DEF sp
  <1>7. CASE Ops!Exists(s)
    <2>1. service' = [service EXCEPT ![s] = Ops!UpdatedTo(@, sp)]
      BY <1>1, <1>7 DEF sp
    <2>2. service' \in [Services -> ServiceShape] /\ ServicesKnown' /\ AllKeep
      BY <1>3, <1>4, <1>7, <2>1, UpdateKeeps
    <2>3. service'[s].spec = sp /\ service'[s].prev = service[s].spec /\ \A t \in Services : t # s => service'[t] = service[t]
      BY <1>2, <1>4, <2>1, UpdatedIs
    <2>4. -1 <= service[s].spec.force /\ service[s].spec.force + Cardinality(Restarting) <= ops
          /\ service[s].spec.force \in Int
      BY <1>2 DEF OpsInv, ForcesKnown, Forced, ServiceShape, SpecShape
    <2>5. Forced(service[s].spec)' /\ Forced(service[s].prev)'
      BY <1>2, <1>3, <1>4, <1>5, <2>3, <2>4 DEF Forced
    <2>. QED
      BY <1>3, <2>2, <2>3, <2>5, BesideHolds
  <1>8. CASE ~Ops!Exists(s)
    <2>1. service' = [service EXCEPT ![s] = [id |-> ops + 10, ver |-> 1, spec |-> sp, prev |-> Ops!NoSpec]]
      BY <1>1, <1>8 DEF sp
    <2>2. service' \in [Services -> ServiceShape] /\ ServicesKnown' /\ AllKeep
      BY <1>3, <1>4, <2>1, CreateKeeps
    <2>3. service'[s].spec = sp /\ service'[s].prev = Ops!NoSpec /\ \A t \in Services : t # s => service'[t] = service[t]
      BY <1>2, <2>1
    <2>5. Forced(service[s].spec)' /\ Forced(service[s].prev)'
      BY <1>2, <1>3, <1>4, <1>5, <1>6, <2>3 DEF Forced
    <2>. QED
      BY <1>3, <2>2, <2>3, <2>5, BesideHolds
  <1>. QED
    BY <1>7, <1>8

LEMMA RelabelHolds ==
  ASSUME OpsInv, Ops!RelabelNode
  PROVE  OpsInv'
  <1>1. node \in NodeShape /\ ops \in 0..MaxOps /\ MaxOps \in Nat
    BY OpsAssumption DEF OpsInv, OpsShape
  <1>2. node' \in NodeShape /\ node.ver < node'.ver
    <2>. DEFINE a == [node EXCEPT !.ver = @ + 1]
                b == [a EXCEPT !.labels = {"theirs"} \cup @]
    <2>1. a \in NodeShape /\ a.ver = node.ver + 1 /\ node.ver \in Nat
      BY <1>1 DEF NodeShape
    <2>2. node' = b
      BY DEF Ops!RelabelNode
    <2>. HIDE DEF a
    <2>3. b \in NodeShape /\ b.ver = a.ver
      BY <2>1 DEF NodeShape
    <2>. HIDE DEF b
    <2>. QED
      BY <2>1, <2>2, <2>3
  <1>3. UNCHANGED <<service, configs, op>> /\ ops' \in 0..MaxOps /\ ops < ops' /\ ops <= ops'
    BY <1>1 DEF Ops!RelabelNode
  <1>4. service' \in [Services -> ServiceShape] /\ ServicesKnown' /\ AllKeep
    BY <1>3, SameKeeps
  <1>. QED
    BY <1>2, <1>3, <1>4, BesideHolds

LEMMA BegunHolds ==
  ASSUME OpsInv, NEW u \in Users, Ops!Begun(u)
  PROVE  OpsInv'
  <1>. DEFINE Asked(what, name, on, arg) ==
                [Ops!Idle EXCEPT !.what = what, !.name = name, !.on = on, !.arg = arg, !.step = "read"]
  <1>1. configs \subseteq 1..MaxConfigs /\ MaxConfigs \in Nat \ {0}
    BY OpsTypes
  <1>2. PICK what \in OnOne \cup OnEach \cup OnNode \cup {"create", "delete"}, name \in Services \cup {"none"},
             on \in 0..MaxConfigs, arg \in Nat :
          /\ Ops!Begin(u, what, name, on, arg)
          /\ (what = "scale" => arg \in 0..2) /\ (what = "rotate" => arg \in 0..MaxConfigs)
          /\ (what = "create" => on < MaxConfigs) /\ (what \in OnOne => name \in Services)
    <2>1. CASE \E s \in Services : Ops!Begin(u, "scale", s, 0, 2)
      BY <1>1, <2>1 DEF OnOne
    <2>2. CASE \E s \in Services, what \in {"restart", "rollback", "remove"} : Ops!Begin(u, what, s, 0, 0)
      <3>1. PICK s \in Services, what \in {"restart", "rollback", "remove"} : Ops!Begin(u, what, s, 0, 0)
        BY <2>2
      <3>2. what \in OnOne /\ what \notin {"scale", "rotate", "create"} /\ 0 \in 0..MaxConfigs
        BY <1>1 DEF OnOne
      <3>. QED
        BY <3>1, <3>2
    <2>3. CASE \E c \in configs : \E d \in configs \ {c} : Ops!Begin(u, "rotate", "none", c, d)
      <3>1. PICK c \in configs, d \in configs : Ops!Begin(u, "rotate", "none", c, d)
        BY <2>3
      <3>2. c \in 0..MaxConfigs /\ d \in 0..MaxConfigs /\ d \in Nat
        BY <1>1
      <3>. QED
        BY <3>1, <3>2 DEF OnEach, OnOne
    <2>4. CASE \E c \in configs : c < MaxConfigs /\ Ops!Begin(u, "create", "none", c, 0)
      <3>1. PICK c \in configs : c < MaxConfigs /\ Ops!Begin(u, "create", "none", c, 0)
        BY <2>4
      <3>2. c \in 0..MaxConfigs
        BY <1>1
      <3>. QED
        BY <3>1, <3>2 DEF OnOne
    <2>5. CASE \E c \in configs : Ops!Begin(u, "delete", "none", c, 0)
      <3>1. PICK c \in configs : Ops!Begin(u, "delete", "none", c, 0)
        BY <2>5
      <3>2. c \in 0..MaxConfigs
        BY <1>1
      <3>. QED
        BY <3>1, <3>2 DEF OnOne
    <2>6. CASE \E what \in {"remove-stack", "promote", "drain", "label"} : Ops!Begin(u, what, "none", 0, 0)
      <3>1. PICK what \in {"remove-stack", "promote", "drain", "label"} : Ops!Begin(u, what, "none", 0, 0)
        BY <2>6
      <3>2. what \in OnEach \cup OnNode /\ what \notin {"scale", "rotate", "create"} \cup OnOne /\ 0 \in 0..MaxConfigs
        BY <1>1 DEF OnEach, OnNode, OnOne
      <3>. QED
        BY <3>1, <3>2
    <2>. QED
      BY <2>1, <2>2, <2>3, <2>4, <2>5, <2>6 DEF Ops!Begun
  <1>. DEFINE o == Asked(what, name, on, arg)
  <1>3. op' = [op EXCEPT ![u] = o] /\ ops < MaxOps /\ ops' = ops + 1 /\ UNCHANGED <<service, node, configs>>
    BY <1>2 DEF Ops!Begin
  <1>4. Ops!Idle \in OpShape /\ Ops!Idle.tries = 0
    BY OpsAssumption DEF Ops!Idle, OpShape, OpSteps, OnNode, OnOne, OnEach, NodeShape, Ops!Node0, Ops!None,
                         Ops!NoSpec, Ops!Spec0, ServiceShape, SpecShape
  <1>5. o \in OpShape /\ o.what = what /\ o.name = name /\ o.on = on /\ o.arg = arg /\ o.step = "read" /\ o.tries = 0
    BY <1>2, <1>4 DEF OpShape, OpSteps
  <1>. HIDE DEF o
  <1>6. OneStep(u) /\ op'[u] = o
    <2>1. Steps(o)
      BY <1>2, <1>5, OpsTypes DEF Steps
    <2>2. op' \in [Users -> OpShape] /\ op'[u] = o /\ \A v \in Users : v # u => op'[v] = op[v]
      BY <1>3, <1>5, OpsTypes
    <2>. QED
      BY <2>1, <2>2 DEF OneStep
  <1>7. SeenKnown(op[u])' /\ ReadsOf(op'[u]) = {}
    BY <1>5, <1>6 DEF SeenKnown, ReadsOf
  <1>8. ops' \in 0..MaxOps /\ ops <= ops' /\ ops < ops' /\ configs' \subseteq 1..MaxConfigs
    BY <1>3, OpsTypes
  <1>9. service' \in [Services -> ServiceShape] /\ ServicesKnown' /\ AllKeep
    BY <1>3, <1>8, SameKeeps
  <1>10. ForcesKnown'
    BY <1>3, <1>6, <1>8, ForcesKeep
  <1>. QED
    BY <1>3, <1>6, <1>7, <1>8, <1>9, <1>10, OpsHold

\* updateService and RemoveService: a write that is accepted is of what was read.
LEMMA NamedIs ==
  ASSUME OpsInv, NEW r \in ServiceShape, AsRead(r), r.id \in Ops!Ids
  PROVE  /\ Ops!Named(r.id) \in Services /\ service[Ops!Named(r.id)].id = r.id /\ Ops!Exists(Ops!Named(r.id))
         /\ service[Ops!Named(r.id)].ver = r.ver => service[Ops!Named(r.id)] = r
  <1>1. \E s \in Services : service[s].id = r.id
    BY DEF Ops!Ids
  <1>2. Ops!Named(r.id) \in Services /\ service[Ops!Named(r.id)].id = r.id
    BY <1>1 DEF Ops!Named
  <1>. QED
    BY <1>2 DEF AsRead, Ops!Exists

LEMMA AcceptedIs ==
  ASSUME OpsInv, NEW r \in ServiceShape, AsRead(r), NEW sp, Ops!Accepts(r, sp)
  PROVE  /\ Ops!Named(r.id) \in Services /\ Ops!Exists(Ops!Named(r.id)) /\ service[Ops!Named(r.id)] = r
         /\ sp.uses \in configs \cup {0}
  BY NamedIs DEF Ops!Accepts

\* What an operation makes of a spec is a spec; a restart counts one up.
LEMMA ChangedIs ==
  ASSUME NEW r \in ServiceShape, NEW what \in {"scale", "restart", "rollback", "rotate"}, NEW arg,
         what = "scale" => arg \in 0..2, what = "rotate" => arg \in 0..MaxConfigs
  PROVE  /\ Ops!Changed(what, arg, r) \in SpecShape
         /\ \/ what = "restart" /\ Ops!Changed(what, arg, r).force = r.spec.force + 1
            \/ what # "restart" /\ Ops!Changed(what, arg, r).force \in {r.spec.force, r.prev.force}
  <1>1. r.spec \in SpecShape /\ r.prev \in SpecShape
    BY DEF ServiceShape
  <1>2. CASE what = "scale"
    BY <1>1, <1>2 DEF Ops!Changed, SpecShape
  <1>3. CASE what = "restart"
    BY <1>1, <1>3 DEF Ops!Changed, SpecShape
  <1>4. CASE what = "rotate"
    BY <1>1, <1>4 DEF Ops!Changed, SpecShape
  <1>5. CASE what = "rollback"
    BY <1>1, <1>5 DEF Ops!Changed
  <1>. QED
    BY <1>2, <1>3, <1>4, <1>5

\* The restart that is written is one that no longer waits.
LEMMA WriteHolds ==
  ASSUME OpsInv, NEW u \in Users, NEW r \in ServiceShape, AsRead(r),
         NEW what \in {"scale", "restart", "rollback", "rotate"}, what = op[u].what, NEW arg,
         what = "scale" => arg \in 0..2, what = "rotate" => arg \in 0..MaxConfigs,
         Ops!Accepts(r, Ops!Changed(what, arg, r)),
         service' = [service EXCEPT ![Ops!Named(r.id)] = Ops!UpdatedTo(@, Ops!Changed(what, arg, r))],
         OneStep(u), SeenKnown(op[u])', ReadsOf(op'[u]) \subseteq ReadsOf(op[u]),
         op[u].step \in {"read", "write", "each"}, op[u].step = "each" => what # "restart",
         ~IsRestarting(op'[u]), UNCHANGED <<node, configs, ops>>
  PROVE  OpsInv'
  <1>. DEFINE sp == Ops!Changed(what, arg, r)
  <1>0. Ops!Named(r.id) \in Services
    BY AcceptedIs
  <1>. PICK s \in Services : s = Ops!Named(r.id)
    BY <1>0
  <1>1. s \in Services /\ Ops!Exists(s) /\ service[s] = r /\ sp.uses \in configs \cup {0}
    BY AcceptedIs
  <1>2. sp \in SpecShape /\ \/ what = "restart" /\ sp.force = r.spec.force + 1
                            \/ what # "restart" /\ sp.force \in {r.spec.force, r.prev.force}
    BY ChangedIs
  <1>3. service' = [service EXCEPT ![s] = Ops!UpdatedTo(@, sp)]
    OBVIOUS
  <1>. HIDE DEF sp
  <1>4. ops' \in 0..MaxOps /\ ops <= ops' /\ ops \in Nat /\ configs' = configs /\ configs' \subseteq 1..MaxConfigs
    BY OpsTypes
  <1>5. service' \in [Services -> ServiceShape] /\ ServicesKnown' /\ AllKeep
    BY <1>1, <1>2, <1>3, <1>4, UpdateKeeps
  <1>6. service'[s].spec = sp /\ service'[s].prev = r.spec /\ \A t \in Services : t # s => service'[t] = service[t]
    BY <1>1, <1>2, <1>3, UpdatedIs, OpsTypes
  <1>7. \A q \in ReadsOf(op'[u]) : AsRead(q)'
    <2>1. ReadsOf(op[u]) \subseteq ServiceShape
      BY OpsTypes DEF ReadsOf, OpShape
    <2>2. \A q \in ReadsOf(op[u]) : AsRead(q)
      BY OpsTypes
    <2>. QED
      BY <1>5, <2>1, <2>2 DEF AllKeep
  <1>8. Forced(service[s].spec)' /\ Forced(service[s].prev)'
    <2>1. Cardinality(Restarting)' = Cardinality(Restarting) - (IF IsRestarting(op[u]) THEN 1 ELSE 0)
                                      + (IF IsRestarting(op'[u]) THEN 1 ELSE 0)
      BY Recounted DEF OneStep
    <2>2. IsRestarting(op[u]) <=> what = "restart"
      BY DEF IsRestarting
    <2>3. Cardinality(Restarting) \in Nat
      BY RestartingCounts
    <2>4. /\ r.spec.force \in Int /\ r.prev.force \in Int /\ sp.force \in Int
          /\ -1 <= r.spec.force /\ r.spec.force + Cardinality(Restarting) <= ops
          /\ -1 <= r.prev.force /\ r.prev.force + Cardinality(Restarting) <= ops
      BY <1>1, <1>2 DEF OpsInv, ForcesKnown, Forced, ServiceShape, SpecShape
    <2>5. -1 <= sp.force /\ sp.force + Cardinality(Restarting)' <= ops
      BY <1>2, <1>4, <2>1, <2>2, <2>3, <2>4
    <2>6. r.spec.force + Cardinality(Restarting)' <= ops
      BY <1>4, <2>1, <2>2, <2>3, <2>4
    <2>. QED
      BY <1>6, <2>4, <2>5, <2>6 DEF Forced
  <1>9. ForcesKnown'
    BY <1>4, <1>6, <1>8, ForcesKeep
  <1>10. node' = node
    OBVIOUS
  <1>. QED
    BY <1>4, <1>5, <1>7, <1>9, <1>10, OpsHold

LEMMA FindHolds ==
  ASSUME OpsInv, NEW u \in Users, Ops!FindService(u)
  PROVE  OpsInv'
  <1>. DEFINE svc == service[op[u].name]
  <1>1. op[u].step = "read" /\ op[u].what \in OnOne /\ UNCHANGED <<service, node, configs, ops>>
    BY DEF Ops!FindService, OnOne
  <1>2. op[u].what \notin OnNode
    BY <1>1 DEF OnOne, OnNode
  <1>3. \/ \E ok \in BOOLEAN : Ops!Done(u, ok)
        \/ Ops!Exists(op[u].name) /\ op' = [op EXCEPT ![u].step = "write", ![u].read = svc]
    BY DEF Ops!FindService
  <1>4. CASE \E ok \in BOOLEAN : Ops!Done(u, ok)
    BY <1>1, <1>2, <1>4, FinishedAlone
  <1>5. CASE Ops!Exists(op[u].name) /\ op' = [op EXCEPT ![u].step = "write", ![u].read = svc]
    <2>. DEFINE o == [op[u] EXCEPT !.step = "write", !.read = svc]
    <2>1. op[u].name \in Services /\ svc \in ServiceShape /\ op[u] \in OpShape
      BY <1>1, OpsTypes DEF Steps
    <2>2. op' = [op EXCEPT ![u] = o]
      BY <1>5
    <2>3. o \in OpShape /\ o.step = "write" /\ o.what = op[u].what /\ o.read = svc /\ o.name = op[u].name
          /\ o.arg = op[u].arg /\ o.on = op[u].on /\ o.tries = op[u].tries
      <3>. DEFINE a == [op[u] EXCEPT !.step = "write"]
      <3>1. a \in OpShape /\ a.step = "write" /\ a.what = op[u].what /\ a.name = op[u].name
            /\ a.arg = op[u].arg /\ a.on = op[u].on /\ a.tries = op[u].tries
        BY <2>1 DEF OpShape, OpSteps
      <3>2. o = [a EXCEPT !.read = svc]
        OBVIOUS
      <3>. HIDE DEF a, o, svc
      <3>. QED
        BY <2>1, <3>1, <3>2 DEF OpShape
    <2>. HIDE DEF o
    <2>4. OneStep(u) /\ op'[u] = o
      <3>1. op' \in [Users -> OpShape] /\ op'[u] = o /\ \A v \in Users : v # u => op'[v] = op[v]
        BY <2>2, <2>3, OpsTypes
      <3>2. Steps(o)
        BY <1>1, <2>3, OpsTypes DEF Steps
      <3>. QED
        BY <3>1, <3>2 DEF OneStep
    <2>5. ReadsOf(op'[u]) = {svc} /\ SeenKnown(op'[u])
      BY <1>1, <1>2, <2>3, <2>4 DEF ReadsOf, SeenKnown
    <2>6. AsRead(svc)
      BY <2>1, <1>5, OpsTypes DEF AsRead, ServicesKnown, Ops!Exists, ServiceShape
    <2>7. IsRestarting(op'[u]) => IsRestarting(op[u])
      BY <1>1, <2>3, <2>4 DEF IsRestarting
    <2>. QED
      BY <1>1, <2>4, <2>5, <2>6, <2>7, OnlyOp
  <1>. QED
    BY <1>3, <1>4, <1>5

LEMMA UpdateHolds ==
  ASSUME OpsInv, NEW u \in Users, Ops!UpdateService(u)
  PROVE  OpsInv'
  <1>. DEFINE r == op[u].read
              what == op[u].what
              arg == op[u].arg
  <1>1. op[u].step = "write" /\ what \in {"scale", "restart", "rollback"} /\ what \in OnOne /\ what \notin OnNode
        /\ UNCHANGED <<node, configs, ops>>
    BY DEF Ops!UpdateService, OnOne, OnNode
  <1>2. r \in ServiceShape /\ AsRead(r)
    BY <1>1, OpsTypes DEF ReadsOf, OpShape
  <1>3. what = "scale" => arg \in 0..2
    BY OpsTypes DEF Steps
  <1>4. CASE Ops!Accepts(r, Ops!Changed(what, arg, r))
    <2>1. Ops!Done(u, TRUE)
          /\ service' = [service EXCEPT ![Ops!Named(r.id)] = Ops!UpdatedTo(@, Ops!Changed(what, arg, r))]
      BY <1>4 DEF Ops!UpdateService
    <2>2. OneStep(u) /\ SeenKnown(op[u])' /\ ReadsOf(op'[u]) = {} /\ ~IsRestarting(op'[u])
      BY <2>1, Finished
    <2>. HIDE DEF r, arg
    <2>. QED
      BY <1>1, <1>2, <1>3, <1>4, <2>1, <2>2, WriteHolds
  <1>5. CASE ~Ops!Accepts(r, Ops!Changed(what, arg, r))
    <2>1. Ops!Done(u, FALSE) /\ UNCHANGED service
      BY <1>5 DEF Ops!UpdateService
    <2>. QED
      BY <1>1, <2>1, FinishedAlone
  <1>. QED
    BY <1>4, <1>5

\* RemoveService, and RemoveStack of one service of its stack.
LEMMA TakenHolds ==
  ASSUME OpsInv, NEW u \in Users, NEW r \in ServiceShape, AsRead(r), r.id \in Ops!Ids,
         service' = [service EXCEPT ![Ops!Named(r.id)] = Ops!None],
         OneStep(u), SeenKnown(op[u])', ReadsOf(op'[u]) \subseteq ReadsOf(op[u]),
         ~IsRestarting(op'[u]), UNCHANGED <<node, configs, ops>>
  PROVE  OpsInv'
  <1>1. Ops!Named(r.id) \in Services
    BY NamedIs
  <1>. PICK s \in Services : s = Ops!Named(r.id)
    BY <1>1
  <1>2. service' = [service EXCEPT ![s] = Ops!None]
    OBVIOUS
  <1>3. service' \in [Services -> ServiceShape] /\ ServicesKnown' /\ AllKeep
    BY <1>2, RemoveKeeps
  <1>4. ops' \in 0..MaxOps /\ ops <= ops' /\ ops \in Nat /\ configs' \subseteq 1..MaxConfigs
    BY OpsTypes
  <1>5. service'[s] = Ops!None /\ \A t \in Services : t # s => service'[t] = service[t]
    BY <1>2, OpsTypes
  <1>6. \A q \in ReadsOf(op'[u]) : AsRead(q)'
    <2>1. ReadsOf(op[u]) \subseteq ServiceShape
      BY OpsTypes DEF ReadsOf, OpShape
    <2>2. \A q \in ReadsOf(op[u]) : AsRead(q)
      BY OpsTypes
    <2>. QED
      BY <1>3, <2>1, <2>2 DEF AllKeep
  <1>7. Forced(service[s].spec)' /\ Forced(service[s].prev)'
    <2>1. Cardinality(Restarting)' = Cardinality(Restarting) - (IF IsRestarting(op[u]) THEN 1 ELSE 0)
                                      + (IF IsRestarting(op'[u]) THEN 1 ELSE 0)
      BY Recounted DEF OneStep
    <2>2. Cardinality(Restarting) \in Nat /\ Cardinality(Restarting) <= ops
      BY RestartingCounts DEF OpsInv, ForcesKnown
    <2>3. Cardinality(Restarting)' <= ops'
      BY <1>4, <2>1, <2>2
    <2>4. Cardinality(Restarting)' \in Int
      BY <2>1, <2>2
    <2>5. Ops!None.spec.force = 0 /\ Ops!None.prev.force = -1
      BY DEF Ops!None, Ops!NoSpec, Ops!Spec0
    <2>. QED
      BY <1>4, <1>5, <2>3, <2>4, <2>5 DEF Forced
  <1>8. ForcesKnown'
    BY <1>4, <1>5, <1>7, ForcesKeep
  <1>9. node' = node
    OBVIOUS
  <1>. QED
    BY <1>3, <1>4, <1>6, <1>8, <1>9, OpsHold

LEMMA RemoveHolds ==
  ASSUME OpsInv, NEW u \in Users, Ops!RemoveService(u)
  PROVE  OpsInv'
  <1>. DEFINE r == op[u].read
  <1>1. op[u].step = "write" /\ op[u].what = "remove" /\ op[u].what \in OnOne /\ op[u].what \notin OnNode
        /\ UNCHANGED <<node, configs, ops>>
    BY DEF Ops!RemoveService, OnOne, OnNode
  <1>2. r \in ServiceShape /\ AsRead(r)
    BY <1>1, OpsTypes DEF ReadsOf, OpShape
  <1>3. CASE r.id \in Ops!Ids
    <2>1. Ops!Done(u, TRUE) /\ service' = [service EXCEPT ![Ops!Named(r.id)] = Ops!None]
      BY <1>3 DEF Ops!RemoveService
    <2>2. OneStep(u) /\ SeenKnown(op[u])' /\ ReadsOf(op'[u]) = {} /\ ~IsRestarting(op'[u])
      BY <2>1, Finished
    <2>. HIDE DEF r
    <2>. QED
      BY <1>1, <1>2, <1>3, <2>1, <2>2, TakenHolds
  <1>4. CASE r.id \notin Ops!Ids
    <2>1. Ops!Done(u, FALSE) /\ UNCHANGED service
      BY <1>4 DEF Ops!RemoveService
    <2>. QED
      BY <1>1, <2>1, FinishedAlone
  <1>. QED
    BY <1>3, <1>4

\* Of an operation on several services, one that is left is known as it was listed.
LEMMA LeftIs ==
  ASSUME OpsInv, NEW u \in Users, NEW left \in SUBSET ServiceShape, NEW step \in OpSteps, step # "write",
         op' = [op EXCEPT ![u].left = left, ![u].step = step] \/ op' = [op EXCEPT ![u].step = step, ![u].left = left],
         op[u].what \in OnEach, step = "each" => left # {}
  PROVE  OneStep(u) /\ SeenKnown(op[u])' /\ ReadsOf(op'[u]) = (IF step = "each" THEN left ELSE {}) /\ ~IsRestarting(op'[u])
  <1>. DEFINE a == [op[u] EXCEPT !.left = left]
              o == [a EXCEPT !.step = step]
              b == [op[u] EXCEPT !.step = step]
              p == [b EXCEPT !.left = left]
  <1>1. op' = [op EXCEPT ![u] = o] \/ op' = [op EXCEPT ![u] = p]
    OBVIOUS
  <1>2. op[u] \in OpShape /\ Steps(op[u])
    BY OpsTypes
  <1>3. a \in OpShape /\ a.left = left /\ a.what = op[u].what /\ a.name = op[u].name
        /\ a.arg = op[u].arg /\ a.on = op[u].on /\ a.tries = op[u].tries
    BY <1>2 DEF OpShape
  <1>4. b \in OpShape /\ b.step = step /\ b.what = op[u].what /\ b.name = op[u].name
        /\ b.arg = op[u].arg /\ b.on = op[u].on /\ b.tries = op[u].tries
    BY <1>2 DEF OpShape
  <1>. HIDE DEF a, b
  <1>5. o \in OpShape /\ o.left = left /\ o.step = step /\ o.what = op[u].what /\ o.name = op[u].name
        /\ o.arg = op[u].arg /\ o.on = op[u].on /\ o.tries = op[u].tries
    BY <1>3 DEF OpShape
  <1>6. p \in OpShape /\ p.left = left /\ p.step = step /\ p.what = op[u].what /\ p.name = op[u].name
        /\ p.arg = op[u].arg /\ p.on = op[u].on /\ p.tries = op[u].tries
    BY <1>4 DEF OpShape
  <1>. HIDE DEF o, p
  <1>7. PICK q \in {o, p} : op' = [op EXCEPT ![u] = q]
    BY <1>1
  <1>8. q \in OpShape /\ q.left = left /\ q.step = step /\ q.what = op[u].what /\ q.name = op[u].name
        /\ q.arg = op[u].arg /\ q.on = op[u].on /\ q.tries = op[u].tries
    BY <1>5, <1>6, <1>7
  <1>9. op' \in [Users -> OpShape] /\ op'[u] = q /\ \A v \in Users : v # u => op'[v] = op[v]
    BY <1>7, <1>8, OpsTypes
  <1>10. op[u].what \notin OnNode /\ op[u].what # "restart"
    BY DEF OnEach, OnNode
  <1>11. Steps(q)
    BY <1>2, <1>8 DEF Steps, OnEach
  <1>12. SeenKnown(op[u])' /\ ReadsOf(q) = (IF step = "each" THEN left ELSE {}) /\ ~IsRestarting(q)
    BY <1>8, <1>9, <1>10 DEF SeenKnown, ReadsOf, IsRestarting
  <1>. QED
    BY <1>8, <1>9, <1>11, <1>12 DEF OneStep

LEMMA ListHolds ==
  ASSUME OpsInv, NEW u \in Users, Ops!ListServices(u)
  PROVE  OpsInv'
  <1>. DEFINE T == {t \in Services : Ops!Exists(t) /\ (op[u].what = "rotate" => service[t].spec.uses = op[u].on)}
              left == {service[s] : s \in T}
  <1>1. op[u].step = "read" /\ op[u].what \in OnEach /\ op[u].what \notin OnNode /\ UNCHANGED <<service, node, configs, ops>>
    BY DEF Ops!ListServices, OnEach, OnNode
  <1>2. \/ Ops!Done(u, op[u].what = "rotate")
        \/ left # {} /\ op' = [op EXCEPT ![u].step = "each", ![u].left = left]
    BY DEF Ops!ListServices
  <1>3. CASE Ops!Done(u, op[u].what = "rotate")
    BY <1>1, <1>3, FinishedAlone
  <1>4. CASE left # {} /\ op' = [op EXCEPT ![u].step = "each", ![u].left = left]
    <2>1. left \in SUBSET ServiceShape
      BY OpsTypes
    <2>2. \A r \in left : AsRead(r)
      BY OpsTypes DEF AsRead, ServicesKnown, Ops!Exists, ServiceShape
    <2>. HIDE DEF left
    <2>3. PICK step \in OpSteps : step = "each" /\ step # "write"
      BY DEF OpSteps
    <2>4. OneStep(u) /\ SeenKnown(op[u])' /\ ReadsOf(op'[u]) = (IF step = "each" THEN left ELSE {}) /\ ~IsRestarting(op'[u])
      <3>1. op' = [op EXCEPT ![u].step = step, ![u].left = left]
        BY <1>4, <2>3
      <3>2. left \in SUBSET ServiceShape /\ left # {} /\ op[u].what \in OnEach
        BY <1>1, <1>4, <2>1
      <3>. QED
        BY <2>3, <3>1, <3>2, LeftIs
    <2>5. SeenKnown(op'[u])
      BY <1>1, <2>4 DEF SeenKnown
    <2>. QED
      BY <1>1, <2>2, <2>3, <2>4, <2>5, OnlyOp
  <1>. QED
    BY <1>2, <1>3, <1>4

LEMMA EachHolds ==
  ASSUME OpsInv, NEW u \in Users, Ops!EachService(u)
  PROVE  OpsInv'
  <1>. DEFINE Ok(r) == IF op[u].what = "rotate" THEN Ops!Accepts(r, Ops!Changed("rotate", op[u].arg, r)) ELSE r.id \in Ops!Ids
              Rest(r) == op[u].left \ {r}
              To(r) == IF ~Ok(r) THEN "failed" ELSE IF Rest(r) = {} THEN "done" ELSE "each"
  <1>1. op[u].step = "each" /\ UNCHANGED <<node, configs, ops>>
    BY DEF Ops!EachService
  <1>2. PICK r \in op[u].left :
          /\ op' = [op EXCEPT ![u].left = Rest(r), ![u].step = To(r)]
          /\ service' = IF ~Ok(r) THEN service
                        ELSE [service EXCEPT ![Ops!Named(r.id)] =
                                IF op[u].what = "rotate" THEN Ops!UpdatedTo(@, Ops!Changed("rotate", op[u].arg, r))
                                ELSE Ops!None]
    BY DEF Ops!EachService
  <1>3. op[u].what \in OnEach /\ op[u].left \in SUBSET ServiceShape /\ r \in ServiceShape /\ AsRead(r)
    BY <1>1, OpsTypes DEF Steps, ReadsOf, OpShape
  <1>4. op[u].what = "rotate" => op[u].arg \in 0..MaxConfigs
    BY OpsTypes DEF Steps
  <1>. DEFINE left == Rest(r)
              step == To(r)
  <1>5. left \in SUBSET ServiceShape /\ left \subseteq op[u].left /\ step \in OpSteps /\ step # "write"
        /\ (step = "each" => left # {})
    BY <1>3 DEF OpSteps
  <1>6. op' = [op EXCEPT ![u].left = left, ![u].step = step]
    BY <1>2
  <1>. HIDE DEF left, step
  <1>7. OneStep(u) /\ SeenKnown(op[u])' /\ ReadsOf(op'[u]) = (IF step = "each" THEN left ELSE {}) /\ ~IsRestarting(op'[u])
    BY <1>3, <1>5, <1>6, LeftIs
  <1>8. ReadsOf(op'[u]) \subseteq ReadsOf(op[u])
    BY <1>1, <1>5, <1>7 DEF ReadsOf
  <1>9. CASE ~Ok(r)
    <2>1. UNCHANGED service
      BY <1>2, <1>9
    <2>2. SeenKnown(op'[u])
      BY <1>1, <1>7 DEF SeenKnown
    <2>3. \A q \in ReadsOf(op'[u]) : AsRead(q)
      BY <1>8, OpsTypes
    <2>. QED
      BY <1>1, <1>7, <2>1, <2>2, <2>3, OnlyOp
  <1>10. CASE Ok(r) /\ op[u].what = "rotate"
    <2>1. Ops!Accepts(r, Ops!Changed("rotate", op[u].arg, r))
          /\ service' = [service EXCEPT ![Ops!Named(r.id)] = Ops!UpdatedTo(@, Ops!Changed("rotate", op[u].arg, r))]
      BY <1>2, <1>10
    <2>2. PICK what \in {"scale", "restart", "rollback", "rotate"} : what = "rotate"
      OBVIOUS
    <2>3. what = op[u].what /\ Ops!Accepts(r, Ops!Changed(what, op[u].arg, r))
          /\ service' = [service EXCEPT ![Ops!Named(r.id)] = Ops!UpdatedTo(@, Ops!Changed(what, op[u].arg, r))]
      BY <1>10, <2>1, <2>2
    <2>4. (what = "scale" => op[u].arg \in 0..2) /\ (what = "rotate" => op[u].arg \in 0..MaxConfigs)
      BY <1>4, <1>10, <2>2
    <2>. HIDE DEF Ok, Rest, To
    <2>. QED
      BY <1>1, <1>3, <1>7, <1>8, <2>2, <2>3, <2>4, WriteHolds
  <1>11. CASE Ok(r) /\ op[u].what # "rotate"
    <2>1. r.id \in Ops!Ids /\ service' = [service EXCEPT ![Ops!Named(r.id)] = Ops!None]
      BY <1>2, <1>11
    <2>. QED
      BY <1>1, <1>3, <1>7, <1>8, <2>1, TakenHolds
  <1>. QED
    BY <1>9, <1>10, <1>11

\* CreateConfigVersion and DeleteConfig: no config in use goes.
LEMMA ConfigsHold ==
  ASSUME OpsInv, NEW u \in Users, Ops!Done(u, TRUE), UNCHANGED <<service, node, ops>>,
         configs' \subseteq 1..MaxConfigs,
         \A s \in Services : Ops!Exists(s) => service[s].spec.uses \in configs' \cup {0}
  PROVE  OpsInv'
  <1>1. OneStep(u) /\ SeenKnown(op[u])' /\ ReadsOf(op'[u]) = {} /\ ~IsRestarting(op'[u])
    BY Finished
  <1>2. ops' \in 0..MaxOps /\ ops <= ops'
    BY OpsTypes
  <1>3. service' \in [Services -> ServiceShape]
    BY OpsTypes
  <1>4. ServicesKnown' /\ AllKeep
    BY DEF OpsInv, ServicesKnown, Ops!Exists, AllKeep, AsRead
  <1>5. ForcesKnown'
    BY <1>1, <1>2, ForcesKeep
  <1>6. node' = node
    OBVIOUS
  <1>. QED
    BY <1>1, <1>2, <1>3, <1>4, <1>5, <1>6, OpsHold

LEMMA CreateHolds ==
  ASSUME OpsInv, NEW u \in Users, Ops!CreateVersion(u)
  PROVE  OpsInv'
  <1>1. op[u].what = "create" /\ op[u].what \notin OnNode /\ UNCHANGED <<service, node, ops>>
    BY DEF Ops!CreateVersion, OnNode
  <1>2. CASE op[u].on + 1 \in configs
    <2>1. Ops!Done(u, FALSE) /\ UNCHANGED configs
      BY <1>2 DEF Ops!CreateVersion
    <2>. QED
      BY <1>1, <2>1, FinishedAlone
  <1>3. CASE op[u].on + 1 \notin configs
    <2>1. Ops!Done(u, TRUE) /\ configs' = configs \cup {op[u].on + 1}
      BY <1>3 DEF Ops!CreateVersion
    <2>2. op[u].on \in 0..MaxConfigs /\ op[u].on < MaxConfigs
      BY <1>1, OpsTypes DEF Steps, OpShape
    <2>3. configs' \subseteq 1..MaxConfigs
      BY <2>1, <2>2, OpsTypes
    <2>4. \A s \in Services : Ops!Exists(s) => service[s].spec.uses \in configs' \cup {0}
      BY <2>1 DEF OpsInv, ServicesKnown
    <2>. QED
      BY <1>1, <2>1, <2>3, <2>4, ConfigsHold
  <1>. QED
    BY <1>2, <1>3

LEMMA CheckHolds ==
  ASSUME OpsInv, NEW u \in Users, Ops!CheckConfig(u)
  PROVE  OpsInv'
  <1>1. op[u].step = "read" /\ op[u].what = "delete" /\ op[u].what \notin OnNode /\ op[u].what \notin OnOne
        /\ UNCHANGED <<service, node, configs, ops>>
    BY DEF Ops!CheckConfig, OnNode, OnOne
  <1>2. Ops!Done(u, FALSE) \/ Ops!Become(u, "write")
    BY DEF Ops!CheckConfig
  <1>3. CASE Ops!Done(u, FALSE)
    BY <1>1, <1>3, FinishedAlone
  <1>4. CASE Ops!Become(u, "write")
    <2>1. PICK step \in OpSteps : step = "write"
      BY DEF OpSteps
    <2>2. OneStep(u) /\ op'[u].step = "write" /\ op'[u].what = op[u].what
      BY <1>1, <1>4, <2>1, Became
    <2>3. SeenKnown(op'[u]) /\ ReadsOf(op'[u]) = {} /\ ~IsRestarting(op'[u])
      BY <1>1, <2>2 DEF SeenKnown, ReadsOf, IsRestarting
    <2>. QED
      BY <1>1, <2>2, <2>3, OnlyOp
  <1>. QED
    BY <1>2, <1>3, <1>4

LEMMA DeleteHolds ==
  ASSUME OpsInv, NEW u \in Users, Ops!DeleteConfig(u)
  PROVE  OpsInv'
  <1>1. op[u].what = "delete" /\ op[u].what \notin OnNode /\ UNCHANGED <<service, node, ops>>
    BY DEF Ops!DeleteConfig, OnNode
  <1>2. CASE op[u].on \notin configs \/ Ops!Using(op[u].on) # {}
    <2>1. Ops!Done(u, FALSE) /\ UNCHANGED configs
      BY <1>2 DEF Ops!DeleteConfig
    <2>. QED
      BY <1>1, <2>1, FinishedAlone
  <1>3. CASE op[u].on \in configs /\ Ops!Using(op[u].on) = {}
    <2>1. Ops!Done(u, TRUE) /\ configs' = configs \ {op[u].on}
      BY <1>3 DEF Ops!DeleteConfig
    <2>2. configs' \subseteq 1..MaxConfigs
      BY <2>1, OpsTypes
    <2>3. \A s \in Services : Ops!Exists(s) => service[s].spec.uses \in configs' \cup {0}
      BY <1>3, <2>1 DEF OpsInv, ServicesKnown, Ops!Using
    <2>. QED
      BY <1>1, <2>1, <2>2, <2>3, ConfigsHold
  <1>. QED
    BY <1>2, <1>3

-----------------------------------------------------------------------------
(***************************************************************************)
(* The operations on the swarm: the node                                   *)
(***************************************************************************)
LEMMA InspectHolds ==
  ASSUME OpsInv, NEW u \in Users, Ops!InspectNode(u)
  PROVE  OpsInv'
  <1>. DEFINE since == IF op[u].tries = 0 THEN node.ver ELSE op[u].since
              a == [op[u] EXCEPT !.step = "write"]
              b == [a EXCEPT !.seen = node]
              o == [b EXCEPT !.since = since]
  <1>1. op[u].step = "read" /\ op[u].what \in OnNode /\ UNCHANGED <<service, node, configs, ops>>
    BY DEF Ops!InspectNode, Ops!OfTheNode, OnNode
  <1>2. op[u].what \notin OnOne \cup OnEach \cup {"restart", "create"}
    BY <1>1 DEF OnOne, OnEach, OnNode
  <1>3. op[u] \in OpShape /\ Steps(op[u]) /\ SeenKnown(op[u]) /\ node \in NodeShape /\ node.ver \in Nat
    BY OpsTypes DEF NodeShape
  <1>4. op' = [op EXCEPT ![u] = o]
    BY DEF Ops!InspectNode
  <1>5. since \in Nat /\ op[u].tries \in Nat /\ since + op[u].tries <= node.ver
    BY <1>1, <1>3 DEF SeenKnown, OpShape
  <1>6. a \in OpShape /\ a.step = "write" /\ a.what = op[u].what /\ a.tries = op[u].tries
        /\ a.name = op[u].name /\ a.arg = op[u].arg /\ a.on = op[u].on
    BY <1>3 DEF OpShape, OpSteps
  <1>. HIDE DEF since, a
  <1>7. b \in OpShape /\ b.step = "write" /\ b.what = op[u].what /\ b.tries = op[u].tries /\ b.seen = node
        /\ b.name = op[u].name /\ b.arg = op[u].arg /\ b.on = op[u].on
    BY <1>3, <1>6 DEF OpShape
  <1>. HIDE DEF b
  <1>8. o \in OpShape /\ o.step = "write" /\ o.what = op[u].what /\ o.tries = op[u].tries /\ o.seen = node
        /\ o.since = since /\ o.name = op[u].name /\ o.arg = op[u].arg /\ o.on = op[u].on
    BY <1>5, <1>7 DEF OpShape
  <1>. HIDE DEF o
  <1>9. op' \in [Users -> OpShape] /\ op'[u] = o /\ \A v \in Users : v # u => op'[v] = op[v]
    BY <1>4, <1>8, OpsTypes
  <1>10. Steps(o)
    BY <1>1, <1>3, <1>8 DEF Steps
  <1>11. SeenKnown(o) /\ ReadsOf(o) = {} /\ ~IsRestarting(o)
    BY <1>2, <1>3, <1>5, <1>8 DEF SeenKnown, ReadsOf, IsRestarting
  <1>. QED
    BY <1>1, <1>9, <1>10, <1>11, OnlyOp DEF OneStep

\* What a change makes of the node is a node of the version that was read.
LEMMA MutatedIs ==
  ASSUME NEW n \in NodeShape, NEW what
  PROVE  Ops!Mutated(what, n) \in NodeShape /\ Ops!Mutated(what, n).ver = n.ver
  BY DEF Ops!Mutated, NodeShape

LEMMA RetryHolds ==
  ASSUME OpsInv, NEW u \in Users, op[u].step = "write", op[u].what \in OnNode, op[u].seen.ver # node.ver,
         Ops!Retry(u), UNCHANGED <<service, node, configs, ops>>
  PROVE  OpsInv'
  <1>1. op[u] \in OpShape /\ Steps(op[u]) /\ SeenKnown(op[u]) /\ Attempts \in Nat \ {0} /\ node.ver \in Nat
    BY OpsTypes DEF NodeShape
  <1>2. op[u].tries \in Nat /\ op[u].since \in Nat /\ op[u].seen.ver \in Nat
    BY <1>1 DEF OpShape, NodeShape
  <1>3. op[u].since + op[u].tries + 1 <= node.ver
    BY <1>1, <1>2 DEF SeenKnown
  <1>4. op[u].what \notin OnOne \cup OnEach \cup {"restart", "create"}
    BY DEF OnOne, OnEach, OnNode
  <1>5. CASE op[u].tries + 1 < Attempts
    <2>. DEFINE a == [op[u] EXCEPT !.tries = @ + 1]
                o == [a EXCEPT !.step = "read"]
    <2>1. op' = [op EXCEPT ![u] = o]
      BY <1>5 DEF Ops!Retry
    <2>2. a \in OpShape /\ a.what = op[u].what /\ a.tries = op[u].tries + 1 /\ a.since = op[u].since
          /\ a.name = op[u].name /\ a.arg = op[u].arg /\ a.on = op[u].on
      BY <1>1, <1>2 DEF OpShape
    <2>. HIDE DEF a
    <2>3. o \in OpShape /\ o.step = "read" /\ o.what = op[u].what /\ o.tries = op[u].tries + 1 /\ o.since = op[u].since
          /\ o.name = op[u].name /\ o.arg = op[u].arg /\ o.on = op[u].on
      BY <2>2 DEF OpShape, OpSteps
    <2>. HIDE DEF o
    <2>4. op' \in [Users -> OpShape] /\ op'[u] = o /\ \A v \in Users : v # u => op'[v] = op[v]
      BY <2>1, <2>3, OpsTypes
    <2>5. Steps(o)
      BY <1>1, <1>5, <2>3 DEF Steps
    <2>6. SeenKnown(o) /\ ReadsOf(o) = {} /\ ~IsRestarting(o)
      BY <1>2, <1>3, <1>4, <2>3 DEF SeenKnown, ReadsOf, IsRestarting
    <2>. QED
      BY <2>4, <2>5, <2>6, OnlyOp DEF OneStep
  <1>6. CASE ~(op[u].tries + 1 < Attempts)
    <2>1. op[u].since + Attempts <= node.ver
      BY <1>1, <1>2, <1>3, <1>6
    <2>. QED
      BY <1>6, <2>1, FinishedAlone DEF Ops!Retry
  <1>. QED
    BY <1>5, <1>6

LEMMA NodeHolds ==
  ASSUME OpsInv, NEW u \in Users, Ops!UpdateNode(u)
  PROVE  OpsInv'
  <1>1. op[u].step = "write" /\ op[u].what \in OnNode /\ UNCHANGED <<service, configs, ops>>
    BY DEF Ops!UpdateNode, Ops!OfTheNode, OnNode
  <1>2. CASE op[u].seen.ver = node.ver
    <2>. DEFINE m == Ops!Mutated(op[u].what, op[u].seen)
                n == [m EXCEPT !.ver = @ + 1]
    <2>1. Ops!Done(u, TRUE) /\ node' = n
      BY <1>2 DEF Ops!UpdateNode
    <2>2. m \in NodeShape /\ m.ver = node.ver /\ node.ver \in Nat
      <3>1. op[u].seen \in NodeShape
        BY OpsTypes DEF OpShape
      <3>2. node.ver \in Nat
        BY OpsTypes DEF NodeShape
      <3>. QED
        BY <1>2, <3>1, <3>2, MutatedIs
    <2>. HIDE DEF m
    <2>3. n \in NodeShape /\ n.ver = node.ver + 1
      BY <2>2 DEF NodeShape
    <2>. HIDE DEF n
    <2>4. node' \in NodeShape /\ node.ver < node'.ver
      BY <2>1, <2>2, <2>3
    <2>5. OneStep(u) /\ SeenKnown(op[u])' /\ ReadsOf(op'[u]) = {} /\ ~IsRestarting(op'[u])
      BY <2>1, Finished
    <2>6. ops' \in 0..MaxOps /\ ops <= ops' /\ configs' \subseteq 1..MaxConfigs
      BY <1>1, OpsTypes
    <2>7. service' \in [Services -> ServiceShape] /\ ServicesKnown' /\ AllKeep
      BY <1>1, <2>6, SameKeeps
    <2>8. ForcesKnown'
      BY <1>1, <2>5, <2>6, ForcesKeep
    <2>. QED
      BY <2>4, <2>5, <2>6, <2>7, <2>8, OpsHold
  <1>3. CASE op[u].seen.ver # node.ver
    BY <1>1, <1>3, RetryHolds DEF Ops!UpdateNode
  <1>. QED
    BY <1>2, <1>3

-----------------------------------------------------------------------------
(***************************************************************************)
(* The operations on the swarm: nothing another user did is undone         *)
(***************************************************************************)
LEMMA OpsStep == OpsInv /\ [Ops!Next]_operations => OpsInv'
  <1>. SUFFICES ASSUME OpsInv, [Ops!Next]_operations
               PROVE  OpsInv'
    OBVIOUS
  <1>1. CASE UNCHANGED operations
    BY <1>1 DEF operations, OpsInv, OpsShape, ServicesKnown, OperationsKnown, AsRead, SeenKnown, ForcesKnown, Forced,
                Restarting, Ops!Exists
  <1>2. CASE \E s \in Services : Ops!Deploy(s)
    BY <1>2, DeployHolds
  <1>3. CASE Ops!RelabelNode
    BY <1>3, RelabelHolds
  <1>4. ASSUME NEW u \in Users,
               \/ Ops!Begun(u) \/ Ops!FindService(u) \/ Ops!UpdateService(u) \/ Ops!RemoveService(u)
               \/ Ops!ListServices(u) \/ Ops!EachService(u) \/ Ops!CreateVersion(u) \/ Ops!CheckConfig(u)
               \/ Ops!DeleteConfig(u) \/ Ops!InspectNode(u) \/ Ops!UpdateNode(u) \/ Ops!CallFails(u)
        PROVE  OpsInv'
    BY <1>4, BegunHolds, FindHolds, UpdateHolds, RemoveHolds, ListHolds, EachHolds, CreateHolds, CheckHolds,
       DeleteHolds, InspectHolds, NodeHolds, CallFailsHolds
  <1>. QED
    BY <1>1, <1>2, <1>3, <1>4 DEF Ops!Next

LEMMA OpsTyped == OpsInv => Ops!TypeOK /\ Ops!GivesUpOnlyToOthers
  <1>. SUFFICES ASSUME OpsInv
               PROVE  Ops!TypeOK /\ Ops!GivesUpOnlyToOthers
    OBVIOUS
  <1>1. MaxOps \in Nat /\ MaxConfigs \in Nat \ {0} /\ Attempts \in Nat \ {0} /\ ops \in 0..MaxOps
        /\ configs \subseteq 1..MaxConfigs
    BY OpsAssumption DEF OpsInv, OpsShape
  <1>2. ASSUME NEW sp \in SpecShape, Forced(sp)
        PROVE  sp \in Ops!Specs
    <2>1. sp.force \in Int /\ Cardinality(Restarting) \in Nat
      BY RestartingCounts DEF SpecShape
    <2>2. sp.force \in -1..MaxOps
      BY <1>1, <1>2, <2>1 DEF Forced
    <2>. QED
      BY <2>2 DEF SpecShape, Ops!Specs
  <1>3. \A s \in Services : service[s].spec \in Ops!Specs /\ service[s].prev \in Ops!Specs
    BY <1>2 DEF OpsInv, OpsShape, ServiceShape, ForcesKnown
  <1>4. \A s \in Services : Ops!Exists(s) => service[s].spec.uses \in configs \cup {0}
    BY DEF OpsInv, ServicesKnown
  <1>5. ASSUME NEW u \in Users
        PROVE  /\ op[u].step \in {"idle", "read", "write", "each", "done", "failed", "erred"}
               /\ op[u].tries \in 0..(Attempts - 1)
               /\ (op[u].step = "each" => op[u].left # {})
               /\ op[u].step = "failed" /\ op[u].what \in OnNode => node.ver >= op[u].since + Attempts
    <2>1. op[u] \in OpShape /\ Steps(op[u]) /\ SeenKnown(op[u]) /\ node.ver \in Nat
      BY OpsTypes DEF NodeShape
    <2>2. op[u].tries \in Nat /\ op[u].since \in Nat /\ op[u].step \in OpSteps
      BY <2>1 DEF OpShape
    <2>. QED
      BY <1>1, <2>1, <2>2 DEF OpSteps, Steps, SeenKnown
  <1>. QED
    BY <1>1, <1>3, <1>4, <1>5 DEF Ops!TypeOK, Ops!GivesUpOnlyToOthers, Ops!OfTheNode, OnNode

\* A step in which an operation goes on is a step of that operation.
LEMMA OwnStep ==
  ASSUME OpsInv, Ops!Next, NEW u \in Users, op'[u] # op[u]
  PROVE  \/ Ops!Begun(u) \/ Ops!FindService(u) \/ Ops!UpdateService(u) \/ Ops!RemoveService(u)
         \/ Ops!ListServices(u) \/ Ops!EachService(u) \/ Ops!CreateVersion(u) \/ Ops!CheckConfig(u)
         \/ Ops!DeleteConfig(u) \/ Ops!InspectNode(u) \/ Ops!UpdateNode(u) \/ Ops!CallFails(u)
  <1>. DEFINE Goes(v) ==
                \/ Ops!Begun(v) \/ Ops!FindService(v) \/ Ops!UpdateService(v) \/ Ops!RemoveService(v)
                \/ Ops!ListServices(v) \/ Ops!EachService(v) \/ Ops!CreateVersion(v) \/ Ops!CheckConfig(v)
                \/ Ops!DeleteConfig(v) \/ Ops!InspectNode(v) \/ Ops!UpdateNode(v) \/ Ops!CallFails(v)
  <1>1. op \in [Users -> OpShape]
    BY OpsTypes
  <1>2. ASSUME NEW v \in Users, Goes(v)
        PROVE  \E o : op' = [op EXCEPT ![v] = o]
    <2>1. CASE Ops!Begun(v)
      BY <2>1 DEF Ops!Begun, Ops!Begin
    <2>2. CASE Ops!FindService(v)
      BY <2>2 DEF Ops!FindService, Ops!Done, Ops!Become
    <2>3. CASE Ops!UpdateService(v)
      BY <2>3 DEF Ops!UpdateService, Ops!Done, Ops!Become
    <2>4. CASE Ops!RemoveService(v)
      BY <2>4 DEF Ops!RemoveService, Ops!Done, Ops!Become
    <2>5. CASE Ops!ListServices(v)
      BY <2>5 DEF Ops!ListServices, Ops!Done, Ops!Become
    <2>6. CASE Ops!EachService(v)
      BY <2>6 DEF Ops!EachService
    <2>7. CASE Ops!CreateVersion(v)
      BY <2>7 DEF Ops!CreateVersion, Ops!Done, Ops!Become
    <2>8. CASE Ops!CheckConfig(v)
      BY <2>8 DEF Ops!CheckConfig, Ops!Done, Ops!Become
    <2>9. CASE Ops!DeleteConfig(v)
      BY <2>9 DEF Ops!DeleteConfig, Ops!Done, Ops!Become
    <2>10. CASE Ops!InspectNode(v)
      BY <2>10 DEF Ops!InspectNode
    <2>11. CASE Ops!UpdateNode(v)
      BY <2>11 DEF Ops!UpdateNode, Ops!Retry, Ops!Done, Ops!Become
    <2>12. CASE Ops!CallFails(v)
      BY <2>12 DEF Ops!CallFails, Ops!Become
    <2>. QED
      BY <1>2, <2>1, <2>2, <2>3, <2>4, <2>5, <2>6, <2>7, <2>8, <2>9, <2>10, <2>11, <2>12
  <1>. HIDE DEF Goes
  <1>3. ASSUME NEW v \in Users, Goes(v)
        PROVE  v = u
    BY <1>1, <1>2, <1>3
  <1>4. op' = op \/ \E v \in Users : Goes(v)
    BY DEF Ops!Next, Ops!Deploy, Ops!RelabelNode, Goes
  <1>. QED
    BY <1>3, <1>4 DEF Goes

\* The service that is written is the one that was read.
LEMMA WrittenIs ==
  ASSUME OpsInv, NEW r \in ServiceShape, AsRead(r), NEW sp \in SpecShape, Ops!Accepts(r, sp),
         service' = [service EXCEPT ![Ops!Named(r.id)] = Ops!UpdatedTo(@, sp)]
  PROVE  \A s \in Services : service'[s] # service[s] => service'[s].spec = sp /\ service[s] = r
  <1>1. Ops!Named(r.id) \in Services /\ service[Ops!Named(r.id)] = r
    BY AcceptedIs
  <1>2. service' = [service EXCEPT ![Ops!Named(r.id)] = Ops!UpdatedTo(r, sp)]
    BY <1>1
  <1>3. service \in [Services -> ServiceShape]
    BY DEF OpsInv, OpsShape
  <1>4. SUFFICES ASSUME NEW s \in Services, service'[s] # service[s]
                 PROVE  service'[s].spec = sp /\ service[s] = r
    OBVIOUS
  <1>5. s = Ops!Named(r.id) /\ service'[s] = Ops!UpdatedTo(r, sp)
    BY <1>1, <1>2, <1>3, <1>4
  <1>. QED
    BY <1>1, <1>5, UpdatedIs

LEMMA OpsKeep == OpsInv /\ [Ops!Next]_operations => [Ops!ChangesItsOwn]_(Ops!vars)
  <1>. SUFFICES ASSUME OpsInv, Ops!Next, NEW u \in Users, op'[u] # op[u]
               PROVE  /\ \A s \in Services :
                           service'[s] # service[s] /\ service'[s] # Ops!None =>
                             service'[s].spec = Ops!Changed(op[u].what, op[u].arg, service[s])
                      /\ node' # node => node' = [Ops!Mutated(op[u].what, node) EXCEPT !.ver = node.ver + 1]
    BY DEF operations, Ops!vars, Ops!ChangesItsOwn
  <1>1. op \in [Users -> OpShape] /\ op[u] \in OpShape /\ Steps(op[u]) /\ SeenKnown(op[u])
        /\ (\A r \in ReadsOf(op[u]) : AsRead(r)) /\ service \in [Services -> ServiceShape] /\ node \in NodeShape
    BY OpsTypes
  <1>3. ASSUME NEW r, NEW s \in Services, service' = [service EXCEPT ![Ops!Named(r.id)] = Ops!None],
               service'[s] # service[s]
        PROVE  service'[s] = Ops!None
    BY <1>1, <1>3
  <1>4. CASE Ops!UpdateService(u)
    <2>. DEFINE r == op[u].read
                what == op[u].what
                arg == op[u].arg
    <2>1. node' = node /\ op[u].step = "write" /\ what \in {"scale", "restart", "rollback"}
      BY <1>4 DEF Ops!UpdateService
    <2>2. r \in ServiceShape /\ AsRead(r) /\ (what = "scale" => arg \in 0..2)
      BY <1>1, <2>1 DEF ReadsOf, OpShape, OnOne, Steps
    <2>3. \/ service' = service
          \/ /\ Ops!Accepts(r, Ops!Changed(what, arg, r))
             /\ service' = [service EXCEPT ![Ops!Named(r.id)] = Ops!UpdatedTo(@, Ops!Changed(what, arg, r))]
      BY <1>4 DEF Ops!UpdateService
    <2>. DEFINE sp == Ops!Changed(what, arg, r)
    <2>. HIDE DEF r, what, arg
    <2>4. sp \in SpecShape
      BY <2>1, <2>2, ChangedIs
    <2>. HIDE DEF sp
    <2>5. \A s \in Services : service'[s] # service[s] => service'[s].spec = sp /\ service[s] = r
      BY <2>2, <2>3, <2>4, WrittenIs DEF sp
    <2>. QED
      BY <2>1, <2>5 DEF what, arg, sp
  <1>5. CASE Ops!EachService(u)
    <2>1. PICK r \in op[u].left :
            \/ service' = service
            \/ /\ op[u].what = "rotate" /\ Ops!Accepts(r, Ops!Changed("rotate", op[u].arg, r))
               /\ service' = [service EXCEPT ![Ops!Named(r.id)] = Ops!UpdatedTo(@, Ops!Changed("rotate", op[u].arg, r))]
            \/ service' = [service EXCEPT ![Ops!Named(r.id)] = Ops!None]
      BY <1>5 DEF Ops!EachService
    <2>2. op[u].step = "each" /\ node' = node /\ r \in ServiceShape /\ AsRead(r)
          /\ (op[u].what = "rotate" => op[u].arg \in 0..MaxConfigs)
      BY <1>1, <1>5 DEF Ops!EachService, ReadsOf, OpShape, Steps
    <2>3. CASE /\ op[u].what = "rotate" /\ Ops!Accepts(r, Ops!Changed("rotate", op[u].arg, r))
               /\ service' = [service EXCEPT ![Ops!Named(r.id)] = Ops!UpdatedTo(@, Ops!Changed("rotate", op[u].arg, r))]
      <3>. DEFINE sp == Ops!Changed("rotate", op[u].arg, r)
      <3>1. sp \in SpecShape
        BY <2>2, <2>3 DEF Ops!Changed, ServiceShape, SpecShape
      <3>2. Ops!Accepts(r, sp) /\ service' = [service EXCEPT ![Ops!Named(r.id)] = Ops!UpdatedTo(@, sp)]
        BY <2>3
      <3>. HIDE DEF sp
      <3>3. \A s \in Services : service'[s] # service[s] => service'[s].spec = sp /\ service[s] = r
        BY <2>2, <3>1, <3>2, WrittenIs
      <3>. QED
        BY <2>2, <2>3, <3>3 DEF sp
    <2>4. CASE service' = [service EXCEPT ![Ops!Named(r.id)] = Ops!None]
      BY <1>3, <2>2, <2>4
    <2>. QED
      BY <2>1, <2>2, <2>3, <2>4
  <1>6. CASE Ops!RemoveService(u)
    BY <1>3, <1>6 DEF Ops!RemoveService
  <1>7. CASE Ops!UpdateNode(u)
    <2>1. op[u].what \in OnNode /\ op[u].step = "write" /\ service' = service
          /\ (node' = node \/ (op[u].seen.ver = node.ver
                               /\ node' = [Ops!Mutated(op[u].what, op[u].seen) EXCEPT !.ver = @ + 1]))
      BY <1>7 DEF Ops!UpdateNode, Ops!OfTheNode, OnNode
    <2>2. op[u].seen.ver = node.ver => op[u].seen = node
      BY <1>1, <2>1 DEF SeenKnown
    <2>3. Ops!Mutated(op[u].what, node).ver = node.ver
      BY <1>1, MutatedIs
    <2>. QED
      BY <2>1, <2>2, <2>3
  <1>8. CASE \/ Ops!Begun(u) \/ Ops!FindService(u) \/ Ops!ListServices(u) \/ Ops!CreateVersion(u)
             \/ Ops!CheckConfig(u) \/ Ops!DeleteConfig(u) \/ Ops!InspectNode(u) \/ Ops!CallFails(u)
    <2>1. service' = service /\ node' = node
      BY <1>8 DEF Ops!Begun, Ops!Begin, Ops!FindService, Ops!ListServices, Ops!CreateVersion, Ops!CheckConfig,
                  Ops!DeleteConfig, Ops!InspectNode, Ops!CallFails
    <2>. QED
      BY <2>1
  <1>. QED
    BY <1>4, <1>5, <1>6, <1>7, <1>8, OwnStep

\* An operation leaves of a service and of the node what others did since it read them, no
\* config that a service uses goes, and a change of the node gives up only after as many
\* changes of others as it made attempts (docker/service.go, node.go, config.go).
THEOREM OthersWorkIsKept == Spec => KeepsWhatOthersDid
  <1>1. Init => OpsInv
    BY OpsInit DEF Init
  <1>2. [Next]_vars => [Ops!Next]_operations
    BY DEF Next, vars
  <1>3. OpsInv /\ [Ops!Next]_operations => OpsInv'
    BY OpsStep
  <1>4. OpsInv /\ [Ops!Next]_operations => [Ops!ChangesItsOwn]_(Ops!vars)
    BY OpsKeep
  <1>5. OpsInv => Ops!TypeOK /\ Ops!GivesUpOnlyToOthers
    BY OpsTyped
  <1>. QED
    BY <1>1, <1>2, <1>3, <1>4, <1>5, PTL DEF Spec, KeepsWhatOthersDid, Ops!KeepsWhatOthersDid

-----------------------------------------------------------------------------
(***************************************************************************)
(* The editing of a stack: what a file carries                             *)
(***************************************************************************)
Unsaid == Stack!Unsaid
MountShape ==
  [kind : {"none", "bind", "anonymous", "tmpfs", "volume"}, own : BOOLEAN, driver : {"default", "nfs"}, options : BOOLEAN]
ServiceSpec ==
  [image : {"tag", "other"}, digest : {"now", "then", "none"},
   command : [entry : {"none", "entry"}, args : {"none", "args", "entry"}], mount : MountShape,
   empty : SUBSET Stack!EnvNames, filled : SUBSET Stack!EnvNames, text : {"words", "dollar"},
   secret : [target : {"same", "other"}, perms : {"default", "own"}],
   port : [proto : {"tcp", "udp"}, publish : {"ingress", "host"}], net : {"stack_net", "net"},
   aliases : BOOLEAN, mode : {"replicated", "global", "job", "absent"}, replicas : Nat, endpoint : {"vip", "dnsrr"},
   placed : BOOLEAN, spread : BOOLEAN, cpu : Nat, delay : {-1, 0, 5}, parallelism : {-1, 0, 1, 2},
   health : {"inherited", "own", "NONE"}, labels : SUBSET {"namespace", "tier"}]

Unnamed(m) == m.kind # "volume" => m.own = FALSE /\ m.driver = "default"

\* Only a volume has a name or a driver, only what is replicated a number of replicas.
IsASpec(spec) ==
  /\ spec \in ServiceSpec /\ "namespace" \in spec.labels
  /\ Unnamed(spec.mount)
  /\ (spec.mode = "global" => spec.replicas = 0) /\ (spec.mode = "job" => spec.replicas = 1)

LEMMA PlainIsASpec == IsASpec(Stack!Plain) /\ Stack!Plain.mode = "replicated"
  BY DEF IsASpec, Unnamed, ServiceSpec, MountShape, Stack!Plain, Stack!NoMount, Stack!EnvNames

LEMMA AbsentIsASpec == IsASpec(Stack!Absent) /\ Stack!Absent.mode = "absent"
  <1>1. [Stack!Plain EXCEPT !.mode = "absent"] \in ServiceSpec
    BY PlainIsASpec DEF IsASpec, ServiceSpec
  <1>2. Stack!Absent = [Stack!Plain EXCEPT !.mode = "absent"]
    BY DEF Stack!Absent
  <1>3. Stack!Absent.labels = Stack!Plain.labels /\ Stack!Absent.mount = Stack!Plain.mount /\ Stack!Absent.mode = "absent"
    BY <1>2, PlainIsASpec DEF IsASpec, ServiceSpec
  <1>. QED
    BY <1>1, <1>2, <1>3, PlainIsASpec DEF IsASpec

LEMMA PlainIs ==
  /\ Stack!Plain.mount = Stack!NoMount /\ Stack!Plain.mode = "replicated" /\ Stack!Plain.labels = {"namespace"}
  /\ Stack!NoMount \in MountShape /\ Stack!NoMount.kind = "none" /\ Unnamed(Stack!NoMount)
  /\ Stack!NoMount.own = FALSE /\ Stack!NoMount.driver = "default" /\ Stack!NoMount.options = FALSE
  BY DEF Stack!Plain, Stack!NoMount, MountShape, Unnamed

\* Each spec varies in one thing.
LEMMA SpecsAreSpecs ==
  ASSUME NEW spec \in Stack!Specs
  PROVE  IsASpec(spec) /\ spec.mode # "absent"
  <1>. DEFINE P == Stack!Plain
  <1>1. P \in ServiceSpec /\ IsASpec(P)
    BY PlainIsASpec DEF IsASpec
  <1>2. /\ P.mount = Stack!NoMount /\ P.mode = "replicated" /\ P.labels = {"namespace"}
        /\ Stack!NoMount \in MountShape /\ Stack!NoMount.kind = "none" /\ Unnamed(Stack!NoMount)
        /\ Stack!NoMount.own = FALSE /\ Stack!NoMount.driver = "default" /\ Stack!NoMount.options = FALSE
    BY PlainIs
  <1>3. \/ spec = P
        \/ \E e \in {"none", "entry"}, a \in {"none", "args"} : spec = [P EXCEPT !.command = [entry |-> e, args |-> a]]
        \/ \E own \in BOOLEAN, driver \in {"default", "nfs"} : spec = [P EXCEPT !.mount = Stack!Volume(own, driver)]
        \/ \E kind \in {"bind", "anonymous", "tmpfs"} : spec = [P EXCEPT !.mount.kind = kind]
        \/ \E kind \in {"bind", "volume", "tmpfs"} : spec = [P EXCEPT !.mount = Stack!Optioned(kind)]
        \/ \E d \in {"then", "none"} : spec = [P EXCEPT !.digest = d]
        \/ \E name \in Stack!EnvNames : spec = [P EXCEPT !.empty = {name}]
        \/ \E t \in {"same", "other"}, p \in {"default", "own"} : spec = [P EXCEPT !.secret = [target |-> t, perms |-> p]]
        \/ \E p \in {"tcp", "udp"}, m \in {"ingress", "host"} : spec = [P EXCEPT !.port = [proto |-> p, publish |-> m]]
        \/ spec = [P EXCEPT !.mode = "global", !.replicas = 0]
        \/ spec = [P EXCEPT !.mode = "job"]
        \/ \E n \in {4, 625, 5000, 6667} : spec = [P EXCEPT !.cpu = n]
        \/ \E n \in {0, 5} : spec = [P EXCEPT !.delay = n]
        \/ \E n \in {0, 2} : spec = [P EXCEPT !.parallelism = n]
        \/ \E h \in {"own", "NONE"} : spec = [P EXCEPT !.health = h]
        \/ spec = [P EXCEPT !.text = "dollar"]
        \/ spec = [P EXCEPT !.net = "net"]
        \/ spec = [P EXCEPT !.aliases = TRUE]
        \/ spec = [P EXCEPT !.endpoint = "dnsrr"]
        \/ spec = [P EXCEPT !.replicas = 0]
        \/ spec = [P EXCEPT !.placed = TRUE, !.spread = TRUE]
        \/ spec = [P EXCEPT !.labels = @ \cup {"tier"}]
    BY DEF Stack!Specs
  <1>. HIDE DEF P
  <1>4. CASE \E own \in BOOLEAN, driver \in {"default", "nfs"} : spec = [P EXCEPT !.mount = Stack!Volume(own, driver)]
    <2>1. PICK own \in BOOLEAN, driver \in {"default", "nfs"} : spec = [P EXCEPT !.mount = Stack!Volume(own, driver)]
      BY <1>4
    <2>2. Stack!Volume(own, driver) \in MountShape /\ Stack!Volume(own, driver).kind = "volume"
      BY DEF Stack!Volume, MountShape
    <2>. QED
      BY <1>1, <1>2, <2>1, <2>2 DEF IsASpec, Unnamed, ServiceSpec
  <1>5. CASE \E kind \in {"bind", "anonymous", "tmpfs"} : spec = [P EXCEPT !.mount.kind = kind]
    <2>1. PICK kind \in {"bind", "anonymous", "tmpfs"} : spec = [P EXCEPT !.mount.kind = kind]
      BY <1>5
    <2>. DEFINE m == [Stack!NoMount EXCEPT !.kind = kind]
    <2>2. spec = [P EXCEPT !.mount = m]
      BY <1>1, <1>2, <2>1
    <2>3. m \in MountShape /\ Unnamed(m)
      BY <1>2 DEF MountShape, Unnamed
    <2>. HIDE DEF m
    <2>. QED
      BY <1>1, <1>2, <2>2, <2>3 DEF IsASpec, ServiceSpec
  <1>14. CASE \E kind \in {"bind", "volume", "tmpfs"} : spec = [P EXCEPT !.mount = Stack!Optioned(kind)]
    <2>1. PICK kind \in {"bind", "volume", "tmpfs"} : spec = [P EXCEPT !.mount = Stack!Optioned(kind)]
      BY <1>14
    <2>2. Stack!Optioned(kind) \in MountShape /\ Unnamed(Stack!Optioned(kind))
      BY <1>2 DEF Stack!Optioned, MountShape, Unnamed
    <2>. QED
      BY <1>1, <1>2, <2>1, <2>2 DEF IsASpec, ServiceSpec
  <1>6. CASE \E e \in {"none", "entry"}, a \in {"none", "args"} : spec = [P EXCEPT !.command = [entry |-> e, args |-> a]]
    BY <1>1, <1>2, <1>6 DEF IsASpec, ServiceSpec
  <1>7. CASE \/ \E t \in {"same", "other"}, p \in {"default", "own"} :
                  spec = [P EXCEPT !.secret = [target |-> t, perms |-> p]]
             \/ \E p \in {"tcp", "udp"}, m \in {"ingress", "host"} :
                  spec = [P EXCEPT !.port = [proto |-> p, publish |-> m]]
    BY <1>1, <1>2, <1>7 DEF IsASpec, ServiceSpec
  <1>8. CASE \/ spec = [P EXCEPT !.mode = "global", !.replicas = 0]
             \/ spec = [P EXCEPT !.mode = "job"]
             \/ spec = [P EXCEPT !.replicas = 0]
    <2>1. P.replicas = 1
      BY DEF P, Stack!Plain
    <2>2. CASE spec = [P EXCEPT !.mode = "global", !.replicas = 0]
      <3>. DEFINE q == [P EXCEPT !.mode = "global"]
      <3>1. q \in ServiceSpec /\ q.mode = "global" /\ q.mount = P.mount /\ q.labels = P.labels
        BY <1>1 DEF ServiceSpec
      <3>2. spec = [q EXCEPT !.replicas = 0]
        BY <2>2
      <3>. HIDE DEF q
      <3>3. spec \in ServiceSpec /\ spec.mode = "global" /\ spec.replicas = 0 /\ spec.mount = q.mount /\ spec.labels = q.labels
        BY <3>1, <3>2 DEF ServiceSpec
      <3>. QED
        BY <1>1, <1>2, <3>1, <3>3 DEF IsASpec
    <2>3. CASE spec = [P EXCEPT !.mode = "job"]
      <3>1. spec \in ServiceSpec /\ spec.mode = "job" /\ spec.mount = P.mount /\ spec.labels = P.labels
            /\ spec.replicas = P.replicas
        BY <1>1, <2>3 DEF ServiceSpec
      <3>. QED
        BY <1>1, <1>2, <2>1, <3>1 DEF IsASpec
    <2>4. CASE spec = [P EXCEPT !.replicas = 0]
      BY <1>1, <1>2, <2>4 DEF IsASpec, ServiceSpec
    <2>. QED
      BY <1>8, <2>2, <2>3, <2>4
  <1>9. CASE \/ \E n \in {4, 625, 5000, 6667} : spec = [P EXCEPT !.cpu = n]
             \/ \E n \in {0, 5} : spec = [P EXCEPT !.delay = n]
             \/ \E n \in {0, 2} : spec = [P EXCEPT !.parallelism = n]
             \/ \E h \in {"own", "NONE"} : spec = [P EXCEPT !.health = h]
             \/ \E d \in {"then", "none"} : spec = [P EXCEPT !.digest = d]
    BY <1>1, <1>2, <1>9 DEF IsASpec, ServiceSpec
  <1>10. CASE \/ spec = [P EXCEPT !.text = "dollar"]
              \/ spec = [P EXCEPT !.net = "net"]
              \/ spec = [P EXCEPT !.endpoint = "dnsrr"]
    BY <1>1, <1>2, <1>10 DEF IsASpec, ServiceSpec
  <1>15. CASE spec = [P EXCEPT !.aliases = TRUE]
    <2>1. spec.mode = P.mode /\ spec.mount = P.mount /\ spec.labels = P.labels
      BY <1>1, <1>15 DEF ServiceSpec
    <2>2. ASSUME NEW r \in ServiceSpec, NEW b \in BOOLEAN  PROVE [r EXCEPT !.aliases = b] \in ServiceSpec
      BY <2>2 DEF ServiceSpec
    <2>. QED
      BY <1>1, <1>2, <1>15, <2>1, <2>2 DEF IsASpec
  <1>11. CASE \E name \in Stack!EnvNames : spec = [P EXCEPT !.empty = {name}]
    <2>1. PICK name \in Stack!EnvNames : spec = [P EXCEPT !.empty = {name}]
      BY <1>11
    <2>2. {name} \in SUBSET Stack!EnvNames
      OBVIOUS
    <2>. QED
      BY <1>1, <1>2, <2>1, <2>2 DEF IsASpec, ServiceSpec
  <1>12. CASE spec = [P EXCEPT !.labels = @ \cup {"tier"}]
    <2>1. {"namespace", "tier"} \in SUBSET {"namespace", "tier"}
      OBVIOUS
    <2>2. spec = [P EXCEPT !.labels = {"namespace", "tier"}]
      BY <1>1, <1>2, <1>12 DEF ServiceSpec
    <2>. QED
      BY <1>1, <1>2, <2>1, <2>2 DEF IsASpec, ServiceSpec
  <1>13. CASE spec = [P EXCEPT !.placed = TRUE, !.spread = TRUE]
    <2>1. ASSUME NEW r \in ServiceSpec, NEW b \in BOOLEAN  PROVE [r EXCEPT !.placed = b] \in ServiceSpec
      BY <2>1 DEF ServiceSpec
    <2>2. ASSUME NEW r \in ServiceSpec, NEW b \in BOOLEAN  PROVE [r EXCEPT !.spread = b] \in ServiceSpec
      BY <2>2 DEF ServiceSpec
    <2>3. spec.mode = P.mode /\ spec.mount = P.mount /\ spec.labels = P.labels
      BY <1>1, <1>13 DEF ServiceSpec
    <2>4. spec \in ServiceSpec
      BY <1>1, <1>13, <2>1, <2>2
    <2>. QED
      BY <1>1, <1>2, <2>3, <2>4 DEF IsASpec
  <1>. QED
    BY <1>1, <1>2, <1>3, <1>4, <1>5, <1>6, <1>7, <1>8, <1>9, <1>10, <1>11, <1>12, <1>13, <1>14, <1>15

LEMMA FirstOfIs ==
  ASSUME NEW S \in SUBSET ServiceNames, S # {}
  PROVE  Stack!FirstOf(S) \in S
  <1>1. S \subseteq Nat
    BY EditAssumption
  <1>2. PICK s \in S : \A t \in S : ~ (<<t, s>> \in OpToRel(<, Nat))
    <2>1. IsWellFoundedOn(OpToRel(<, Nat), Nat)
      BY NatLessThanWellFounded
    <2>. HIDE DEF OpToRel
    <2>. QED
      BY <1>1, <2>1, WFMin
  <1>3. \A t \in S : s <= t
    <2>1. ASSUME NEW t \in S, t < s
          PROVE  <<t, s>> \in OpToRel(<, Nat)
      BY <1>1, <2>1 DEF OpToRel
    <2>2. \A t \in S : ~ (t < s)
      BY <1>2, <2>1, Zenon
    <2>. QED
      BY <1>1, <2>2
  <1>. QED
    BY <1>3 DEF Stack!FirstOf

-----------------------------------------------------------------------------
(***************************************************************************)
(* The editing of a stack: what is known at each step                      *)
(***************************************************************************)
EditSteps == {"closed", "reading", "open", "networks", "deploying"}

LiveKnown ==
  /\ live \in [ServiceNames -> ServiceSpec]
  /\ \A s \in ServiceNames : IsASpec(live[s]) /\ (live[s] # Stack!Absent => live[s].mode # "absent")

ReadKnown ==
  /\ DOMAIN read \subseteq ServiceNames
  /\ \A s \in DOMAIN read : IsASpec(read[s]) /\ read[s].mode # "absent"

EditingKnown ==
  /\ editing \in [step : EditSteps, todo : SUBSET ServiceNames, unset : SUBSET Stack!EnvNames, listed : BOOLEAN]
  /\ networks \subseteq {"stack_net", "net"} /\ edits \in 0..MaxEdits /\ others \in 0..MaxOthers

\* A section of the file says what was made of a service, but for what was written anew; what
\* it leaves empty the shell does not fill.
Copied ==
  {"command", "volume", "filled", "text", "secret", "port", "net", "endpoint", "placed", "cpu", "delay", "update",
   "parallelism", "health", "labels"}
Scaled == [mode |-> Unsaid, replicas |-> 2]
WrittenOf(c, o, t, anew) ==
  /\ \A k \in Copied : c[k] = o[k]
  /\ c.image = o.image \/ (c.image = "other" /\ {<<t, "image">>, <<t, "digest">>} \subseteq anew)
  /\ c.deploy = o.deploy \/ (c.deploy = Scaled /\ {<<t, "mode">>, <<t, "replicas">>} \subseteq anew)
  /\ c.empty = o.empty \/ (c.empty = o.empty \cup {"PLAIN"} /\ {<<t, "empty">>, <<t, "filled">>} \subseteq anew)
SaysOf(c, o, t) ==
  /\ WrittenOf(c, o, t, typed)
  /\ c.empty = o.empty => o.empty \cap environ \subseteq editing.unset

FileKnown ==
  /\ DOMAIN from = DOMAIN compose.services
  /\ editing.step = "open" =>
       /\ compose = Stack!Assembled(read, editing.listed)
       /\ from = [s \in DOMAIN read |-> s] /\ typed = {}
  /\ editing.step \in {"networks", "deploying"} =>
       /\ editing.todo \subseteq DOMAIN compose.services /\ DOMAIN compose.services \subseteq ServiceNames
       /\ compose.volume = Stack!Declared(read) /\ compose.networks = Stack!External(read, editing.listed)
       /\ \A t \in DOMAIN compose.services :
            /\ from[t] \in DOMAIN read
            /\ SaysOf(compose.services[t], Stack!Section(read[from[t]], editing.listed), t)

StackInv == LiveKnown /\ ReadKnown /\ EditingKnown /\ FileKnown

-----------------------------------------------------------------------------
(***************************************************************************)
(* The editing of a stack: what the docker CLI makes of a section          *)
(***************************************************************************)
LEMMA FeaturesAre ==
  Stack!Features = {"image", "digest", "command", "mount", "empty", "filled", "text", "secret", "port", "net",
                    "aliases", "mode", "replicas", "endpoint", "placed", "spread", "cpu", "delay", "parallelism", "health", "labels"}
  BY DEF Stack!Features, Stack!Plain

LEMMA CPUsAre ==
  ASSUME NEW n \in Nat
  PROVE  Stack!CPUString(n) \in Nat /\ (n % 10 = 0 => Stack!CPUString(n) = n)
  <1>. DEFINE floor == n \div 10
              rest == n % 10
  <1>1. floor \in Nat /\ rest \in 0..9 /\ n = 10 * floor + rest
    OBVIOUS
  <1>2. Stack!CPUString(n) = 10 * (IF rest > 5 \/ (rest = 5 /\ floor % 2 = 1) THEN floor + 1 ELSE floor)
    BY DEF Stack!CPUString
  <1>. HIDE DEF floor, rest
  <1>3. Stack!CPUString(n) \in Nat /\ (rest = 0 => Stack!CPUString(n) = n)
    BY <1>1, <1>2
  <1>. QED
    BY <1>3 DEF rest

LEMMA SpecIs ==
  ASSUME NEW r, IsASpec(r)
  PROVE  /\ r \in ServiceSpec /\ "namespace" \in r.labels
         /\ (r.mode = "global" => r.replicas = 0) /\ (r.mode = "job" => r.replicas = 1)
  BY DEF IsASpec

LEMMA ReadIs ==
  ASSUME ReadKnown, NEW s \in DOMAIN read
  PROVE  IsASpec(read[s]) /\ read[s].mode # "absent" /\ s \in ServiceNames
  BY DEF ReadKnown

\* A volume that another service does not name otherwise is declared as it is.
LEMMA MountIsKept ==
  ASSUME ReadKnown, NEW s \in DOMAIN read, read[s].mount.kind = "volume", ~Stack!Loses(s, "mount")
  PROVE  Stack!Volume(~Stack!Declared(read).external, Stack!Declared(read).driver) = read[s].mount
  <1>. DEFINE users == {u \in DOMAIN read : read[u].mount.kind = "volume"}
              m == read[Stack!FirstOf(users)].mount
  <1>1. users \subseteq ServiceNames /\ s \in users
    BY DEF ReadKnown
  <1>2. Stack!FirstOf(users) \in users
    BY <1>1, FirstOfIs
  <1>3. m.kind = "volume" /\ Stack!FirstOf(users) \in DOMAIN read
    BY <1>2
  <1>4. Stack!Declared(read) = [external |-> ~m.own /\ m.driver = "default", driver |-> m.driver]
    BY <1>1 DEF Stack!Declared
  <1>. HIDE DEF users
  <1>5. m = read[s].mount /\ (read[s].mount.own \/ read[s].mount.driver = "default")
    BY <1>3 DEF Stack!Loses, Stack!Clashes
  <1>6. m \in MountShape
    <2>1. IsASpec(read[s])
      BY ReadIs
    <2>. QED
      BY <1>5, <2>1, SpecIs DEF ServiceSpec
  <1>. HIDE DEF m
  <1>7. /\ m.own \in BOOLEAN /\ m.kind = "volume"
        /\ m = [kind |-> m.kind, own |-> m.own, driver |-> m.driver, options |-> m.options]
    BY <1>5, <1>6 DEF MountShape
  <1>9. m.options = FALSE
    BY <1>5, <1>6 DEF Stack!Loses, MountShape
  <1>8. (~Stack!Declared(read).external) = m.own /\ Stack!Declared(read).driver = m.driver
    <2>1. Stack!Declared(read).external = (~m.own /\ m.driver = "default")
      BY <1>4
    <2>2. Stack!Declared(read).driver = m.driver
      BY <1>4
    <2>. QED
      BY <1>5, <1>7, <2>1, <2>2
  <1>. QED
    BY <1>5, <1>7, <1>8, <1>9 DEF Stack!Volume

LEMMA DeclaredIs ==
  ASSUME ReadKnown, NEW s \in DOMAIN read, read[s].mount.kind = "volume"
  PROVE  Stack!Declared(read).driver \in {"default", "nfs"}
  <1>. DEFINE users == {u \in DOMAIN read : read[u].mount.kind = "volume"}
              m == read[Stack!FirstOf(users)].mount
  <1>1. users \subseteq ServiceNames /\ s \in users
    BY DEF ReadKnown
  <1>2. Stack!FirstOf(users) \in DOMAIN read
    BY <1>1, FirstOfIs
  <1>3. Stack!Declared(read).driver = m.driver
    BY <1>1 DEF Stack!Declared
  <1>. HIDE DEF users
  <1>4. m \in MountShape
    <2>1. IsASpec(read[Stack!FirstOf(users)])
      BY <1>2, ReadIs
    <2>. QED
      BY <2>1, SpecIs DEF ServiceSpec
  <1>. QED
    BY <1>3, <1>4 DEF MountShape

LEMMA NetIsKept ==
  ASSUME ReadKnown, EditingKnown, NEW s \in DOMAIN read, ~Stack!Loses(s, "net"),
         compose.networks = Stack!External(read, editing.listed)
  PROVE  Stack!NetworkOf(compose, Stack!NetworkKey(read[s].net, editing.listed)) = read[s].net
  <1>1. read[s].net \in {"stack_net", "net"}
    <2>1. IsASpec(read[s])
      BY ReadIs
    <2>. QED
      BY <2>1, SpecIs DEF ServiceSpec
  <1>2. CASE ~editing.listed
    BY <1>1, <1>2 DEF Stack!NetworkKey, Stack!NetworkOf, Stack!IdOf
  <1>3. CASE editing.listed
    <2>. DEFINE users == {u \in DOMAIN read : Stack!NetworkKey(read[u].net, editing.listed) = "net"}
    <2>1. \A u \in DOMAIN read : Stack!NetworkKey(read[u].net, editing.listed) = "net"
      BY <1>3 DEF Stack!NetworkKey
    <2>2. users \subseteq ServiceNames /\ s \in users
      BY <2>1 DEF ReadKnown
    <2>3. Stack!FirstOf(users) \in users
      BY <2>2, FirstOfIs
    <2>4. read[Stack!FirstOf(users)].net = read[s].net
      BY <2>1, <2>3 DEF Stack!Loses, Stack!Clashes
    <2>5. compose.networks["net"] = (read[Stack!FirstOf(users)].net = "net")
      BY <1>3, <2>1 DEF Stack!External
    <2>. QED
      BY <1>1, <2>1, <2>4, <2>5 DEF Stack!NetworkOf, Stack!IdOf
  <1>. QED
    BY <1>2, <1>3 DEF EditingKnown

\* What the docker CLI makes of a section is a service's spec, and in each thing what the
\* section was made of, but for what was written anew and what a file does not carry.
Carried(spec, t) ==
  /\ IsASpec(spec) /\ spec.mode # "absent"
  /\ \A f \in Stack!Features : <<t, f>> \in typed \/ Stack!Loses(from[t], f) \/ spec[f] = read[from[t]][f]

LEMMA ConvertedIs ==
  ASSUME StackInv, editing.step = "deploying", NEW t \in editing.todo
  PROVE  Carried(Stack!Converted(compose, t, editing.unset), t)
  <1>. DEFINE c == compose.services[t]
              s == from[t]
              r == read[s]
              listed == editing.listed
              o == Stack!Section(r, listed)
              spec == Stack!Converted(compose, t, editing.unset)
  <1>1. /\ s \in DOMAIN read /\ SaysOf(c, o, t) /\ t \in DOMAIN compose.services
        /\ compose.volume = Stack!Declared(read) /\ compose.networks = Stack!External(read, listed)
    BY DEF StackInv, FileKnown
  <1>2. /\ ReadKnown /\ EditingKnown /\ IsASpec(r) /\ r.mode # "absent"
    BY <1>1, ReadIs DEF StackInv
  <1>3. /\ r \in ServiceSpec /\ "namespace" \in r.labels
        /\ (r.mode = "global" => r.replicas = 0) /\ (r.mode = "job" => r.replicas = 1)
    BY <1>2, SpecIs
  <1>4. /\ o.command = Stack!CommandOf(r.command) /\ o.volume = Stack!VolumesOf(r.mount)
        /\ o.filled = r.filled /\ o.text = Stack!Escaped(r.text) /\ o.secret = Stack!SecretRef(r.secret)
        /\ o.port = Stack!Port(r.port) /\ o.net = Stack!NetworkKey(r.net, listed)
        /\ o.endpoint = Stack!EndpointMode(r.endpoint) /\ o.placed = r.placed /\ o.cpu = Stack!CPUString(r.cpu)
        /\ o.delay = Stack!RestartDelay(r.delay) /\ o.update = Stack!UpdateConfig(r.parallelism)
        /\ o.parallelism = r.parallelism /\ o.health = Stack!Healthcheck(r.health)
        /\ o.labels = Stack!Filtered(r.labels) /\ o.deploy = Stack!ModeOf(r) /\ o.empty = r.empty
        /\ o.image = r.image
    BY DEF Stack!Section
  <1>5. \A k \in Copied : c[k] = o[k]
    BY <1>1 DEF SaysOf, WrittenOf
  <1>6. /\ c.command = o.command /\ c.volume = o.volume /\ c.filled = o.filled /\ c.text = o.text
        /\ c.secret = o.secret /\ c.port = o.port /\ c.net = o.net /\ c.endpoint = o.endpoint
        /\ c.placed = o.placed /\ c.cpu = o.cpu /\ c.delay = o.delay /\ c.update = o.update
        /\ c.parallelism = o.parallelism /\ c.health = o.health /\ c.labels = o.labels
    BY <1>5 DEF Copied
  <1>7. /\ c.deploy = o.deploy \/ (c.deploy = Scaled /\ {<<t, "mode">>, <<t, "replicas">>} \subseteq typed)
        /\ \/ c.empty = o.empty /\ o.empty \cap environ \subseteq editing.unset
           \/ c.empty = o.empty \cup {"PLAIN"} /\ {<<t, "empty">>, <<t, "filled">>} \subseteq typed
    BY <1>1 DEF SaysOf, WrittenOf
  <1>. DEFINE given == environ \ editing.unset
  <1>8. spec =
     [image |-> c.image, digest |-> "now", command |-> [entry |-> "none", args |-> c.command],
      mount |-> IF c.volume = "volume" THEN Stack!Volume(~compose.volume.external, compose.volume.driver)
                ELSE [Stack!NoMount EXCEPT !.kind = Stack!Or(c.volume, "none")],
      empty |-> c.empty \ given, filled |-> c.filled \cup (c.empty \cap given),
      text |-> IF c.text = "doubled" THEN "dollar" ELSE IF c.text = "dollar" THEN "substituted" ELSE c.text,
      secret |-> [target |-> Stack!Or(c.secret.target, "same"), perms |-> Stack!Or(c.secret.perms, "default")],
      port |-> [proto |-> Stack!Or(c.port, "tcp"), publish |-> "ingress"],
      net |-> Stack!NetworkOf(compose, c.net), aliases |-> FALSE,
      mode |-> Stack!Or(c.deploy.mode, "replicated"),
      replicas |-> IF c.deploy.replicas # -1 THEN c.deploy.replicas ELSE IF c.deploy.mode = "global" THEN 0 ELSE 1,
      endpoint |-> Stack!Or(c.endpoint, "vip"), placed |-> c.placed, spread |-> FALSE, cpu |-> c.cpu,
      delay |-> c.delay,
      parallelism |-> IF c.update = Unsaid THEN -1 ELSE IF c.update = "block" THEN 1 ELSE c.parallelism,
      health |-> IF c.health = "disable" THEN "NONE" ELSE Stack!Or(c.health, "inherited"),
      labels |-> c.labels \cup {"namespace"}]
    BY DEF Stack!Converted, Unsaid
  <1>. HIDE DEF c, o, r, spec, given
  <1>10. /\ spec.command \in [entry : {"none", "entry"}, args : {"none", "args", "entry"}]
         /\ Stack!Loses(s, "command") \/ spec.command = r.command
    BY <1>3, <1>4, <1>6, <1>8 DEF ServiceSpec, Stack!CommandOf, Stack!Loses, r
  <1>11. /\ spec.text \in {"words", "dollar"} /\ spec.text = r.text
    BY <1>3, <1>4, <1>6, <1>8 DEF ServiceSpec, Stack!Escaped
  <1>12. /\ spec.secret \in [target : {"same", "other"}, perms : {"default", "own"}] /\ spec.secret = r.secret
    BY <1>3, <1>4, <1>6, <1>8 DEF ServiceSpec, Stack!SecretRef, Stack!Or, Stack!Unsaid
  <1>13. /\ spec.port \in [proto : {"tcp", "udp"}, publish : {"ingress", "host"}]
         /\ Stack!Loses(s, "port") \/ spec.port = r.port
    BY <1>3, <1>4, <1>6, <1>8 DEF ServiceSpec, Stack!Port, Stack!Or, Stack!Unsaid, Stack!Loses, r
  <1>14. /\ spec.endpoint \in {"vip", "dnsrr"} /\ spec.endpoint = r.endpoint
    BY <1>3, <1>4, <1>6, <1>8 DEF ServiceSpec, Stack!EndpointMode, Stack!Or, Stack!Unsaid
  <1>15. /\ spec.placed = r.placed /\ spec.placed \in BOOLEAN /\ spec.spread = FALSE
         /\ Stack!Loses(s, "spread") \/ spec.spread = r.spread
    <2>1. spec.placed = r.placed /\ spec.placed \in BOOLEAN /\ spec.spread = FALSE /\ r.spread \in BOOLEAN
      BY <1>3, <1>4, <1>6, <1>8 DEF ServiceSpec
    <2>2. Stack!Loses(s, "spread") = r.spread
      BY DEF Stack!Loses, r
    <2>. QED
      BY <2>1, <2>2
  <1>16. /\ spec.cpu \in Nat
         /\ Stack!Loses(s, "cpu") \/ spec.cpu = r.cpu
    <2>1. r.cpu \in Nat /\ spec.cpu = Stack!CPUString(r.cpu)
      BY <1>3, <1>4, <1>6, <1>8 DEF ServiceSpec
    <2>2. spec.cpu \in Nat /\ (r.cpu % 10 = 0 => spec.cpu = r.cpu)
      BY <2>1, CPUsAre
    <2>. QED
      BY <2>2 DEF Stack!Loses, r
  <1>28. /\ spec.image \in {"tag", "other"} /\ (<<t, "image">> \in typed \/ spec.image = r.image)
         /\ spec.digest = "now" /\ (Stack!Loses(s, "digest") \/ spec.digest = r.digest)
         /\ spec.aliases = FALSE /\ (Stack!Loses(s, "aliases") \/ spec.aliases = r.aliases)
    <2>1. spec.image = c.image /\ spec.digest = "now" /\ spec.aliases = FALSE
      BY <1>8
    <2>2. r.image \in {"tag", "other"} /\ r.digest \in {"now", "then", "none"} /\ r.aliases \in BOOLEAN
      BY <1>3 DEF ServiceSpec
    <2>3. /\ c.image = r.image \/ (c.image = "other" /\ <<t, "image">> \in typed)
      BY <1>1, <1>4 DEF SaysOf, WrittenOf
    <2>. QED
      BY <2>1, <2>2, <2>3 DEF Stack!Loses, r
  <1>17. /\ spec.delay \in {-1, 5}
         /\ Stack!Loses(s, "delay") \/ spec.delay = r.delay
    BY <1>3, <1>4, <1>6, <1>8 DEF ServiceSpec, Stack!RestartDelay, Stack!Loses, r
  <1>18. /\ spec.parallelism \in {-1, 1, 2}
         /\ Stack!Loses(s, "parallelism") \/ spec.parallelism = r.parallelism
    BY <1>3, <1>4, <1>6, <1>8 DEF ServiceSpec, Stack!UpdateConfig, Stack!Loses, Unsaid, Stack!Unsaid, r
  <1>19. spec.health \in {"inherited", "own", "NONE"} /\ spec.health = r.health
    BY <1>3, <1>4, <1>6, <1>8 DEF ServiceSpec, Stack!Healthcheck, Stack!Or, Stack!Unsaid
  <1>20. spec.labels \subseteq {"namespace", "tier"} /\ "namespace" \in spec.labels /\ spec.labels = r.labels
    BY <1>3, <1>4, <1>6, <1>8 DEF ServiceSpec, Stack!Filtered
  <1>21. /\ spec.mode \in {"replicated", "global"} /\ spec.replicas \in Nat /\ (spec.mode = "global" => spec.replicas = 0)
         /\ <<t, "mode">> \in typed \/ Stack!Loses(s, "mode") \/ spec.mode = r.mode
         /\ <<t, "replicas">> \in typed \/ spec.replicas = r.replicas
    <2>1. spec.mode = Stack!Or(c.deploy.mode, "replicated")
          /\ spec.replicas = IF c.deploy.replicas # -1 THEN c.deploy.replicas ELSE IF c.deploy.mode = "global" THEN 0 ELSE 1
      BY <1>8
    <2>2. CASE c.deploy = Scaled /\ {<<t, "mode">>, <<t, "replicas">>} \subseteq typed
      <3>1. <<t, "mode">> \in typed /\ <<t, "replicas">> \in typed
        BY <2>2
      <3>2. c.deploy.mode = "unsaid" /\ c.deploy.replicas = 2
        BY <2>2 DEF Scaled, Unsaid, Stack!Unsaid
      <3>3. spec.mode = "replicated" /\ spec.replicas = 2
        BY <2>1, <3>2 DEF Stack!Unsaid, Stack!Or
      <3>4. spec.mode \in {"replicated", "global"} /\ spec.replicas \in Nat /\ spec.mode # "global"
        BY <3>3
      <3>. QED
        BY <3>1, <3>4
    <2>3. CASE c.deploy = o.deploy
      <3>1. c.deploy = Stack!ModeOf(r) /\ r.mode \in {"replicated", "global", "job"} /\ r.replicas \in Nat
        BY <1>2, <1>3, <1>4, <2>3 DEF ServiceSpec
      <3>2. r.mode = "job" => Stack!Loses(s, "mode")
        BY DEF Stack!Loses, r
      <3>3. /\ r.mode = "replicated" => c.deploy.mode = "unsaid" /\ c.deploy.replicas = r.replicas
            /\ r.mode = "global" => c.deploy.mode = "global" /\ c.deploy.replicas = -1
            /\ r.mode = "job" => c.deploy.mode = "unsaid" /\ c.deploy.replicas = -1
        BY <3>1 DEF Stack!ModeOf, Stack!Unsaid
      <3>4. /\ r.mode = "replicated" => spec.mode = "replicated" /\ spec.replicas = r.replicas
            /\ r.mode = "global" => spec.mode = "global" /\ spec.replicas = 0
            /\ r.mode = "job" => spec.mode = "replicated" /\ spec.replicas = 1
        BY <2>1, <3>1, <3>3 DEF Stack!Or, Stack!Unsaid
      <3>5. /\ spec.mode \in {"replicated", "global"} /\ spec.replicas \in Nat
            /\ (spec.mode = "global" => spec.replicas = 0) /\ spec.replicas = r.replicas
            /\ r.mode # "job" => spec.mode = r.mode
        BY <1>3, <3>1, <3>4
      <3>. QED
        BY <3>2, <3>5
    <2>. QED
      BY <1>7, <2>2, <2>3
  <1>22. /\ spec.empty \subseteq Stack!EnvNames /\ spec.filled \subseteq Stack!EnvNames
         /\ <<t, "empty">> \in typed \/ spec.empty = r.empty
         /\ <<t, "filled">> \in typed \/ spec.filled = r.filled
    <2>1. spec.empty = c.empty \ given /\ spec.filled = c.filled \cup (c.empty \cap given)
      BY <1>8
    <2>2. r.empty \subseteq Stack!EnvNames /\ r.filled \subseteq Stack!EnvNames /\ c.filled = r.filled
      BY <1>3, <1>4, <1>6 DEF ServiceSpec
    <2>3. CASE c.empty = o.empty /\ o.empty \cap environ \subseteq editing.unset
      BY <1>4, <2>1, <2>2, <2>3 DEF given
    <2>4. CASE c.empty = o.empty \cup {"PLAIN"} /\ {<<t, "empty">>, <<t, "filled">>} \subseteq typed
      BY <1>4, <2>1, <2>2, <2>4 DEF given, Stack!EnvNames
    <2>. QED
      BY <1>7, <2>3, <2>4
  <1>23. /\ spec.net \in {"stack_net", "net"}
         /\ Stack!Loses(s, "net") \/ spec.net = r.net
    <2>1. spec.net = Stack!NetworkOf(compose, Stack!NetworkKey(r.net, listed))
      BY <1>4, <1>6, <1>8
    <2>2. spec.net \in {"stack_net", "net"}
      BY <2>1 DEF Stack!NetworkOf
    <2>. QED
      BY <1>1, <1>2, <2>1, <2>2, NetIsKept DEF r
  <1>24. /\ spec.mount \in MountShape
         /\ Unnamed(spec.mount)
         /\ Stack!Loses(s, "mount") \/ spec.mount = r.mount
    <2>1. r.mount \in MountShape
      BY <1>3 DEF ServiceSpec
    <2>2. Unnamed(r.mount)
      BY <1>2 DEF IsASpec
    <2>3. /\ spec.mount = IF c.volume = "volume" THEN Stack!Volume(~compose.volume.external, compose.volume.driver)
                          ELSE [Stack!NoMount EXCEPT !.kind = Stack!Or(c.volume, "none")]
          /\ c.volume = Stack!VolumesOf(r.mount)
      BY <1>4, <1>6, <1>8
    <2>4. CASE r.mount.kind = "volume"
      <3>1. spec.mount = Stack!Volume(~compose.volume.external, compose.volume.driver)
        BY <2>3, <2>4 DEF Stack!VolumesOf
      <3>2. compose.volume.driver \in {"default", "nfs"} /\ (~compose.volume.external) \in BOOLEAN
        BY <1>1, <1>2, <2>4, DeclaredIs DEF r
      <3>3. spec.mount \in MountShape /\ spec.mount.kind = "volume"
        BY <3>1, <3>2 DEF Stack!Volume, MountShape
      <3>4. Unnamed(spec.mount)
        BY <3>3 DEF Unnamed
      <3>. QED
        BY <1>1, <1>2, <2>4, <3>1, <3>3, <3>4, MountIsKept DEF r
    <2>5. CASE r.mount.kind # "volume"
      <3>1. r.mount.kind \in {"none", "bind", "anonymous", "tmpfs"}
        BY <2>1, <2>5 DEF MountShape
      <3>. DEFINE kind == Stack!Or(c.volume, "none")
      <3>2. c.volume # "volume" /\ kind \in {"none", "bind", "tmpfs"} /\ (r.mount.kind # "anonymous" => kind = r.mount.kind)
        BY <2>3, <3>1 DEF Stack!VolumesOf, Stack!Or, Stack!Unsaid
      <3>3. spec.mount = [Stack!NoMount EXCEPT !.kind = kind]
        BY <2>3, <3>2
      <3>. HIDE DEF kind
      <3>4. spec.mount \in MountShape /\ Unnamed(spec.mount) /\ spec.mount.kind = kind
            /\ spec.mount.own = FALSE /\ spec.mount.driver = "default" /\ spec.mount.options = FALSE
        BY <3>2, <3>3, PlainIs DEF MountShape, Unnamed
      <3>5. r.mount.kind = "anonymous" \/ r.mount.options => Stack!Loses(s, "mount")
        BY DEF Stack!Loses, r
      <3>6. r.mount.kind = kind /\ r.mount.options = FALSE => spec.mount = r.mount
        BY <2>1, <2>2, <2>5, <3>4 DEF MountShape, Unnamed
      <3>7. r.mount.options \in BOOLEAN
        BY <2>1 DEF MountShape
      <3>. QED
        BY <3>2, <3>4, <3>5, <3>6, <3>7
    <2>. QED
      BY <2>4, <2>5
  <1>25. spec \in ServiceSpec
    <2>1. /\ spec.cpu \in Nat /\ spec.delay \in {-1, 0, 5} /\ spec.parallelism \in {-1, 0, 1, 2}
          /\ spec.mode \in {"replicated", "global", "job", "absent"} /\ spec.replicas \in Nat
          /\ spec.labels \in SUBSET {"namespace", "tier"} /\ spec.empty \in SUBSET Stack!EnvNames
          /\ spec.filled \in SUBSET Stack!EnvNames /\ spec.spread \in BOOLEAN
      <3>1. spec.cpu \in Nat /\ spec.delay \in {-1, 0, 5} /\ spec.parallelism \in {-1, 0, 1, 2}
        BY <1>16, <1>17, <1>18
      <3>2. spec.mode \in {"replicated", "global", "job", "absent"} /\ spec.replicas \in Nat
        BY <1>21
      <3>3. /\ spec.labels \in SUBSET {"namespace", "tier"} /\ spec.empty \in SUBSET Stack!EnvNames
            /\ spec.filled \in SUBSET Stack!EnvNames
        BY <1>20, <1>22
      <3>4. spec.spread \in BOOLEAN
        BY <1>15
      <3>. QED
        BY <3>1, <3>2, <3>3, <3>4
    <2>. DEFINE
       whole == [image |-> spec.image, digest |-> spec.digest, aliases |-> spec.aliases, command |-> spec.command, mount |-> spec.mount, empty |-> spec.empty, filled |-> spec.filled,
                 text |-> spec.text, secret |-> spec.secret, port |-> spec.port, net |-> spec.net, mode |-> spec.mode,
                 replicas |-> spec.replicas, endpoint |-> spec.endpoint, placed |-> spec.placed, spread |-> spec.spread,
                 cpu |-> spec.cpu, delay |-> spec.delay, parallelism |-> spec.parallelism, health |-> spec.health,
                 labels |-> spec.labels]
    <2>2. spec = whole
      BY <1>8
    <2>3. whole \in ServiceSpec
      <3>1. /\ spec.image \in {"tag", "other"} /\ spec.digest \in {"now", "then", "none"} /\ spec.aliases \in BOOLEAN
            /\ spec.command \in [entry : {"none", "entry"}, args : {"none", "args", "entry"}]
            /\ spec.text \in {"words", "dollar"} /\ spec.net \in {"stack_net", "net"}
        BY <1>10, <1>11, <1>23, <1>28
      <3>2. /\ spec.secret \in [target : {"same", "other"}, perms : {"default", "own"}]
            /\ spec.port \in [proto : {"tcp", "udp"}, publish : {"ingress", "host"}]
            /\ spec.endpoint \in {"vip", "dnsrr"} /\ spec.placed \in BOOLEAN
            /\ spec.health \in {"inherited", "own", "NONE"} /\ spec.mount \in MountShape
        BY <1>12, <1>13, <1>14, <1>15, <1>19, <1>24
      <3>. QED
        BY <2>1, <3>1, <3>2 DEF ServiceSpec
    <2>. QED
      BY <2>2, <2>3
  <1>26. IsASpec(spec) /\ spec.mode # "absent"
    BY <1>20, <1>21, <1>24, <1>25 DEF IsASpec
  <1>27. ASSUME NEW f \in Stack!Features
         PROVE  <<t, f>> \in typed \/ Stack!Loses(s, f) \/ spec[f] = r[f]
    BY <1>10, <1>11, <1>12, <1>13, <1>14, <1>15, <1>16, <1>17, <1>18, <1>19, <1>20, <1>21, <1>22, <1>23, <1>24,
       <1>28, FeaturesAre
  <1>. QED
    BY <1>26, <1>27 DEF Carried, spec, r

-----------------------------------------------------------------------------
(***************************************************************************)
(* The editing of a stack: every step                                      *)
(***************************************************************************)
LEMMA StackInit == Stack!Init => StackInv
  <1>. SUFFICES ASSUME Stack!Init
               PROVE  StackInv
    OBVIOUS
  <1>1. LiveKnown
    <2>1. PICK first \in ServiceNames, second \in ServiceNames, a \in Stack!Specs, b \in Stack!Specs \cup {Stack!Absent} :
            live = [s \in ServiceNames |-> IF s = first THEN a ELSE IF s = second THEN b ELSE Stack!Absent]
      BY DEF Stack!Init
    <2>2. \A s \in ServiceNames : live[s] \in Stack!Specs \cup {Stack!Absent}
      BY <2>1
    <2>3. \A s \in ServiceNames : IsASpec(live[s]) /\ (live[s] # Stack!Absent => live[s].mode # "absent")
      BY <2>2, SpecsAreSpecs, AbsentIsASpec
    <2>. QED
      BY <2>1, <2>3, SpecIs DEF LiveKnown
  <1>2. DOMAIN read = {} /\ DOMAIN compose.services = {} /\ DOMAIN from = {}
    BY DEF Stack!Init, Stack!Empty, Stack!NoFile
  <1>3. /\ editing = Stack!Closed /\ networks = {"stack_net", "net"} /\ edits = 0 /\ others = 0
    BY DEF Stack!Init
  <1>4. EditingKnown
    BY <1>3, EditAssumption DEF EditingKnown, Stack!Closed, EditSteps
  <1>5. editing.step = "closed"
    BY <1>3 DEF Stack!Closed
  <1>. QED
    BY <1>1, <1>2, <1>4, <1>5 DEF StackInv, ReadKnown, FileKnown

LEMMA ClosesKeepsStack ==
  ASSUME StackInv, Stack!Closes, live' = live, networks' \subseteq networks, UNCHANGED <<environ, edits, others>>
  PROVE  StackInv'
  <1>1. DOMAIN read' = {} /\ DOMAIN compose'.services = {} /\ DOMAIN from' = {} /\ editing' = Stack!Closed
    BY DEF Stack!Closes, Stack!Empty, Stack!NoFile
  <1>2. LiveKnown'
    BY DEF StackInv, LiveKnown
  <1>3. EditingKnown'
    BY <1>1 DEF StackInv, EditingKnown, Stack!Closed, EditSteps
  <1>4. editing'.step = "closed"
    BY <1>1 DEF Stack!Closed
  <1>. QED
    BY <1>1, <1>2, <1>3, <1>4 DEF StackInv, ReadKnown, FileKnown

LEMMA ListKeepsStack ==
  ASSUME StackInv, Stack!ListServices
  PROVE  StackInv'
  <1>1. PICK listed \in BOOLEAN :
          editing' = [Stack!Closed EXCEPT !.step = "reading", !.todo = Stack!Running, !.listed = listed]
    BY DEF Stack!ListServices
  <1>2. editing' = [step |-> "reading", todo |-> Stack!Running, unset |-> {}, listed |-> listed]
    BY <1>1 DEF Stack!Closed
  <1>3. UNCHANGED <<live, networks, environ, others, read, compose, from, typed>> /\ edits < MaxEdits /\ edits' = edits + 1
    BY DEF Stack!ListServices, Stack!Elsewhere
  <1>4. LiveKnown' /\ ReadKnown'
    BY <1>3 DEF StackInv, LiveKnown, ReadKnown
  <1>5. EditingKnown'
    BY <1>2, <1>3, EditAssumption DEF StackInv, EditingKnown, EditSteps, Stack!Running
  <1>6. FileKnown'
    BY <1>2, <1>3 DEF StackInv, FileKnown
  <1>. QED
    BY <1>4, <1>5, <1>6 DEF StackInv

LEMMA InspectKeepsStack ==
  ASSUME StackInv, Stack!InspectService
  PROVE  StackInv'
  <1>. DEFINE s == Stack!FirstOf(editing.todo)
  <1>1. editing.step = "reading" /\ editing.todo # {} /\ editing' = [editing EXCEPT !.todo = @ \ {s}]
    BY DEF Stack!InspectService
  <1>2. UNCHANGED <<live, networks, environ, others, compose, from, typed, edits>>
    BY DEF Stack!InspectService, Stack!Elsewhere
  <1>3. \/ live[s] # Stack!Absent /\ read' = [t \in DOMAIN read \cup {s} |-> IF t = s THEN live[s] ELSE read[t]]
        \/ read' = read
    BY DEF Stack!InspectService
  <1>4. s \in ServiceNames
    BY <1>1, FirstOfIs DEF StackInv, EditingKnown
  <1>. HIDE DEF s
  <1>5. LiveKnown' /\ EditingKnown'
    BY <1>1, <1>2 DEF StackInv, LiveKnown, EditingKnown
  <1>6. ReadKnown'
    <2>1. IsASpec(live[s]) /\ (live[s] # Stack!Absent => live[s].mode # "absent")
      BY <1>4 DEF StackInv, LiveKnown
    <2>. QED
      BY <1>3, <1>4, <2>1 DEF StackInv, ReadKnown
  <1>7. editing'.step = "reading"
    BY <1>1 DEF StackInv, EditingKnown
  <1>8. FileKnown'
    BY <1>2, <1>7 DEF StackInv, FileKnown
  <1>. QED
    BY <1>5, <1>6, <1>8 DEF StackInv

LEMMA ReconstructKeepsStack ==
  ASSUME StackInv, Stack!Reconstruct
  PROVE  StackInv'
  <1>1. /\ editing' = [editing EXCEPT !.step = "open"] /\ compose' = Stack!Assembled(read, editing.listed)
        /\ from' = [s \in DOMAIN read |-> s] /\ typed' = {}
        /\ UNCHANGED <<live, networks, environ, others, read, edits>>
    BY DEF Stack!Reconstruct, Stack!Elsewhere
  <1>2. LiveKnown' /\ ReadKnown' /\ EditingKnown'
    BY <1>1 DEF StackInv, LiveKnown, ReadKnown, EditingKnown, EditSteps
  <1>3. editing'.step = "open" /\ editing'.listed = editing.listed
    BY <1>1 DEF StackInv, EditingKnown
  <1>4. DOMAIN compose'.services = DOMAIN read
    BY <1>1 DEF Stack!Assembled
  <1>5. compose' = Stack!Assembled(read, editing.listed)'
    BY <1>1, <1>3 DEF Stack!Assembled, Stack!Section, Stack!Declared, Stack!External
  <1>6. FileKnown'
    BY <1>1, <1>3, <1>4, <1>5 DEF FileKnown
  <1>. QED
    BY <1>2, <1>6 DEF StackInv

\* What the editor may be left with: each section is the one of a service that was read.
WrittenKnown(w) ==
  /\ w.f.volume = compose.volume /\ w.f.networks = compose.networks
  /\ DOMAIN w.from = DOMAIN w.f.services /\ DOMAIN w.f.services \subseteq ServiceNames
  /\ \A t \in DOMAIN w.f.services :
       w.from[t] \in DOMAIN read /\ WrittenOf(w.f.services[t], compose.services[w.from[t]], t, w.typed)

LEMMA OpenIs ==
  ASSUME StackInv, editing.step = "open"
  PROVE  /\ compose = [services |-> compose.services, volume |-> compose.volume, networks |-> compose.networks]
         /\ compose.volume = Stack!Declared(read) /\ compose.networks = Stack!External(read, editing.listed)
         /\ DOMAIN compose.services = DOMAIN read /\ DOMAIN from = DOMAIN read /\ DOMAIN read \subseteq ServiceNames
         /\ \A u \in DOMAIN read : from[u] = u /\ compose.services[u] = Stack!Section(read[u], editing.listed)
  BY DEF StackInv, FileKnown, ReadKnown, Stack!Assembled

Edited(services, origins, s, anew) ==
  [f |-> [compose EXCEPT !.services = services], from |-> origins, typed |-> {s} \X anew]

LEMMA EditedIs ==
  ASSUME StackInv, editing.step = "open", NEW services, NEW origins, NEW s, NEW anew, NEW w,
         w = Edited(services, origins, s, anew)
  PROVE  /\ w.f.volume = compose.volume /\ w.f.networks = compose.networks /\ w.f.services = services
         /\ w.from = origins /\ \A f \in anew : <<s, f>> \in w.typed
  <1>1. compose = [services |-> compose.services, volume |-> compose.volume, networks |-> compose.networks]
    BY OpenIs
  <1>2. w.f = [compose EXCEPT !.services = services] /\ w.from = origins /\ w.typed = {s} \X anew
    BY DEF Edited
  <1>3. w.f = [services |-> services, volume |-> compose.volume, networks |-> compose.networks]
    BY <1>1, <1>2
  <1>. QED
    BY <1>2, <1>3

\* A section for s, and the other ones as they are.
LEMMA OneRewritten ==
  ASSUME StackInv, editing.step = "open", NEW s \in DOMAIN compose.services, NEW section, NEW anew, NEW w,
         w = Edited([compose.services EXCEPT ![s] = section], from, s, anew),
         \A k \in Copied : section[k] = compose.services[s][k],
         \/ section.image = compose.services[s].image
         \/ section.image = "other" /\ {"image", "digest"} \subseteq anew,
         \/ section.deploy = compose.services[s].deploy
         \/ section.deploy = Scaled /\ {"mode", "replicas"} \subseteq anew,
         \/ section.empty = compose.services[s].empty
         \/ section.empty = compose.services[s].empty \cup {"PLAIN"} /\ {"empty", "filled"} \subseteq anew
  PROVE  WrittenKnown(w)
  <1>. DEFINE services == [compose.services EXCEPT ![s] = section]
  <1>1. /\ w.f.volume = compose.volume /\ w.f.networks = compose.networks /\ w.f.services = services
        /\ w.from = from /\ \A f \in anew : <<s, f>> \in w.typed
    BY EditedIs
  <1>2. /\ DOMAIN compose.services = DOMAIN read /\ DOMAIN from = DOMAIN read /\ DOMAIN read \subseteq ServiceNames
        /\ \A u \in DOMAIN read : from[u] = u
    BY OpenIs
  <1>3. services[s] = section /\ DOMAIN services = DOMAIN read /\ \A u \in DOMAIN read \ {s} : services[u] = compose.services[u]
    BY <1>2
  <1>. HIDE DEF services
  <1>4. WrittenOf(section, compose.services[s], s, w.typed)
    BY <1>1 DEF WrittenOf
  <1>5. \A u \in DOMAIN read \ {s} : WrittenOf(services[u], compose.services[u], u, w.typed)
    BY <1>3 DEF WrittenOf
  <1>. QED
    BY <1>1, <1>2, <1>3, <1>4, <1>5 DEF WrittenKnown

\* The sections there are, under the names they had or others.
LEMMA OnlyRenamed ==
  ASSUME StackInv, editing.step = "open", NEW s, NEW services, NEW origins, NEW w,
         w = Edited(services, origins, s, {}),
         DOMAIN origins = DOMAIN services, DOMAIN services \subseteq ServiceNames,
         \A t \in DOMAIN services : origins[t] \in DOMAIN read /\ services[t] = compose.services[origins[t]]
  PROVE  WrittenKnown(w)
  <1>1. /\ w.f.volume = compose.volume /\ w.f.networks = compose.networks /\ w.f.services = services
        /\ w.from = origins
    BY EditedIs
  <1>. QED
    BY <1>1 DEF WrittenKnown, WrittenOf

LEMMA WrittenIsKnown ==
  ASSUME StackInv, editing.step = "open", NEW s \in DOMAIN compose.services, NEW w \in Stack!Written(s)
  PROVE  WrittenKnown(w)
  <1>. DEFINE c == compose.services
              rest == DOMAIN c \ {s}
  <1>1. /\ DOMAIN c = DOMAIN read /\ DOMAIN from = DOMAIN read /\ DOMAIN read \subseteq ServiceNames
        /\ \A u \in DOMAIN read : from[u] = u /\ c[u] = Stack!Section(read[u], editing.listed)
    BY OpenIs
  <1>2. \/ w = Edited(c, from, s, {})
        \/ w = Edited([c EXCEPT ![s] = [c[s] EXCEPT !.deploy = [mode |-> Stack!Unsaid, replicas |-> 2]]], from, s,
                      {"mode", "replicas"})
        \/ w = Edited([c EXCEPT ![s] = [c[s] EXCEPT !.image = "other"]], from, s, {"image", "digest"})
        \/ w = Edited([c EXCEPT ![s] = [c[s] EXCEPT !.empty = @ \cup {"PLAIN"}]], from, s, {"empty", "filled"})
        \/ w = Edited([c EXCEPT ![s] = [c[s] EXCEPT !.relative = TRUE]], from, s, {})
        \/ w = Edited([u \in rest |-> c[u]], [u \in rest |-> from[u]], s, {})
        \/ \E t \in ServiceNames \ DOMAIN c :
             w = Edited([u \in rest \cup {t} |-> IF u = t THEN c[s] ELSE c[u]],
                        [u \in rest \cup {t} |-> IF u = t THEN from[s] ELSE from[u]], s, {})
    BY DEF Stack!Written, Edited
  <1>3. /\ DOMAIN c[s] = Copied \cup {"image", "deploy", "empty", "relative"}
        /\ \A k \in Copied : k \notin {"image", "deploy", "empty", "relative"}
    BY <1>1 DEF Stack!Section, Copied
  <1>4. CASE w = Edited(c, from, s, {})
    BY <1>1, <1>4, OnlyRenamed
  <1>5. CASE w = Edited([c EXCEPT ![s] = [c[s] EXCEPT !.deploy = [mode |-> Stack!Unsaid, replicas |-> 2]]], from, s,
                        {"mode", "replicas"})
    <2>. DEFINE section == [c[s] EXCEPT !.deploy = [mode |-> Stack!Unsaid, replicas |-> 2]]
    <2>1. /\ \A k \in Copied : section[k] = c[s][k]
          /\ section.image = c[s].image /\ section.deploy = Scaled /\ section.empty = c[s].empty
      BY <1>3 DEF Scaled, Unsaid
    <2>. HIDE DEF section
    <2>2. w = Edited([c EXCEPT ![s] = section], from, s, {"mode", "replicas"})
      BY <1>5 DEF section
    <2>. QED
      BY <2>1, <2>2, OneRewritten
  <1>6. CASE w = Edited([c EXCEPT ![s] = [c[s] EXCEPT !.empty = @ \cup {"PLAIN"}]], from, s, {"empty", "filled"})
    <2>. DEFINE section == [c[s] EXCEPT !.empty = @ \cup {"PLAIN"}]
    <2>1. /\ \A k \in Copied : section[k] = c[s][k]
          /\ section.image = c[s].image /\ section.deploy = c[s].deploy /\ section.empty = c[s].empty \cup {"PLAIN"}
      BY <1>3
    <2>. HIDE DEF section
    <2>2. w = Edited([c EXCEPT ![s] = section], from, s, {"empty", "filled"})
      BY <1>6 DEF section
    <2>. QED
      BY <2>1, <2>2, OneRewritten
  <1>7. CASE w = Edited([c EXCEPT ![s] = [c[s] EXCEPT !.relative = TRUE]], from, s, {})
    <2>. DEFINE section == [c[s] EXCEPT !.relative = TRUE]
    <2>1. /\ \A k \in Copied : section[k] = c[s][k]
          /\ section.image = c[s].image /\ section.deploy = c[s].deploy /\ section.empty = c[s].empty
      BY <1>3
    <2>. HIDE DEF section
    <2>2. w = Edited([c EXCEPT ![s] = section], from, s, {})
      BY <1>7 DEF section
    <2>. QED
      BY <2>1, <2>2, OneRewritten
  <1>10. CASE w = Edited([c EXCEPT ![s] = [c[s] EXCEPT !.image = "other"]], from, s, {"image", "digest"})
    <2>. DEFINE section == [c[s] EXCEPT !.image = "other"]
    <2>1. /\ \A k \in Copied : section[k] = c[s][k]
          /\ section.image = "other" /\ section.deploy = c[s].deploy /\ section.empty = c[s].empty
      BY <1>3
    <2>. HIDE DEF section
    <2>2. w = Edited([c EXCEPT ![s] = section], from, s, {"image", "digest"})
      BY <1>10 DEF section
    <2>. QED
      BY <2>1, <2>2, OneRewritten
  <1>8. CASE w = Edited([u \in rest |-> c[u]], [u \in rest |-> from[u]], s, {})
    <2>. DEFINE services == [u \in rest |-> c[u]]
                origins == [u \in rest |-> from[u]]
    <2>1. /\ DOMAIN origins = DOMAIN services /\ DOMAIN services \subseteq ServiceNames
          /\ \A t \in DOMAIN services : origins[t] \in DOMAIN read /\ services[t] = c[origins[t]]
      BY <1>1
    <2>. HIDE DEF services, origins
    <2>2. w = Edited(services, origins, s, {})
      BY <1>8 DEF services, origins
    <2>. QED
      BY <2>1, <2>2, OnlyRenamed
  <1>9. ASSUME NEW t \in ServiceNames \ DOMAIN c,
               w = Edited([u \in rest \cup {t} |-> IF u = t THEN c[s] ELSE c[u]],
                          [u \in rest \cup {t} |-> IF u = t THEN from[s] ELSE from[u]], s, {})
        PROVE  WrittenKnown(w)
    <2>. DEFINE services == [u \in rest \cup {t} |-> IF u = t THEN c[s] ELSE c[u]]
                origins == [u \in rest \cup {t} |-> IF u = t THEN from[s] ELSE from[u]]
    <2>1. /\ DOMAIN origins = DOMAIN services /\ DOMAIN services \subseteq ServiceNames
          /\ \A u \in DOMAIN services : origins[u] \in DOMAIN read /\ services[u] = c[origins[u]]
      BY <1>1
    <2>. HIDE DEF services, origins
    <2>2. w = Edited(services, origins, s, {})
      BY <1>9 DEF services, origins
    <2>. QED
      BY <2>1, <2>2, OnlyRenamed
  <1>. QED
    BY <1>2, <1>4, <1>5, <1>6, <1>7, <1>8, <1>9, <1>10

\* What is left empty in the file as it was is refused or withheld from the deploy.
LEMMA EmptyIsWithheld ==
  ASSUME NEW f, ~Stack!Refused(f), NEW t \in DOMAIN f.services, NEW u \in DOMAIN compose.services,
         f.services[t].empty = compose.services[u].empty
  PROVE  compose.services[u].empty \cap environ \subseteq Stack!Withheld(f)
  <1>. SUFFICES ASSUME NEW x \in compose.services[u].empty, x \in environ
               PROVE  x \in Stack!Withheld(f)
    OBVIOUS
  <1>1. x \in Stack!Empties(compose.services) /\ x \in Stack!Empties(f.services)
    BY DEF Stack!Empties
  <1>2. x \in Stack!StillEmpty(f)
    BY <1>1 DEF Stack!StillEmpty
  <1>. QED
    BY <1>2 DEF Stack!Refused, Stack!Withheld

LEMMA EditorKeepsStack ==
  ASSUME StackInv, Stack!CloseEditor
  PROVE  StackInv'
  <1>1. editing.step = "open" /\ UNCHANGED <<live, networks, environ, others, edits>>
    BY DEF Stack!CloseEditor, Stack!Elsewhere
  <1>2. CASE Stack!Closes
    BY <1>1, <1>2, ClosesKeepsStack
  <1>3. CASE ~Stack!Closes
    <2>1. PICK s \in DOMAIN compose.services : \E w \in Stack!Written(s) :
            /\ ~Stack!Refused(w.f)
            /\ editing' = [editing EXCEPT !.step = "networks", !.todo = DOMAIN w.f.services, !.unset = Stack!Withheld(w.f)]
            /\ compose' = w.f /\ from' = w.from /\ typed' = w.typed /\ UNCHANGED read
      BY <1>3 DEF Stack!CloseEditor
    <2>2. PICK w \in Stack!Written(s) :
            /\ ~Stack!Refused(w.f)
            /\ editing' = [editing EXCEPT !.step = "networks", !.todo = DOMAIN w.f.services, !.unset = Stack!Withheld(w.f)]
            /\ compose' = w.f /\ from' = w.from /\ typed' = w.typed /\ UNCHANGED read
      BY <2>1
    <2>3. WrittenKnown(w)
      BY <1>1, <2>2, WrittenIsKnown
    <2>4. /\ compose.volume = Stack!Declared(read) /\ compose.networks = Stack!External(read, editing.listed)
          /\ DOMAIN compose.services = DOMAIN read
          /\ \A u \in DOMAIN read : compose.services[u] = Stack!Section(read[u], editing.listed)
      BY <1>1, OpenIs
    <2>5. editing' = [step |-> "networks", todo |-> DOMAIN w.f.services, unset |-> Stack!Withheld(w.f), listed |-> editing.listed]
          /\ editing.listed \in BOOLEAN
      BY <2>2 DEF StackInv, EditingKnown
    <2>6. Stack!Withheld(w.f) \subseteq Stack!EnvNames
      <3>1. \A u \in DOMAIN read : compose.services[u].empty \subseteq Stack!EnvNames
        <4>1. ASSUME NEW u \in DOMAIN read
              PROVE  compose.services[u].empty \subseteq Stack!EnvNames
          <5>1. IsASpec(read[u])
            BY ReadIs DEF StackInv
          <5>2. compose.services[u] = Stack!Section(read[u], editing.listed)
            BY <2>4
          <5>3. compose.services[u].empty = read[u].empty
            BY <5>2 DEF Stack!Section
          <5>. QED
            BY <5>1, <5>3, SpecIs DEF ServiceSpec
        <4>. QED
          BY <4>1
      <3>2. Stack!Empties(compose.services) \subseteq Stack!EnvNames
        BY <2>4, <3>1 DEF Stack!Empties
      <3>. QED
        BY <3>2 DEF Stack!Withheld, Stack!StillEmpty
    <2>7. LiveKnown' /\ ReadKnown'
      BY <1>1, <2>2 DEF StackInv, LiveKnown, ReadKnown
    <2>8. EditingKnown'
      BY <1>1, <2>3, <2>5, <2>6 DEF StackInv, EditingKnown, EditSteps, WrittenKnown
    <2>9. ASSUME NEW t \in DOMAIN w.f.services
          PROVE  w.from[t] \in DOMAIN read
                 /\ SaysOf(w.f.services[t], Stack!Section(read[w.from[t]], editing.listed), t)'
      <3>. DEFINE u == w.from[t]
                  o == Stack!Section(read[u], editing.listed)
      <3>1. u \in DOMAIN read /\ WrittenOf(w.f.services[t], compose.services[u], t, w.typed) /\ compose.services[u] = o
        BY <2>3, <2>4 DEF WrittenKnown
      <3>2. w.f.services[t].empty = o.empty => o.empty \cap environ \subseteq Stack!Withheld(w.f)
        BY <2>2, <2>4, <3>1, EmptyIsWithheld
      <3>3. read' = read /\ editing'.listed = editing.listed /\ environ' = environ
            /\ editing'.unset = Stack!Withheld(w.f) /\ typed' = w.typed
        BY <1>1, <2>2, <2>5
      <3>4. Stack!Section(read[w.from[t]], editing.listed)' = o
        BY <3>3 DEF Stack!Section
      <3>. HIDE DEF o
      <3>. QED
        BY <3>1, <3>2, <3>3, <3>4 DEF SaysOf, WrittenOf
    <2>10. /\ compose.volume = Stack!Declared(read)' /\ compose.networks = Stack!External(read, editing.listed)'
      <3>1. read' = read /\ editing'.listed = editing.listed
        BY <2>2, <2>5
      <3>2. Stack!Declared(read)' = Stack!Declared(read)
        BY <3>1 DEF Stack!Declared
      <3>3. Stack!External(read, editing.listed)' = Stack!External(read, editing.listed)
        BY <3>1 DEF Stack!External
      <3>. QED
        BY <2>4, <3>2, <3>3
    <2>11. FileKnown'
      BY <2>2, <2>3, <2>5, <2>9, <2>10 DEF FileKnown, WrittenKnown
    <2>. QED
      BY <2>7, <2>8, <2>11 DEF StackInv
  <1>. QED
    BY <1>2, <1>3

\* A deploy under way changes neither the file nor what it was made of.
LEMMA FileStands ==
  ASSUME StackInv, UNCHANGED <<environ, read, compose, from, typed>>,
         editing' = [editing EXCEPT !.step = "deploying"] \/ (\E s : editing' = [editing EXCEPT !.todo = @ \ {s}]),
         editing.step \in {"networks", "deploying"}
  PROVE  /\ editing' \in [step : EditSteps, todo : SUBSET ServiceNames, unset : SUBSET Stack!EnvNames, listed : BOOLEAN]
         /\ ReadKnown' /\ FileKnown'
  <1>1. editing \in [step : EditSteps, todo : SUBSET ServiceNames, unset : SUBSET Stack!EnvNames, listed : BOOLEAN]
    BY DEF StackInv, EditingKnown
  <1>2. /\ editing' \in [step : EditSteps, todo : SUBSET ServiceNames, unset : SUBSET Stack!EnvNames, listed : BOOLEAN]
        /\ editing'.unset = editing.unset /\ editing'.listed = editing.listed /\ editing'.todo \subseteq editing.todo
        /\ editing'.step \in {"networks", "deploying"}
    BY <1>1 DEF EditSteps
  <1>3. ReadKnown'
    BY DEF StackInv, ReadKnown
  <1>4. /\ Stack!Declared(read)' = Stack!Declared(read)
        /\ Stack!External(read, editing.listed)' = Stack!External(read, editing.listed)
        /\ \A t \in DOMAIN compose.services :
             Stack!Section(read[from[t]], editing.listed)' = Stack!Section(read[from[t]], editing.listed)
    BY <1>2 DEF Stack!Declared, Stack!External, Stack!Section
  <1>5. ASSUME NEW t \in DOMAIN compose.services
        PROVE  from[t] \in DOMAIN read
               /\ SaysOf(compose.services[t], Stack!Section(read[from[t]], editing.listed), t)'
    <2>1. from[t] \in DOMAIN read /\ SaysOf(compose.services[t], Stack!Section(read[from[t]], editing.listed), t)
      BY DEF StackInv, FileKnown
    <2>. QED
      BY <1>2, <1>4, <2>1 DEF SaysOf, WrittenOf
  <1>6. FileKnown'
    BY <1>2, <1>4, <1>5 DEF StackInv, FileKnown
  <1>. QED
    BY <1>2, <1>3, <1>6

LEMMA NetworksKeepStack ==
  ASSUME StackInv, Stack!CreateNetworks
  PROVE  StackInv'
  <1>1. /\ editing.step = "networks" /\ editing' = [editing EXCEPT !.step = "deploying"]
        /\ UNCHANGED <<live, environ, others, read, compose, from, typed, edits>>
    BY DEF Stack!CreateNetworks
  <1>2. networks' \subseteq {"stack_net", "net"}
    BY DEF Stack!CreateNetworks, Stack!NetworkOf, StackInv, EditingKnown
  <1>. QED
    BY <1>1, <1>2, FileStands DEF StackInv, LiveKnown, EditingKnown

LEMMA DeployKeepsStack ==
  ASSUME StackInv, Stack!DeployService
  PROVE  StackInv' /\ Stack!ChangesOnlyTheEdit
  <1>1. PICK s \in editing.todo :
          /\ live' = [live EXCEPT ![s] = Stack!Converted(compose, s, editing.unset)]
          /\ editing' = [editing EXCEPT !.todo = @ \ {s}]
    BY DEF Stack!DeployService
  <1>2. editing.step = "deploying" /\ UNCHANGED <<networks, environ, others, read, compose, from, typed, edits>>
    BY DEF Stack!DeployService
  <1>. DEFINE spec == Stack!Converted(compose, s, editing.unset)
  <1>3. Carried(spec, s)
    BY <1>2, ConvertedIs
  <1>4. s \in ServiceNames /\ s \in DOMAIN from
    BY <1>2 DEF StackInv, EditingKnown, FileKnown
  <1>. HIDE DEF spec
  <1>5. live' = [live EXCEPT ![s] = spec]
    BY <1>1 DEF spec
  <1>6. IsASpec(spec) /\ spec \in ServiceSpec /\ spec.mode # "absent"
    BY <1>3, SpecIs DEF Carried
  <1>7. LiveKnown'
    BY <1>4, <1>5, <1>6 DEF StackInv, LiveKnown
  <1>8. StackInv'
    BY <1>1, <1>2, <1>7, FileStands DEF StackInv, EditingKnown
  <1>9. ASSUME NEW t \in ServiceNames, live'[t] # live[t]
        PROVE  t = s /\ live'[t] = spec
    BY <1>4, <1>5, <1>9 DEF StackInv, LiveKnown
  <1>. QED
    BY <1>3, <1>4, <1>8, <1>9 DEF Stack!ChangesOnlyTheEdit, Carried

LEMMA OthersKeepStack ==
  ASSUME StackInv, Stack!OtherDeploys
  PROVE  StackInv'
  <1>1. PICK s \in Stack!Running :
          live' = [live EXCEPT ![s] = Stack!Absent] \/ live' = [live EXCEPT ![s].health = "own"]
    BY DEF Stack!OtherDeploys
  <1>2. others < MaxOthers /\ others' = others + 1 /\ UNCHANGED <<networks, environ, editing, read, compose, from, typed, edits>>
    BY DEF Stack!OtherDeploys
  <1>3. s \in ServiceNames /\ live[s] # Stack!Absent
    BY DEF Stack!Running
  <1>4. IsASpec(live[s]) /\ live[s].mode # "absent" /\ live[s] \in ServiceSpec
    BY <1>3, SpecIs DEF StackInv, LiveKnown
  <1>5. IsASpec([live[s] EXCEPT !.health = "own"]) /\ [live[s] EXCEPT !.health = "own"].mode # "absent"
    BY <1>4 DEF IsASpec, ServiceSpec
  <1>6. live' = [live EXCEPT ![s] = live'[s]] /\ IsASpec(live'[s]) /\ (live'[s] # Stack!Absent => live'[s].mode # "absent")
    BY <1>1, <1>3, <1>5, AbsentIsASpec DEF StackInv, LiveKnown
  <1>7. live'[s] \in ServiceSpec
    BY <1>6, SpecIs
  <1>8. LiveKnown'
    BY <1>3, <1>6, <1>7 DEF StackInv, LiveKnown
  <1>9. EditingKnown' /\ ReadKnown' /\ FileKnown'
    BY <1>2, EditAssumption DEF StackInv, EditingKnown, ReadKnown, FileKnown, SaysOf
  <1>. QED
    BY <1>8, <1>9 DEF StackInv

LEMMA StackStep == StackInv /\ [Stack!Next]_stack => StackInv' /\ [Stack!ChangesOnlyTheEdit]_(Stack!vars)
  <1>. SUFFICES ASSUME StackInv, [Stack!Next]_stack
               PROVE  StackInv' /\ Stack!ChangesOnlyTheEdit
    OBVIOUS
  <1>1. CASE UNCHANGED stack
    BY <1>1 DEF stack, StackInv, LiveKnown, ReadKnown, EditingKnown, FileKnown, SaysOf, Stack!ChangesOnlyTheEdit
  <1>2. CASE Stack!ListServices \/ Stack!InspectService \/ Stack!Reconstruct \/ Stack!CloseEditor \/ Stack!CreateNetworks
    <2>1. editing.step # "deploying"
      BY <1>2 DEF Stack!ListServices, Stack!InspectService, Stack!Reconstruct, Stack!CloseEditor, Stack!CreateNetworks
    <2>. QED
      BY <1>2, <2>1, ListKeepsStack, InspectKeepsStack, ReconstructKeepsStack, EditorKeepsStack, NetworksKeepStack
         DEF Stack!ChangesOnlyTheEdit
  <1>3. CASE Stack!DeployService
    BY <1>3, DeployKeepsStack
  <1>4. CASE Stack!DeployEnds \/ Stack!DeployFails
    <2>1. /\ Stack!Closes /\ live' = live /\ networks' \subseteq networks /\ UNCHANGED <<environ, edits, others>>
      BY <1>4 DEF Stack!DeployEnds, Stack!DeployFails, Stack!Elsewhere, Stack!CleanUp
    <2>. QED
      BY <2>1, ClosesKeepsStack DEF Stack!ChangesOnlyTheEdit
  <1>5. CASE Stack!OtherDeploys
    <2>1. editing' = editing
      BY <1>5 DEF Stack!OtherDeploys
    <2>. QED
      BY <1>5, <2>1, OthersKeepStack DEF Stack!ChangesOnlyTheEdit
  <1>. QED
    BY <1>1, <1>2, <1>3, <1>4, <1>5 DEF Stack!Next

LEMMA StackTyped == StackInv => Stack!TypeOK
  BY DEF StackInv, LiveKnown, ReadKnown, EditingKnown, FileKnown, EditSteps, Stack!TypeOK

\* A redeploy gives each service what was read of it and what was written anew, but for what a
\* file is known not to carry, whichever others are in the stack and whoever deploys beside it
\* (docker/stack_to_compose.go, views/stacks/editcmd.go).
THEOREM EditsAreCarried == Spec => EditChangesOnlyTheEdit
  <1>1. Init => StackInv
    BY StackInit DEF Init
  <1>2. [Next]_vars => [Stack!Next]_stack
    BY DEF Next, vars
  <1>3. StackInv /\ [Stack!Next]_stack => StackInv' /\ [Stack!ChangesOnlyTheEdit]_(Stack!vars)
    BY StackStep
  <1>4. StackInv => Stack!TypeOK
    BY StackTyped
  <1>. QED
    BY <1>1, <1>2, <1>3, <1>4, PTL DEF Spec, EditChangesOnlyTheEdit, Stack!EditChangesOnlyTheEdit
=============================================================================
