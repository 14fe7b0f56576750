--------------------------- MODULE SessionProofs ---------------------------
(***************************************************************************)
(* What holds of Session for any number of contexts and of commands that   *)
(* run at once.                                                            *)
(***************************************************************************)
EXTENDS Session, TLAPS

WorkerStep == [step : Steps, ctx : Contexts \cup {None},
               from : Contexts \cup {None}, to : Contexts \cup {None}]

\* A switch under way knows the context it goes to, and the one it may go back to.
SwitchKnowsItsEnds ==
  \A w \in Switches :
    /\ worker[w].step \in {"begin", "use", "set"} => worker[w].to \in Contexts
    /\ worker[w].step \in {"use", "set", "reset", "get", "build", "call", "use back", "set back"}
         => worker[w].from \in Contexts

\* A revert knows where to, and a notification carries a context or none.
MessagesKnown ==
  /\ handler = "revert" => revertTo \in [ctx : Contexts, writes : BOOLEAN]
  /\ notice = <<>> \/ \E x \in Contexts \cup {None} : notice = <<x>>

\* The background refresh runs only while its flag is up.
RefreshFlagged == ~refreshing => worker["refresh"].step = "free"

\* With nobody about to drop the client, what is being built is the pin's too.
BuildsForThePin ==
  \/ ResetToCome
  \/ /\ client \in {None, pin}
     /\ \A w \in Workers : worker[w].step = "build" => worker[w].ctx = pin

Inv == TypeOK /\ SwitchKnowsItsEnds /\ MessagesKnown /\ RefreshFlagged /\ BuildsForThePin

-----------------------------------------------------------------------------
(***************************************************************************)
(* Steps of a worker                                                       *)
(***************************************************************************)

LEMMA GoesOn ==
  ASSUME TypeOK, NEW w \in Workers, NEW s \in Steps, Goes(w, s)
  PROVE  /\ worker' \in [Workers -> WorkerStep] /\ worker'[w].step = s
         /\ worker'[w].ctx = worker[w].ctx /\ worker'[w].from = worker[w].from
         /\ worker'[w].to = worker[w].to
         /\ \A v \in Workers \ {w} : worker'[v] = worker[v]
  BY DEF TypeOK, Goes, WorkerStep

LEMMA GoesWithClient ==
  ASSUME TypeOK, NEW w \in Workers, NEW s \in Steps, NEW x \in Contexts \cup {None},
         worker' = [worker EXCEPT ![w].step = s, ![w].ctx = x]
  PROVE  /\ worker' \in [Workers -> WorkerStep] /\ worker'[w].step = s
         /\ worker'[w].ctx = x /\ worker'[w].from = worker[w].from
         /\ worker'[w].to = worker[w].to
         /\ \A v \in Workers \ {w} : worker'[v] = worker[v]
  BY DEF TypeOK, WorkerStep

LEMMA IsOver ==
  ASSUME TypeOK, NEW w \in Workers, NEW s \in Steps,
         Ends(w, s) \/ (s = "free" /\ worker' = [worker EXCEPT ![w] = Free])
  PROVE  /\ worker' \in [Workers -> WorkerStep] /\ worker'[w].step = s
         /\ \A v \in Workers \ {w} : worker'[v] = worker[v]
  BY DEF TypeOK, Ends, Free, WorkerStep

\* One more failure is within the bound.
LEMMA FailsInBound ==
  ASSUME TypeOK, Fails
  PROVE  fails' \in 0..MaxFails
  <1>1. fails \in 0..MaxFails /\ MaxFails \in Nat
    BY SessionAssumption, Zenon DEF TypeOK
  <1>. QED
    BY <1>1 DEF Fails

LEMMA InitInv == Init => Inv
  <1>. SUFFICES ASSUME Init  PROVE  Inv
    OBVIOUS
  <1>1. \A w \in Workers : worker[w].step = "free"
    BY DEF Init, Free
  <1>2. 0 \in 0..MaxOps /\ 0 \in 0..MaxFails
    BY SessionAssumption
  <1>3. TypeOK
    <2>1. worker \in [Workers -> WorkerStep]
      BY DEF Init, Free, WorkerStep, Steps
    <2>2. \A w \in Workers : builder = w <=> worker[w].step = "build"
      BY <1>1, SessionAssumption DEF Init, Workers
    <2>3. /\ shell \in Contexts /\ pin \in Contexts /\ client = None /\ snapshot \in Contexts
          /\ builder = None /\ refreshing = FALSE
      BY SessionAssumption DEF Init
    <2>4. revertTo = NoRevert /\ handler = "idle" /\ Len(notice) \in 0..1
      BY DEF Init
    <2>5. /\ check = "none" /\ inContexts = FALSE /\ pendingSwitch = FALSE /\ listed = None
          /\ listing = None /\ prompt = None /\ declined = None
      BY DEF Init
    <2>6. ops \in 0..MaxOps /\ fails \in 0..MaxFails
      BY <1>2 DEF Init
    <2>. QED
      BY <2>1, <2>2, <2>3, <2>4, <2>5, <2>6 DEF TypeOK, WorkerStep
  <1>4. SwitchKnowsItsEnds /\ RefreshFlagged /\ BuildsForThePin
    BY <1>1 DEF Init, SwitchKnowsItsEnds, RefreshFlagged, BuildsForThePin, Workers
  <1>5. MessagesKnown
    BY DEF Init, MessagesKnown
  <1>. QED
    BY <1>3, <1>4, <1>5 DEF Inv

-----------------------------------------------------------------------------
(***************************************************************************)
(* The client and the snapshot                                             *)
(***************************************************************************)

LEMMA GetClientKeepsInv ==
  ASSUME Inv, NEW w \in Workers, GetClient(w)
  PROVE  Inv'
  <1>1. /\ worker[w].step = "get" /\ builder = None
        /\ UNCHANGED <<shell, pin, client, snapshot, refreshing, app, ui, drift,
                       ops, fails, asked>>
    BY DEF GetClient
  <1>2. \/ /\ client # None /\ builder' = builder
           /\ worker' = [worker EXCEPT ![w].step = "call", ![w].ctx = client]
        \/ /\ client = None /\ builder' = w
           /\ worker' = [worker EXCEPT ![w].step = "build", ![w].ctx = pin]
    BY DEF GetClient
  <1>3. PICK s \in {"call", "build"} :
          /\ worker' \in [Workers -> WorkerStep] /\ worker'[w].step = s
          /\ worker'[w].from = worker[w].from /\ worker'[w].to = worker[w].to
          /\ \A v \in Workers \ {w} : worker'[v] = worker[v]
          /\ s = "build" => builder' = w /\ worker'[w].ctx = pin
          /\ s = "call" => builder' = None
    <2>1. /\ client \in Contexts \cup {None} /\ pin \in Contexts \cup {None}
          /\ "call" \in Steps /\ "build" \in Steps
      BY DEF Inv, TypeOK, Steps
    <2>2. CASE worker' = [worker EXCEPT ![w].step = "call", ![w].ctx = client] /\ builder' = builder
      <3>1. /\ worker' \in [Workers -> WorkerStep] /\ worker'[w].step = "call"
            /\ worker'[w].from = worker[w].from /\ worker'[w].to = worker[w].to
            /\ \A v \in Workers \ {w} : worker'[v] = worker[v]
        BY <2>1, <2>2, GoesWithClient DEF Inv
      <3>2. builder' = None
        BY <1>1, <2>2
      <3>. QED
        BY <3>1, <3>2
    <2>3. CASE worker' = [worker EXCEPT ![w].step = "build", ![w].ctx = pin] /\ builder' = w
      <3>1. /\ worker' \in [Workers -> WorkerStep] /\ worker'[w].step = "build"
            /\ worker'[w].from = worker[w].from /\ worker'[w].to = worker[w].to
            /\ worker'[w].ctx = pin
            /\ \A v \in Workers \ {w} : worker'[v] = worker[v]
        <4>1. TypeOK
          BY DEF Inv
        <4>2. pin \in Contexts \cup {None} /\ "build" \in Steps
          BY <2>1
        <4>3. worker' = [worker EXCEPT ![w].step = "build", ![w].ctx = pin]
          BY <2>3
        <4>. QED
          BY ONLY <4>1, <4>2, <4>3, w \in Workers DEF TypeOK, WorkerStep
      <3>. QED
        BY <2>3, <3>1
    <2>. QED
      BY <1>2, <2>2, <2>3
  <1>4. None \notin Workers
    BY SessionAssumption DEF Workers
  <1>5. TypeOK'
    <2>1. \A v \in Workers : builder' = v <=> worker'[v].step = "build"
      BY <1>1, <1>3, <1>4 DEF Inv, TypeOK
    <2>. QED
      BY <1>1, <1>3, <2>1 DEF Inv, TypeOK, WorkerStep, app, ui, drift
  <1>6. SwitchKnowsItsEnds'
    BY <1>1, <1>3 DEF Inv, SwitchKnowsItsEnds, Workers
  <1>7. MessagesKnown'
    BY <1>1 DEF Inv, MessagesKnown, app
  <1>8. RefreshFlagged'
    BY <1>1, <1>3 DEF Inv, RefreshFlagged, Workers
  <1>9. BuildsForThePin'
    BY <1>1, <1>3 DEF Inv, BuildsForThePin, ResetToCome, Workers, app
  <1>. QED
    BY <1>5, <1>6, <1>7, <1>8, <1>9 DEF Inv

LEMMA ClientBuiltKeepsInv ==
  ASSUME Inv, NEW w \in Workers, ClientBuilt(w)
  PROVE  Inv'
  <1>1. /\ worker[w].step = "build" /\ client' = worker[w].ctx /\ builder' = None
        /\ UNCHANGED <<shell, pin, snapshot, refreshing, app, ui, drift, ops, fails, asked>>
    BY DEF ClientBuilt
  <1>2. /\ worker' \in [Workers -> WorkerStep] /\ worker'[w].step = "call"
        /\ worker'[w].from = worker[w].from /\ worker'[w].to = worker[w].to
        /\ \A v \in Workers \ {w} : worker'[v] = worker[v]
    BY GoesOn DEF ClientBuilt, Inv, Steps
  <1>3. \A v \in Workers \ {w} : worker[v].step # "build"
    BY <1>1 DEF Inv, TypeOK
  <1>4. None \notin Workers
    BY SessionAssumption DEF Workers
  <1>5. TypeOK'
    <2>1. client' \in Contexts \cup {None}
      BY <1>1 DEF Inv, TypeOK
    <2>2. \A v \in Workers : builder' = v <=> worker'[v].step = "build"
      BY <1>1, <1>2, <1>3, <1>4
    <2>. QED
      BY <1>1, <1>2, <2>1, <2>2 DEF Inv, TypeOK, WorkerStep, app, ui, drift
  <1>6. SwitchKnowsItsEnds'
    BY <1>1, <1>2 DEF Inv, SwitchKnowsItsEnds, Workers
  <1>7. MessagesKnown'
    BY <1>1 DEF Inv, MessagesKnown, app
  <1>8. RefreshFlagged'
    BY <1>1, <1>2 DEF Inv, RefreshFlagged, Workers
  <1>9. BuildsForThePin'
    BY <1>1, <1>2, <1>3 DEF Inv, BuildsForThePin, ResetToCome, Workers, app
  <1>. QED
    BY <1>5, <1>6, <1>7, <1>8, <1>9 DEF Inv

\* A worker's step, which leaves nobody building but who was: its types.
LEMMA StepTyped ==
  ASSUME TypeOK, NEW w \in Workers, worker' \in [Workers -> WorkerStep],
         \A v \in Workers \ {w} : worker'[v] = worker[v],
         worker'[w].step # "build",
         builder' = IF builder = w THEN None ELSE builder,
         shell' \in Contexts, pin' \in Contexts,
         client' \in Contexts \cup {None}, snapshot' \in Contexts \cup {None},
         refreshing' \in BOOLEAN, fails' \in 0..MaxFails,
         UNCHANGED <<app, ui, drift, ops>>
  PROVE  TypeOK'
  <1>1. None \notin Workers
    BY SessionAssumption DEF Workers
  <1>2. \A v \in Workers : builder' = v <=> worker'[v].step = "build"
    BY <1>1 DEF TypeOK
  <1>. QED
    BY <1>2 DEF TypeOK, WorkerStep, app, ui, drift

\* A fetch that is over has its flag down, and builds nothing any more.
LEMMA FetchOverKeepsInv ==
  ASSUME Inv, NEW w \in Workers, Fetched(w) \/ FetchFails(w)
  PROVE  Inv'
  <1>1. /\ w \notin Switches /\ worker[w].step \in {"build", "call"}
        /\ builder' = IF builder = w THEN None ELSE builder
        /\ UNCHANGED <<shell, pin, client, app, ui, drift, ops>>
    BY DEF Fetched, FetchFails, Inv, TypeOK
  <1>2. /\ snapshot' \in Contexts \cup {None} /\ fails' \in 0..MaxFails
        /\ refreshing' \in BOOLEAN
        /\ w = "refresh" => refreshing' = FALSE
        /\ w # "refresh" => refreshing' = refreshing
    BY FailsInBound DEF Fetched, FetchFails, Inv, TypeOK
  <1>3. PICK s \in Steps :
          /\ s \in {"free", "ok", "failed"}
          /\ w = "refresh" => s = "free"
          /\ worker' \in [Workers -> WorkerStep] /\ worker'[w].step = s
          /\ \A v \in Workers \ {w} : worker'[v] = worker[v]
    <2>1. {"free", "ok", "failed"} \subseteq Steps
      BY DEF Steps
    <2>2. CASE w = "refresh"
      <3>1. worker' = [worker EXCEPT ![w] = Free]
        BY <2>2 DEF Fetched, FetchFails
      <3>. QED
        BY <2>1, <3>1, IsOver DEF Inv
    <2>3. CASE w # "refresh"
      <3>1. PICK s \in {"ok", "failed"} : Ends(w, s)
        BY <2>3 DEF Fetched, FetchFails
      <3>2. /\ worker' \in [Workers -> WorkerStep] /\ worker'[w].step = s
            /\ \A v \in Workers \ {w} : worker'[v] = worker[v]
        BY <2>1, <3>1, IsOver DEF Inv
      <3>. QED
        BY <2>1, <2>3, <3>2
    <2>. QED
      BY <2>2, <2>3
  <1>4. TypeOK'
    <2>1. shell \in Contexts /\ pin \in Contexts /\ client \in Contexts \cup {None}
      BY DEF Inv, TypeOK
    <2>. QED
      BY <1>1, <1>2, <1>3, <2>1, StepTyped DEF Inv
  <1>5. SwitchKnowsItsEnds'
    BY <1>1, <1>3 DEF Inv, SwitchKnowsItsEnds, Workers
  <1>6. MessagesKnown'
    BY <1>1 DEF Inv, MessagesKnown, app
  <1>7. RefreshFlagged'
    BY <1>2, <1>3 DEF Inv, RefreshFlagged, Workers
  <1>8. BuildsForThePin'
    BY <1>1, <1>3 DEF Inv, BuildsForThePin, ResetToCome, Workers, app
  <1>. QED
    BY <1>4, <1>5, <1>6, <1>7, <1>8 DEF Inv

-----------------------------------------------------------------------------
(***************************************************************************)
(* ValidateContext                                                         *)
(***************************************************************************)

\* The steps of a switch that leave the pin and the client alone.
LEMMA ValidateKeepsInv ==
  ASSUME Inv, NEW w \in Workers, ReadCurrent(w) \/ UseContext(w) \/ Probed(w) \/ ProbeFails(w)
  PROVE  Inv'
  <1>0. {"use", "set", "failed", "set back", "ok", "use back"} \subseteq Steps
    BY DEF Steps
  <1>1. /\ w \in Switches /\ worker[w].step \in {"begin", "use", "use back", "build", "call"}
        /\ builder' = IF builder = w THEN None ELSE builder
        /\ UNCHANGED <<pin, client, snapshot, refreshing, app, ui, drift, ops>>
    BY DEF ReadCurrent, UseContext, Probed, ProbeFails, swarms, Inv, TypeOK
  <1>2. fails' \in 0..MaxFails
    BY FailsInBound DEF ReadCurrent, UseContext, Probed, ProbeFails, Inv, TypeOK
  <1>3. shell' \in Contexts
    BY <1>1 DEF ReadCurrent, UseContext, Probed, ProbeFails, Inv, TypeOK, SwitchKnowsItsEnds
  <1>4. /\ worker' \in [Workers -> WorkerStep]
        /\ \A v \in Workers \ {w} : worker'[v] = worker[v]
        /\ \/ worker'[w].step \in {"ok", "failed"}
           \/ /\ worker'[w].step = "use" /\ worker'[w].from \in Contexts
              /\ worker'[w].to \in Contexts
           \/ /\ worker'[w].step = "set" /\ worker'[w].from \in Contexts
              /\ worker'[w].to \in Contexts
           \/ worker'[w].step \in {"use back", "set back"} /\ worker'[w].from \in Contexts
    <2>1. CASE ReadCurrent(w)
      <3>1. /\ worker[w].to \in Contexts /\ pin \in Contexts
            /\ worker' = [worker EXCEPT ![w].step = "use", ![w].from = pin]
        BY <1>1, <2>1 DEF ReadCurrent, Inv, TypeOK, SwitchKnowsItsEnds
      <3>. QED
        <4>1. TypeOK /\ pin \in Contexts \cup {None} /\ "use" \in Steps
          BY <1>0, <3>1 DEF Inv
        <4>2. worker' = [worker EXCEPT ![w].step = "use", ![w].from = pin]
          BY <3>1
        <4>3. /\ worker' \in [Workers -> WorkerStep] /\ worker'[w].step = "use"
              /\ worker'[w].from = pin /\ worker'[w].to = worker[w].to
              /\ \A v \in Workers \ {w} : worker'[v] = worker[v]
          BY ONLY <4>1, <4>2, w \in Workers DEF TypeOK, WorkerStep
        <4>. QED
          BY <3>1, <4>3
    <2>2. CASE UseContext(w) /\ worker[w].step = "use"
      <3>1. worker[w].to \in Contexts /\ worker[w].from \in Contexts
        BY <1>1, <2>2 DEF Inv, SwitchKnowsItsEnds
      <3>2. Goes(w, "set") \/ Ends(w, "failed")
        BY <2>2 DEF UseContext
      <3>3. CASE Goes(w, "set")
        BY <1>0, <3>1, <3>3, GoesOn DEF Inv
      <3>4. CASE Ends(w, "failed")
        BY <1>0, <3>4, IsOver DEF Inv
      <3>. QED
        BY <3>2, <3>3, <3>4
    <2>3. CASE UseContext(w) /\ worker[w].step # "use"
      <3>1. Goes(w, "set back") /\ worker[w].from \in Contexts
        BY <1>1, <2>3 DEF UseContext, Inv, SwitchKnowsItsEnds
      <3>. QED
        BY <1>0, <3>1, GoesOn DEF Inv
    <2>4. CASE Probed(w)
      BY <1>0, <2>4, IsOver DEF Probed, Inv
    <2>5. CASE ProbeFails(w)
      <3>1. /\ worker[w].from \in Contexts
            /\ worker' = [worker EXCEPT ![w].step = "use back", ![w].ctx = None]
        BY <1>1, <2>5 DEF ProbeFails, Inv, SwitchKnowsItsEnds
      <3>. QED
        BY <1>0, <3>1, GoesWithClient DEF Inv
    <2>. QED
      BY <2>1, <2>2, <2>3, <2>4, <2>5
  <1>5. TypeOK'
    <2>1. /\ pin \in Contexts /\ client \in Contexts \cup {None} /\ snapshot \in Contexts \cup {None}
          /\ refreshing \in BOOLEAN
      BY DEF Inv, TypeOK
    <2>2. worker'[w].step # "build"
      BY <1>4
    <2>. QED
      BY <1>1, <1>2, <1>3, <1>4, <2>1, <2>2, StepTyped DEF Inv
  <1>6. SwitchKnowsItsEnds'
    BY <1>4 DEF Inv, SwitchKnowsItsEnds, Workers
  <1>7. MessagesKnown'
    BY <1>1 DEF Inv, MessagesKnown, app
  <1>8. RefreshFlagged'
    BY <1>1, <1>4, SessionAssumption DEF Inv, RefreshFlagged, Workers
  <1>9. BuildsForThePin'
    BY <1>1, <1>4 DEF Inv, BuildsForThePin, ResetToCome, Workers, app
  <1>. QED
    BY <1>5, <1>6, <1>7, <1>8, <1>9 DEF Inv

\* Whoever moves the pin has the client to drop from then on.
LEMMA SetContextKeepsInv ==
  ASSUME Inv, NEW w \in Workers, SetContext(w)
  PROVE  Inv'
  <1>1. /\ w \in Switches /\ worker[w].step \in {"set", "set back"}
        /\ UNCHANGED <<shell, swarms, app, ui, drift, ops, fails>>
    BY DEF SetContext
  <1>2. pin' \in Contexts
    BY <1>1 DEF SetContext, Inv, SwitchKnowsItsEnds
  <1>3. worker[w].from \in Contexts
    BY <1>1 DEF Inv, SwitchKnowsItsEnds
  <1>4. /\ worker' \in [Workers -> WorkerStep]
        /\ worker'[w].step \in {"reset", "reset back"} /\ worker'[w].from = worker[w].from
        /\ \A v \in Workers \ {w} : worker'[v] = worker[v]
    <2>1. PICK s \in {"reset", "reset back"} : Goes(w, s)
      BY DEF SetContext
    <2>2. s \in Steps
      BY DEF Steps
    <2>. QED
      BY <2>1, <2>2, GoesOn DEF Inv
  <1>5. TypeOK'
    <2>1. /\ shell \in Contexts /\ client \in Contexts \cup {None} /\ snapshot \in Contexts \cup {None}
          /\ refreshing \in BOOLEAN /\ fails \in 0..MaxFails
      BY Zenon DEF Inv, TypeOK
    <2>2. worker'[w].step # "build" /\ builder # w
      BY <1>1, <1>4 DEF Inv, TypeOK
    <2>. QED
      BY <1>1, <1>2, <1>4, <2>1, <2>2, StepTyped DEF Inv, swarms
  <1>6. SwitchKnowsItsEnds'
    BY <1>3, <1>4 DEF Inv, SwitchKnowsItsEnds, Workers
  <1>7. MessagesKnown'
    BY <1>1 DEF Inv, MessagesKnown, app
  <1>8. RefreshFlagged'
    BY <1>1, <1>4, SessionAssumption DEF Inv, RefreshFlagged, Workers, swarms
  <1>9. BuildsForThePin'
    BY <1>1, <1>4 DEF BuildsForThePin, ResetToCome
  <1>. QED
    BY <1>5, <1>6, <1>7, <1>8, <1>9 DEF Inv

\* Nobody builds while the client is dropped, so what is built from then on is the pin's.
LEMMA DropClientKeepsInv ==
  ASSUME Inv, NEW w \in Workers, DropClient(w)
  PROVE  Inv'
  <1>1. /\ w \in Switches /\ worker[w].step \in {"reset", "reset back"}
        /\ builder = None /\ builder' = None /\ client' = None
        /\ UNCHANGED <<shell, pin, snapshot, refreshing, app, ui, drift, ops, fails>>
    BY DEF DropClient, ResetClient
  <1>2. /\ worker' \in [Workers -> WorkerStep]
        /\ \A v \in Workers \ {w} : worker'[v] = worker[v]
        /\ \/ worker'[w].step = "get" /\ worker'[w].from \in Contexts
           \/ worker'[w].step = "failed"
    <2>1. {"get", "failed"} \subseteq Steps
      BY DEF Steps
    <2>2. (worker[w].step = "reset" /\ Goes(w, "get")) \/ Ends(w, "failed")
      BY DEF DropClient
    <2>3. CASE worker[w].step = "reset" /\ Goes(w, "get")
      <3>1. worker[w].from \in Contexts
        BY <1>1, <2>3 DEF Inv, SwitchKnowsItsEnds
      <3>. QED
        BY <2>1, <2>3, <3>1, GoesOn DEF Inv
    <2>4. CASE Ends(w, "failed")
      BY <2>1, <2>4, IsOver DEF Inv
    <2>. QED
      BY <2>2, <2>3, <2>4
  <1>3. TypeOK'
    <2>1. /\ shell \in Contexts /\ pin \in Contexts /\ snapshot \in Contexts \cup {None}
          /\ refreshing \in BOOLEAN /\ fails \in 0..MaxFails
      BY Zenon DEF Inv, TypeOK
    <2>. QED
      BY <1>1, <1>2, <2>1, StepTyped DEF Inv
  <1>4. SwitchKnowsItsEnds'
    BY <1>2 DEF Inv, SwitchKnowsItsEnds, Workers
  <1>5. MessagesKnown'
    BY <1>1 DEF Inv, MessagesKnown, app
  <1>6. RefreshFlagged'
    BY <1>1, <1>2, SessionAssumption DEF Inv, RefreshFlagged, Workers
  <1>7. BuildsForThePin'
    <2>1. \A v \in Workers : worker[v].step # "build"
      BY <1>1, SessionAssumption DEF Inv, TypeOK, Workers
    <2>. QED
      BY <1>1, <1>2, <2>1 DEF BuildsForThePin
  <1>. QED
    BY <1>3, <1>4, <1>5, <1>6, <1>7 DEF Inv

\* A background refresh begins when none runs.
LEMMA TriggerRefreshKeepsInv ==
  ASSUME Inv, TriggerRefresh
  PROVE  Inv'
  <1>1. /\ ~refreshing /\ refreshing' = TRUE
        /\ UNCHANGED <<shell, pin, client, builder, snapshot, app, ui, drift, ops, fails, asked>>
    BY DEF TriggerRefresh
  <1>2. /\ "refresh" \in Workers /\ "refresh" \notin Switches /\ "get" \in Steps
        /\ worker["refresh"].step = "free"
    BY <1>1, SessionAssumption DEF Workers, Steps, Inv, RefreshFlagged
  <1>3. /\ worker' \in [Workers -> WorkerStep] /\ worker'["refresh"].step = "get"
        /\ \A v \in Workers \ {"refresh"} : worker'[v] = worker[v]
    BY <1>2, GoesOn DEF TriggerRefresh, Inv
  <1>4. TypeOK'
    <2>1. \A v \in Workers : builder' = v <=> worker'[v].step = "build"
      BY <1>1, <1>2, <1>3 DEF Inv, TypeOK
    <2>. QED
      BY <1>1, <1>3, <2>1 DEF Inv, TypeOK, WorkerStep, app, ui, drift
  <1>5. SwitchKnowsItsEnds'
    BY <1>2, <1>3 DEF Inv, SwitchKnowsItsEnds, Workers
  <1>6. MessagesKnown' /\ RefreshFlagged'
    BY <1>1 DEF Inv, MessagesKnown, RefreshFlagged, app
  <1>7. BuildsForThePin'
    BY <1>1, <1>2, <1>3 DEF Inv, BuildsForThePin, ResetToCome, Workers, app
  <1>. QED
    BY <1>4, <1>5, <1>6, <1>7 DEF Inv

-----------------------------------------------------------------------------
(***************************************************************************)
(* The contexts view and the drift prompt                                  *)
(***************************************************************************)

\* What happens on the screen, or in another terminal, moves nothing of the session.
LEMMA ScreenKeepsInv ==
  ASSUME Inv,
         \/ OpenContexts \/ LeaveContexts \/ ListContexts \/ ContextsLoaded
         \/ CheckContextDrift \/ HandleDrift \/ Decline \/ ShellMoves
  PROVE  Inv'
  <1>1. UNCHANGED <<pin, swarms, worker, app>>
    BY DEF OpenContexts, LeaveContexts, ListContexts, ContextsLoaded,
           CheckContextDrift, HandleDrift, Decline, ShellMoves
  <1>2. TypeOK'
    <2>1. shell' \in Contexts
      BY DEF OpenContexts, LeaveContexts, ListContexts, ContextsLoaded,
             CheckContextDrift, HandleDrift, Decline, ShellMoves, Inv, TypeOK
    <2>2. inContexts' \in BOOLEAN /\ pendingSwitch' \in BOOLEAN
      BY DEF OpenContexts, LeaveContexts, ListContexts, ContextsLoaded, CloseContexts, ui,
             CheckContextDrift, HandleDrift, Decline, ShellMoves, Inv, TypeOK
    <2>3. listed' \in Contexts \cup {None} /\ listing' \in Contexts \cup {None}
      BY DEF OpenContexts, LeaveContexts, ListContexts, ContextsLoaded, CloseContexts, ui,
             CheckContextDrift, HandleDrift, Decline, ShellMoves, Inv, TypeOK
    <2>4. check' \in Contexts \cup {"none", "agrees", "inconclusive"}
      BY DEF OpenContexts, LeaveContexts, ListContexts, ContextsLoaded, drift,
             CheckContextDrift, HandleDrift, Decline, ShellMoves, Inv, TypeOK
    <2>5. prompt' \in Contexts \cup {None} /\ declined' \in Contexts \cup {None}
      BY DEF OpenContexts, LeaveContexts, ListContexts, ContextsLoaded, drift,
             CheckContextDrift, HandleDrift, Decline, ShellMoves, Inv, TypeOK
    <2>6. fails' \in 0..MaxFails
      BY FailsInBound DEF OpenContexts, LeaveContexts, ListContexts, ContextsLoaded,
             CheckContextDrift, HandleDrift, Decline, ShellMoves, Inv, TypeOK
    <2>7. ops' \in 0..MaxOps
      <3>1. ops \in 0..MaxOps /\ MaxOps \in Nat
        BY SessionAssumption, Zenon DEF Inv, TypeOK
      <3>2. ops' = ops \/ (ops < MaxOps /\ ops' = ops + 1)
        BY DEF OpenContexts, LeaveContexts, ListContexts, ContextsLoaded,
               CheckContextDrift, HandleDrift, Decline, ShellMoves
      <3>. QED
        BY <3>1, <3>2
    <2>. QED
      BY <1>1, <2>1, <2>2, <2>3, <2>4, <2>5, <2>6, <2>7 DEF Inv, TypeOK, swarms, app
  <1>3. SwitchKnowsItsEnds' /\ MessagesKnown' /\ RefreshFlagged'
    BY <1>1 DEF Inv, SwitchKnowsItsEnds, MessagesKnown, RefreshFlagged, app, swarms
  <1>4. BuildsForThePin'
    BY <1>1 DEF Inv, BuildsForThePin, ResetToCome, app, swarms
  <1>. QED
    BY <1>2, <1>3, <1>4 DEF Inv

\* A switch begins, or a command that is over is heard.
LEMMA HeardKeepsInv ==
  ASSUME Inv, NEW w \in Workers,
         \/ \E to \in Contexts : SelectContext(w, to)
         \/ ContextSwitched(w) \/ SnapshotLoaded(w) \/ SnapshotFailed(w)
  PROVE  Inv'
  <1>0. "free" \in Steps /\ "begin" \in Steps
    BY DEF Steps
  <1>1. /\ w \in Switches \/ w \in Loads
        /\ worker[w].step \in {"free", "ok", "failed"} /\ handler = "idle"
        /\ UNCHANGED <<pin, swarms>>
    <2>1. CASE \E to \in Contexts : SelectContext(w, to)
      <3>1. worker[w] = Free /\ Free.step = "free"
        BY <2>1 DEF SelectContext, Free
      <3>. QED
        BY <2>1, <3>1 DEF SelectContext
    <2>2. CASE ContextSwitched(w)
      BY <2>2 DEF ContextSwitched
    <2>3. CASE SnapshotLoaded(w) \/ SnapshotFailed(w)
      BY <2>3 DEF SnapshotLoaded, SnapshotFailed
    <2>. QED
      BY <2>1, <2>2, <2>3
  <1>2. /\ worker' \in [Workers -> WorkerStep]
        /\ \A v \in Workers \ {w} : worker'[v] = worker[v]
        /\ \/ worker'[w].step = "free"
           \/ worker'[w].step = "begin" /\ worker'[w].to \in Contexts
    <2>1. CASE worker' = [worker EXCEPT ![w] = Free]
      BY <1>0, <2>1, IsOver DEF Inv
    <2>2. CASE \E to \in Contexts : SelectContext(w, to)
      <3>1. PICK to \in Contexts :
              worker' = [worker EXCEPT ![w] = [Free EXCEPT !.step = "begin", !.to = to]]
        BY <2>2 DEF SelectContext
      <3>. QED
        BY <1>0, <3>1 DEF Inv, TypeOK, Free, WorkerStep
    <2>. QED
      BY <2>1, <2>2 DEF ContextSwitched, SnapshotLoaded, SnapshotFailed
  <1>3. /\ \/ revertTo' = revertTo
           \/ revertTo' = NoRevert
        /\ \/ handler' = "idle"
           \/ handler' = "revert" /\ revertTo' = revertTo /\ revertTo # NoRevert
        /\ notice' = notice \/ notice' = <<listed>>
    BY <1>1 DEF SelectContext, ContextSwitched, SnapshotLoaded, SnapshotFailed, app
  <1>4. TypeOK'
    <2>1. shell' \in Contexts
      BY DEF SelectContext, ContextSwitched, SnapshotLoaded, SnapshotFailed, Inv, TypeOK
    <2>2. /\ inContexts' \in BOOLEAN /\ pendingSwitch' \in BOOLEAN
          /\ listed' \in Contexts \cup {None} /\ listing' \in Contexts \cup {None}
      BY DEF SelectContext, ContextSwitched, SnapshotLoaded, SnapshotFailed, CloseContexts, ui,
             Inv, TypeOK
    <2>3. /\ check' \in Contexts \cup {"none", "agrees", "inconclusive"}
          /\ prompt' \in Contexts \cup {None} /\ declined' \in Contexts \cup {None}
      BY DEF SelectContext, ContextSwitched, SnapshotLoaded, SnapshotFailed, drift, Inv, TypeOK
    <2>4. fails' \in 0..MaxFails
      BY DEF SelectContext, ContextSwitched, SnapshotLoaded, SnapshotFailed, Inv, TypeOK
    <2>5. ops' \in 0..MaxOps
      <3>1. ops \in 0..MaxOps /\ MaxOps \in Nat
        BY SessionAssumption, Zenon DEF Inv, TypeOK
      <3>2. ops' = ops \/ (ops < MaxOps /\ ops' = ops + 1)
        BY DEF SelectContext, ContextSwitched, SnapshotLoaded, SnapshotFailed
      <3>. QED
        BY <3>1, <3>2
    <2>6. \A v \in Workers : builder' = v <=> worker'[v].step = "build"
      BY <1>1, <1>2 DEF Inv, TypeOK, swarms
    <2>7. /\ revertTo' \in {NoRevert} \cup [ctx : Contexts, writes : BOOLEAN]
          /\ handler' \in {"idle", "revert"} /\ Len(notice') \in 0..1
      BY <1>3 DEF Inv, TypeOK
    <2>. QED
      BY <1>1, <1>2, <2>1, <2>2, <2>3, <2>4, <2>5, <2>6, <2>7 DEF Inv, TypeOK, WorkerStep, swarms
  <1>5. SwitchKnowsItsEnds'
    BY <1>2 DEF Inv, SwitchKnowsItsEnds, Workers
  <1>6. MessagesKnown'
    BY <1>3 DEF Inv, TypeOK, MessagesKnown
  <1>7. RefreshFlagged'
    BY <1>1, <1>2, SessionAssumption DEF Inv, RefreshFlagged, Workers, swarms
  <1>8. BuildsForThePin'
    BY <1>1, <1>2 DEF Inv, BuildsForThePin, ResetToCome, Workers, swarms
  <1>. QED
    BY <1>4, <1>5, <1>6, <1>7, <1>8 DEF Inv

-----------------------------------------------------------------------------
(***************************************************************************)
(* The update loop                                                         *)
(***************************************************************************)

\* A move of the pin by the update loop, or a switch that is announced: the client is
\* about to be dropped.
LEMMA MoveKeepsInv ==
  ASSUME Inv, ContextChanged \/ Accept \/ RevertPin
  PROVE  Inv'
  <1>1. /\ UNCHANGED <<shell, swarms, worker, ui, check, ops, fails>>
        /\ handler' \in {"enter", "reverted"}
    BY DEF ContextChanged, Accept, RevertPin, EnterContext, drift
  <1>2. revertTo' \in {NoRevert} \cup [ctx : Contexts, writes : BOOLEAN]
    <2>1. CASE RevertPin
      BY <2>1 DEF RevertPin, Inv, TypeOK
    <2>2. CASE Accept
      <3>1. pin \in Contexts
        BY DEF Inv, TypeOK
      <3>. QED
        BY <2>2, <3>1 DEF Accept, EnterContext
    <2>3. CASE ContextChanged
      <3>1. PICK x \in Contexts \cup {None} : notice = <<x>>
        BY <2>3 DEF ContextChanged, Inv, MessagesKnown
      <3>2. revertTo' = IF x = None THEN NoRevert ELSE [ctx |-> x, writes |-> TRUE]
        BY <2>3, <3>1 DEF ContextChanged, EnterContext
      <3>. QED
        BY <3>2
    <2>. QED
      BY <2>1, <2>2, <2>3
  <1>3. pin' \in Contexts
    <2>1. CASE RevertPin
      BY <2>1 DEF RevertPin, Inv, MessagesKnown
    <2>2. CASE Accept
      BY <2>2 DEF Accept, Inv, TypeOK
    <2>3. CASE ContextChanged
      BY <2>3 DEF ContextChanged, Inv, TypeOK
    <2>. QED
      BY <2>1, <2>2, <2>3
  <1>4. notice' = <<>> \/ notice' = notice
    BY DEF ContextChanged, Accept, RevertPin
  <1>5. prompt' \in Contexts \cup {None} /\ declined' \in Contexts \cup {None}
    BY DEF ContextChanged, Accept, RevertPin, drift, Inv, TypeOK
  <1>6. TypeOK'
    <2>1. Len(notice') \in 0..1
      BY <1>4 DEF Inv, TypeOK
    <2>. QED
      BY <1>1, <1>2, <1>3, <1>5, <2>1 DEF Inv, TypeOK, swarms, ui
  <1>7. SwitchKnowsItsEnds' /\ MessagesKnown' /\ RefreshFlagged'
    BY <1>1, <1>4 DEF Inv, SwitchKnowsItsEnds, MessagesKnown, RefreshFlagged, swarms
  <1>8. BuildsForThePin'
    BY <1>1 DEF BuildsForThePin, ResetToCome
  <1>. QED
    BY <1>6, <1>7, <1>8 DEF Inv

\* The update loop drops the client, and a load may begin.
LEMMA HandledKeepsInv ==
  ASSUME Inv, Entered \/ Reverted
  PROVE  Inv'
  <1>1. /\ builder = None /\ builder' = None /\ client' = None /\ handler' = "idle"
        /\ snapshot' \in Contexts \cup {None} /\ revertTo' \in {revertTo, NoRevert}
        /\ UNCHANGED <<shell, pin, refreshing, notice, listing, drift, ops, fails>>
    BY DEF Entered, Reverted, ResetClient, ui, Inv, TypeOK
  <1>2. \/ worker' = worker
        \/ /\ worker' \in [Workers -> WorkerStep]
           /\ \E w \in Loads : /\ \A v \in Workers \ {w} : worker'[v] = worker[v]
                               /\ worker'[w].step = "get"
    <2>1. CASE Entered
      <3>1. PICK w \in Loads : Goes(w, "get")
        BY <2>1 DEF Entered
      <3>2. w \in Workers /\ "get" \in Steps
        BY DEF Workers, Steps
      <3>. QED
        BY <3>1, <3>2, GoesOn DEF Inv
    <2>2. CASE Reverted
      BY <2>2 DEF Reverted
    <2>. QED
      BY <2>1, <2>2
  <1>3. /\ inContexts' \in BOOLEAN /\ pendingSwitch' \in BOOLEAN /\ listed' \in Contexts \cup {None}
    BY DEF Entered, Reverted, CloseContexts, ui, Inv, TypeOK
  <1>4. \A v \in Workers : worker[v].step # "build" /\ worker'[v].step # "build"
    <2>1. \A v \in Workers : worker[v].step # "build"
      BY <1>1, SessionAssumption DEF Inv, TypeOK, Workers
    <2>. QED
      BY <1>2, <2>1 DEF Workers
  <1>5. worker' \in [Workers -> WorkerStep]
    BY <1>2 DEF Inv, TypeOK, WorkerStep
  <1>6. TypeOK'
    <2>1. None \notin Workers
      BY SessionAssumption DEF Workers
    <2>. QED
      BY <1>1, <1>3, <1>4, <1>5, <2>1 DEF Inv, TypeOK, WorkerStep, drift
  <1>7. SwitchKnowsItsEnds'
    BY <1>2, SessionAssumption DEF Inv, SwitchKnowsItsEnds, Workers
  <1>8. MessagesKnown'
    BY <1>1 DEF Inv, MessagesKnown
  <1>9. RefreshFlagged'
    BY <1>1, <1>2, SessionAssumption DEF Inv, RefreshFlagged, Workers
  <1>10. BuildsForThePin'
    BY <1>1, <1>4 DEF BuildsForThePin
  <1>. QED
    BY <1>6, <1>7, <1>8, <1>9, <1>10 DEF Inv

-----------------------------------------------------------------------------
\* Inv is inductive, and so holds of every state of Session.
THEOREM Invariance == Spec => []Inv
  <1>1. Inv /\ [Next]_vars => Inv'
    <2>. SUFFICES ASSUME Inv, [Next]_vars  PROVE  Inv'
      OBVIOUS
    <2>1. ASSUME NEW w \in Workers, Work(w)  PROVE  Inv'
      <3>1. CASE GetClient(w)
        BY <3>1, GetClientKeepsInv
      <3>2. CASE ClientBuilt(w)
        BY <3>2, ClientBuiltKeepsInv
      <3>3. CASE Fetched(w) \/ FetchFails(w)
        BY <3>3, FetchOverKeepsInv
      <3>4. CASE ReadCurrent(w) \/ UseContext(w) \/ Probed(w) \/ ProbeFails(w)
        BY <3>4, ValidateKeepsInv
      <3>5. CASE SetContext(w)
        BY <3>5, SetContextKeepsInv
      <3>6. CASE DropClient(w)
        BY <3>6, DropClientKeepsInv
      <3>. QED
        BY <2>1, <3>1, <3>2, <3>3, <3>4, <3>5, <3>6 DEF Work
    <2>2. ASSUME NEW w \in Workers, Handle(w)  PROVE  Inv'
      BY <2>2, HeardKeepsInv DEF Handle
    <2>3. CASE Handler
      BY <2>3, MoveKeepsInv, HandledKeepsInv DEF Handler
    <2>4. CASE Operator
      <3>1. ASSUME NEW w \in Switches, NEW to \in Contexts, SelectContext(w, to)  PROVE  Inv'
        BY <3>1, HeardKeepsInv DEF Workers
      <3>. QED
        BY <2>4, <3>1, ScreenKeepsInv, MoveKeepsInv DEF Operator
    <2>5. CASE TriggerRefresh
      BY <2>5, TriggerRefreshKeepsInv
    <2>6. CASE ListContexts \/ ContextsLoaded \/ CheckContextDrift \/ HandleDrift
      BY <2>6, ScreenKeepsInv
    <2>7. CASE UNCHANGED vars
      <3>1. UNCHANGED <<shell, pin, client, builder, snapshot, refreshing, worker, revertTo, handler,
                        notice, inContexts, listed, listing, pendingSwitch, check, prompt, declined,
                        ops, fails>>
        BY <2>7 DEF vars, swarms, app, ui, drift
      <3>2. TypeOK'
        BY <3>1 DEF Inv, TypeOK
      <3>3. SwitchKnowsItsEnds' /\ MessagesKnown' /\ RefreshFlagged'
        BY <3>1 DEF Inv, SwitchKnowsItsEnds, MessagesKnown, RefreshFlagged
      <3>4. BuildsForThePin'
        BY <3>1 DEF Inv, BuildsForThePin, ResetToCome
      <3>. QED
        BY <3>2, <3>3, <3>4 DEF Inv
    <2>. QED
      BY <2>1, <2>2, <2>3, <2>4, <2>5, <2>6, <2>7 DEF Next
  <1>. QED
    BY InitInv, <1>1, PTL DEF Spec

\* Every variable of a session keeps its type; in particular clientMu is held exactly
\* while somebody builds a client, so no way out of a fetch leaves it locked.
THEOREM TypeCorrect == Spec => []TypeOK
  <1>1. Inv => TypeOK
    BY DEF Inv
  <1>. QED
    BY <1>1, Invariance, PTL

\* The pin and the cached client move together: however many switches, loads and
\* refreshes run at once, a client of another context is one that somebody will yet drop.
THEOREM ClientFollowsThePin == Spec => []ClientIsThePins
  <1>1. Inv => ClientIsThePins
    BY DEF Inv, BuildsForThePin, ClientIsThePins
  <1>. QED
    BY <1>1, Invariance, PTL

-----------------------------------------------------------------------------
(***************************************************************************)
(* The drift prompt                                                        *)
(***************************************************************************)

\* As long as nothing has moved since a context was offered, the shell names it, and it
\* is still offered, has been declined, or is what the session is in.
OfferedStands ==
  asked # None =>
    /\ shell = asked /\ prompt \in {None, asked}
    /\ IF pin = asked THEN check \in {"none", "agrees", "inconclusive"}
       ELSE /\ check \in {"none", "inconclusive", asked}
            /\ prompt = asked \/ declined = asked \/ handler = "revert"

\* The offer's standing is kept by whatever touches neither the offer nor what it is about.
LEMMA OfferUntouched ==
  ASSUME OfferedStands, UNCHANGED <<shell, pin, check, prompt, declined, asked>>,
         handler = "revert" => handler' = "revert" \/ asked' = None
  PROVE  OfferedStands'
  BY DEF OfferedStands

LEMMA HandleDriftOffersAnew ==
  ASSUME Inv, OfferedStands, HandleDrift
  PROVE  OfferedStands' /\ (prompt = None /\ prompt' # None => prompt' # asked)
  <1>1. /\ handler = "idle" /\ check # "none" /\ check' = "none" /\ UNCHANGED <<shell, pin, handler>>
    BY DEF HandleDrift, app
  <1>2. CASE check = "inconclusive"
    <2>1. UNCHANGED <<declined, prompt, asked>>
      BY <1>2, SessionAssumption DEF HandleDrift
    <2>. QED
      BY <1>1, <2>1 DEF OfferedStands
  <1>3. CASE check = "agrees"
    <2>1. declined' = None /\ prompt' = prompt /\ asked' = asked
      BY <1>3, SessionAssumption DEF HandleDrift
    <2>2. asked # None => pin = asked
      <3>1. asked # None => asked \notin {"agrees"}
        BY SessionAssumption DEF OfferedStands, Inv, TypeOK
      <3>. QED
        BY <1>3, <3>1 DEF OfferedStands
    <2>. QED
      BY <1>1, <2>1, <2>2 DEF OfferedStands
  <1>4. CASE check \in Contexts
    <2>1. check \notin {None, "none", "agrees", "inconclusive"}
      BY <1>4, SessionAssumption
    <2>2. /\ declined' = declined
          /\ \/ /\ check = declined \/ prompt # None
                /\ prompt' = prompt /\ asked' = asked
             \/ /\ check # declined /\ prompt = None /\ prompt' = check
                /\ asked' = IF shell = check THEN check ELSE None
      BY <1>4, <2>1 DEF HandleDrift
    <2>3. asked # None /\ pin = asked => check \notin Contexts
      BY <2>1 DEF OfferedStands
    <2>4. CASE prompt' = prompt /\ asked' = asked
      BY <1>1, <2>2, <2>4 DEF OfferedStands
    <2>5. CASE /\ check # declined /\ prompt = None /\ prompt' = check
               /\ asked' = IF shell = check THEN check ELSE None
      <3>1. OfferedStands'
        BY <1>1, <2>5 DEF OfferedStands
      <3>2. check # asked
        BY <1>1, <1>4, <2>1, <2>3, <2>5 DEF OfferedStands
      <3>. QED
        BY <2>5, <3>1, <3>2
    <2>. QED
      BY <2>2, <2>4, <2>5
  <1>. QED
    BY <1>1, <1>2, <1>3, <1>4 DEF Inv, TypeOK

\* Between two moves of the session or the shell an operator is asked once per context:
\* neither a check that learned nothing nor a load that fails has the prompt back.
THEOREM AskedOncePerTarget == Spec => AskedOnce
  <1>1. Init => OfferedStands
    BY DEF Init, OfferedStands
  <1>2. Inv /\ OfferedStands /\ [Next]_vars
          => OfferedStands' /\ [prompt = None /\ prompt' # None => prompt' # asked]_vars
    <2>. SUFFICES ASSUME Inv, OfferedStands, [Next]_vars
                  PROVE  /\ OfferedStands'
                         /\ prompt = None /\ prompt' # None => prompt' # asked
      OBVIOUS
    <2>1. CASE HandleDrift
      BY <2>1, HandleDriftOffersAnew
    <2>2. CASE CheckContextDrift
      <3>1. /\ check = "none" /\ UNCHANGED <<shell, pin, prompt, declined, asked, handler>>
            /\ check' = (IF shell = pin THEN "agrees" ELSE shell) \/ check' = "inconclusive"
        BY <2>2 DEF CheckContextDrift, app
      <3>. QED
        BY <3>1 DEF OfferedStands
    <2>3. CASE Decline
      <3>1. /\ handler = "idle" /\ declined' = prompt /\ prompt' = None
            /\ UNCHANGED <<shell, pin, check, asked, handler>>
        BY <2>3 DEF Decline, app
      <3>2. CASE prompt = asked
        BY <3>1, <3>2 DEF OfferedStands
      <3>3. CASE prompt # asked
        <4>1. prompt # None /\ asked = None
          BY <2>3, <3>3 DEF Decline, OfferedStands
        <4>. QED
          BY <3>1, <4>1 DEF OfferedStands
      <3>. QED
        BY <3>2, <3>3
    <2>4. CASE Accept \/ RevertPin \/ ShellMoves
      <3>1. asked' = None /\ (prompt' = None \/ prompt' = prompt)
        BY <2>4 DEF Accept, RevertPin, ShellMoves, Moved, drift
      <3>. QED
        BY <3>1 DEF OfferedStands
    <2>5. ASSUME NEW w \in Workers, SnapshotFailed(w)
          PROVE  OfferedStands' /\ prompt' = prompt
      <3>1. /\ handler = "idle" /\ UNCHANGED <<pin, check, prompt>>
            /\ \/ UNCHANGED <<shell, declined, asked>>
               \/ asked' = None
               \/ handler' = "revert" /\ UNCHANGED <<shell, asked>>
        BY <2>5 DEF SnapshotFailed, Moved
      <3>. QED
        BY <3>1 DEF OfferedStands
    <2>6. ASSUME NEW w \in Workers, UseContext(w) \/ SetContext(w)
          PROVE  OfferedStands' /\ prompt' = prompt
      <3>1. \/ asked' = None /\ prompt' = prompt
            \/ UNCHANGED <<shell, pin, handler, check, prompt, declined, asked>>
        BY <2>6 DEF UseContext, SetContext, Moved, drift, app
      <3>. QED
        BY <3>1 DEF OfferedStands
    <2>7. ASSUME NEW w \in Workers,
                 \/ GetClient(w) \/ ClientBuilt(w) \/ Fetched(w) \/ FetchFails(w)
                 \/ ReadCurrent(w) \/ DropClient(w) \/ Probed(w) \/ ProbeFails(w)
                 \/ ContextSwitched(w) \/ SnapshotLoaded(w)
                 \/ \E to \in Contexts : SelectContext(w, to)
          PROVE  UNCHANGED <<shell, pin, handler, check, prompt, declined, asked>>
      BY <2>7 DEF GetClient, ClientBuilt, Fetched, FetchFails, ReadCurrent, DropClient, Probed,
         ProbeFails, ContextSwitched, SnapshotLoaded, SelectContext, drift, app
    <2>8. CASE OpenContexts \/ LeaveContexts \/ ListContexts \/ ContextsLoaded \/ TriggerRefresh
               \/ UNCHANGED vars
      <3>1. UNCHANGED <<shell, pin, handler, check, prompt, declined, asked>>
        BY <2>8 DEF OpenContexts, LeaveContexts, ListContexts, ContextsLoaded, TriggerRefresh,
           vars, drift, app
      <3>. QED
        BY <3>1, OfferUntouched
    <2>9. CASE ContextChanged \/ Entered \/ Reverted
      <3>1. handler # "revert" /\ UNCHANGED <<shell, pin, check, prompt, declined, asked>>
        BY <2>9 DEF ContextChanged, Entered, Reverted, drift
      <3>. QED
        BY <3>1, OfferUntouched
    <2>10. ASSUME NEW w \in Workers, Work(w) \/ Handle(w)
           PROVE  OfferedStands' /\ prompt' = prompt
      <3>1. CASE SnapshotFailed(w) \/ UseContext(w) \/ SetContext(w)
        BY <2>5, <2>6, <3>1
      <3>2. CASE ~ (SnapshotFailed(w) \/ UseContext(w) \/ SetContext(w))
        <4>1. UNCHANGED <<shell, pin, handler, check, prompt, declined, asked>>
          BY <2>7, <2>10, <3>2 DEF Work, Handle
        <4>. QED
          BY <4>1, OfferUntouched
      <3>. QED
        BY <3>1, <3>2
    <2>11. ASSUME NEW w \in Switches, NEW to \in Contexts, SelectContext(w, to)
           PROVE  OfferedStands' /\ prompt' = prompt
      <3>1. UNCHANGED <<shell, pin, handler, check, prompt, declined, asked>>
        BY <2>7, <2>11 DEF Workers
      <3>. QED
        BY <3>1, OfferUntouched
    <2>. QED
      BY <2>1, <2>2, <2>3, <2>4, <2>8, <2>9, <2>10, <2>11 DEF Next, Handler, Operator
  <1>. QED
    BY <1>1, <1>2, Invariance, PTL DEF Spec, AskedOnce
=============================================================================
