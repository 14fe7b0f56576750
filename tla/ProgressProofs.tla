--------------------------- MODULE ProgressProofs ---------------------------
(***************************************************************************)
(* What holds of the header and of the log view, for any number of         *)
(* contexts and switches, and of lines and keys.                           *)
(***************************************************************************)
EXTENDS MCProgress, FiniteSetTheorems, SequenceTheorems, TLAPS

-----------------------------------------------------------------------------
(***************************************************************************)
(* The header                                                              *)
(***************************************************************************)
NoContext == Header!None
Rounds == [gen : Nat, of : Seq(Contexts)]
Loads == [name : Contexts \cup {NoContext}, of : Contexts \cup {NoContext}]

ContextKnown ==
  /\ pin \in Contexts /\ from \in Contexts \cup {NoContext} /\ loading \in Contexts \cup {NoContext}
  /\ next \in {"idle", "validating", "switched"} /\ (next # "idle" => from \in Contexts)

\* A switch advances the generation when it is entered, and again when the load that
\* follows fails and it is taken back.
Ahead ==
  (IF next = "idle" THEN 0 ELSE 2) + (IF loading = NoContext THEN 0 ELSE 1)

SwitchesBounded ==
  /\ generation \in Nat /\ switches \in Nat
  /\ switches <= MaxSwitches /\ generation + Ahead <= 2 * switches

\* The one chain: a round of the generation was measured in contexts pinned since the reset.
RoundsKnown ==
  /\ rounds \in Seq(Rounds) /\ ticks \in Nat /\ Len(rounds) + ticks = 1
  /\ \A i \in DOMAIN rounds :
       /\ rounds[i].gen <= generation
       /\ rounds[i].gen = generation => Header!Range(rounds[i].of) \subseteq since
  /\ pin \in since

UsageKnown ==
  /\ usage \in SUBSET Contexts /\ trendOf \in SUBSET Contexts
  /\ usage \cup trendOf \subseteq since

\* Beyond the loads that ticks begin there is one for each switch that was entered.
LoadsKnown ==
  /\ statuses \in SUBSET Loads /\ IsFiniteSet(statuses)
  /\ \A s \in statuses : s.of # NoContext => s.name \in Contexts
  /\ Cardinality(statuses) + (IF next = "idle" THEN 0 ELSE 1) <= MaxStatuses + switches
  /\ appTicks = 1 /\ name \in Contexts /\ counts \in Contexts \cup {NoContext}

HeaderInv == ContextKnown /\ SwitchesBounded /\ RoundsKnown /\ UsageKnown /\ LoadsKnown

\* The header counts its loads with the cardinality of the library.
LEMMA HeaderCounts == Cardinality(statuses) = Header!Cardinality(statuses)
  BY DEF Cardinality, Header!Cardinality

LEMMA OneRound ==
  ASSUME NEW S, NEW r \in S
  PROVE  <<r>> \in Seq(S) /\ Len(<<r>>) = 1 /\ DOMAIN <<r>> = {1} /\ <<r>>[1] = r
  OBVIOUS

LEMMA HeaderInit == Header!Init => HeaderInv
  <1>. SUFFICES ASSUME Header!Init
               PROVE  HeaderInv
    OBVIOUS
  <1>1. Header!Round(0) \in Rounds /\ Header!Round(0).gen = 0 /\ Header!Round(0).of = <<>>
    BY DEF Header!Round, Rounds
  <1>2. ContextKnown /\ SwitchesBounded
    BY HeaderAssumption DEF Header!Init, ContextKnown, SwitchesBounded, NoContext, Ahead
  <1>3. RoundsKnown
    <2>1. Header!Range(<<>>) = {}
      BY DEF Header!Range
    <2>2. rounds \in Seq(Rounds) /\ Len(rounds) = 1 /\ DOMAIN rounds = {1} /\ rounds[1] = Header!Round(0)
      BY <1>1, OneRound DEF Header!Init
    <2>. QED
      BY <1>1, <2>1, <2>2 DEF Header!Init, RoundsKnown
  <1>4. UsageKnown
    BY DEF Header!Init, UsageKnown
  <1>5. LoadsKnown
    <2>1. IsFiniteSet(statuses) /\ Cardinality(statuses) = 1
      BY FS_Singleton DEF Header!Init
    <2>2. statuses \in SUBSET Loads /\ \A s \in statuses : s.of = NoContext
      BY DEF Header!Init, Header!Status, Loads, NoContext
    <2>. QED
      BY <2>1, <2>2, HeaderAssumption DEF Header!Init, LoadsKnown, NoContext
  <1>. QED
    BY <1>2, <1>3, <1>4, <1>5 DEF HeaderInv

\* A reset keeps the rounds under way, which are of an earlier generation from then on.
LEMMA ResetForgetsRounds ==
  ASSUME HeaderInv, pin' \in Contexts, Header!ResetResourceUsage
  PROVE  RoundsKnown' /\ UsageKnown'
  <1>1. /\ generation' = generation + 1 /\ usage' = {} /\ trendOf' = {} /\ since' = {pin'}
        /\ rounds' = rounds /\ ticks' = ticks
    BY DEF Header!ResetResourceUsage
  <1>2. ASSUME NEW i \in DOMAIN rounds  PROVE  rounds[i].gen <= generation' /\ rounds[i].gen # generation'
    <2>1. rounds[i].gen \in Nat /\ rounds[i].gen <= generation /\ generation \in Nat
      <3>1. rounds[i] \in Rounds
        BY DEF HeaderInv, RoundsKnown
      <3>. QED
        BY <3>1 DEF HeaderInv, RoundsKnown, SwitchesBounded, Rounds
    <2>. QED
      BY <1>1, <2>1
  <1>3. RoundsKnown'
    BY <1>1, <1>2 DEF HeaderInv, RoundsKnown
  <1>. QED
    BY <1>1, <1>3 DEF UsageKnown

\* More contexts may have been pinned since the reset, and nothing measured is touched.
LEMMA PinnedMore ==
  ASSUME HeaderInv, UNCHANGED <<generation, rounds, ticks, usage, trendOf>>,
         since \subseteq since', pin' \in since'
  PROVE  RoundsKnown' /\ UsageKnown'
  <1>1. RoundsKnown'
    BY DEF HeaderInv, RoundsKnown
  <1>2. UsageKnown'
    BY DEF HeaderInv, UsageKnown
  <1>. QED
    BY <1>1, <1>2

LEMMA ContextMoves ==
  ASSUME HeaderInv,
         (\E c \in Contexts : Header!ValidateContext(c)) \/ Header!Validated
           \/ Header!EnterContext \/ Header!SnapshotLoaded
  PROVE  ContextKnown' /\ SwitchesBounded'
  <1>. USE DEF Header!ValidateContext, Header!Validated, Header!EnterContext, Header!SnapshotLoaded,
               Header!ResetResourceUsage, Header!measured, NoContext
  <1>1. ContextKnown'
    BY DEF HeaderInv, ContextKnown
  <1>2. SwitchesBounded'
    <2>. SUFFICES ASSUME ContextKnown, SwitchesBounded
                  PROVE  SwitchesBounded'
      BY DEF HeaderInv
    <2>1. ASSUME NEW c \in Contexts, Header!ValidateContext(c)  PROVE  SwitchesBounded'
      BY <2>1, HeaderAssumption DEF SwitchesBounded, Ahead
    <2>2. CASE Header!Validated
      BY <2>2, HeaderAssumption DEF SwitchesBounded, Ahead, Header!counted
    <2>3. CASE Header!EnterContext
      BY <2>3, HeaderAssumption DEF SwitchesBounded, Ahead
    <2>4. CASE Header!SnapshotLoaded
      BY <2>4, HeaderAssumption DEF SwitchesBounded, Ahead
    <2>. QED
      BY <2>1, <2>2, <2>3, <2>4
  <1>. QED
    BY <1>1, <1>2

LEMMA MovesKeepMeasured ==
  ASSUME HeaderInv,
         (\E c \in Contexts : Header!ValidateContext(c)) \/ Header!Validated
           \/ Header!EnterContext \/ Header!SnapshotLoaded
  PROVE  RoundsKnown' /\ UsageKnown'
  <1>1. ASSUME NEW c \in Contexts, Header!ValidateContext(c)  PROVE  RoundsKnown' /\ UsageKnown'
    BY <1>1, PinnedMore DEF Header!ValidateContext, Header!measured
  <1>2. CASE Header!Validated
    BY <1>2, PinnedMore DEF Header!Validated, Header!measured
  <1>3. CASE Header!EnterContext
    BY <1>3, ResetForgetsRounds DEF Header!EnterContext, HeaderInv, ContextKnown
  <1>4. CASE Header!SnapshotLoaded
    <2>1. CASE UNCHANGED <<pin, Header!measured, since>>
      BY <2>1, PinnedMore DEF Header!measured, HeaderInv, RoundsKnown
    <2>2. CASE pin' = loading /\ Header!ResetResourceUsage
      BY <1>4, <2>2, ResetForgetsRounds DEF Header!SnapshotLoaded, HeaderInv, ContextKnown, NoContext
    <2>. QED
      BY <1>4, <2>1, <2>2 DEF Header!SnapshotLoaded
  <1>. QED
    BY <1>1, <1>2, <1>3, <1>4

LEMMA MovesKeepLoads ==
  ASSUME HeaderInv,
         (\E c \in Contexts : Header!ValidateContext(c)) \/ Header!Validated
           \/ Header!EnterContext \/ Header!SnapshotLoaded
  PROVE  LoadsKnown'
  <1>. SUFFICES ASSUME LoadsKnown, SwitchesBounded
               PROVE  LoadsKnown'
    BY DEF HeaderInv
  <1>0. Cardinality(statuses) \in Nat
    BY FS_CardinalityType DEF LoadsKnown
  <1>1. ASSUME NEW c \in Contexts, Header!ValidateContext(c)  PROVE  LoadsKnown'
    BY <1>0, <1>1, HeaderAssumption DEF Header!ValidateContext, Header!counted, LoadsKnown, SwitchesBounded
  <1>2. CASE Header!Validated
    BY <1>0, <1>2, HeaderAssumption DEF Header!Validated, Header!counted, LoadsKnown, SwitchesBounded
  <1>3. CASE Header!EnterContext
    <2>1. /\ statuses' = statuses \cup {Header!Status}
          /\ UNCHANGED <<appTicks, name, counts, switches>>
          /\ next = "switched" /\ next' = "idle"
      BY <1>3 DEF Header!EnterContext
    <2>2. Header!Status \in Loads /\ Header!Status.of = NoContext
      BY DEF Header!Status, Loads, NoContext
    <2>3. IsFiniteSet(statuses') /\ Cardinality(statuses') <= Cardinality(statuses) + 1
      <3>1. IsFiniteSet(statuses)
        BY DEF LoadsKnown
      <3>2. /\ IsFiniteSet(statuses \cup {Header!Status})
            /\ Cardinality(statuses \cup {Header!Status})
                 = IF Header!Status \in statuses THEN Cardinality(statuses) ELSE Cardinality(statuses) + 1
        BY <3>1, FS_AddElement
      <3>. QED
        BY <1>0, <2>1, <3>2
    <2>4. Cardinality(statuses') \in Nat
      BY <2>3, FS_CardinalityType
    <2>5. Cardinality(statuses') + (IF next' = "idle" THEN 0 ELSE 1) <= MaxStatuses + switches'
      BY <1>0, <2>1, <2>3, <2>4, HeaderAssumption DEF LoadsKnown, SwitchesBounded
    <2>. QED
      BY <2>1, <2>2, <2>3, <2>5 DEF LoadsKnown
  <1>4. CASE Header!SnapshotLoaded
    BY <1>4 DEF Header!SnapshotLoaded, Header!counted, LoadsKnown
  <1>. QED
    BY <1>1, <1>2, <1>3, <1>4

\* Measuring takes the pinned context into the round.
LEMMA MeasureKeeps ==
  ASSUME HeaderInv, Header!Measure
  PROVE  RoundsKnown' /\ UsageKnown'
  <1>1. PICK i \in DOMAIN rounds : rounds' = [rounds EXCEPT ![i].of = Append(@, pin)]
    BY DEF Header!Measure
  <1>2. UNCHANGED <<generation, ticks, usage, trendOf, since, pin>>
    BY DEF Header!Measure, Header!switch
  <1>3. UsageKnown'
    BY <1>2 DEF HeaderInv, UsageKnown
  <1>4. rounds \in Seq(Rounds) /\ pin \in Contexts
    BY DEF HeaderInv, RoundsKnown, ContextKnown
  <1>5. PICK r \in Rounds : rounds[i] = r
    BY <1>4
  <1>6. PICK o \in Seq(Contexts) : o = Append(r.of, pin) /\ Header!Range(o) \subseteq Header!Range(r.of) \cup {pin}
    <2>1. r.of \in Seq(Contexts)
      BY DEF Rounds
    <2>2. Append(r.of, pin) \in Seq(Contexts)
      BY <1>4, <2>1
    <2>3. Header!Range(Append(r.of, pin)) \subseteq Header!Range(r.of) \cup {pin}
      <3>1. ASSUME NEW k \in DOMAIN Append(r.of, pin)
            PROVE  Append(r.of, pin)[k] \in Header!Range(r.of) \cup {pin}
        <4>1. CASE k \in DOMAIN r.of
          BY <2>1, <4>1 DEF Header!Range
        <4>2. CASE k \notin DOMAIN r.of
          BY <2>1, <4>2
        <4>. QED
          BY <4>1, <4>2
      <3>. QED
        BY <3>1 DEF Header!Range
    <2>. QED
      BY <2>2, <2>3
  <1>7. PICK q \in Rounds : q = [r EXCEPT !.of = o] /\ q.of = o /\ q.gen = r.gen
    <2>1. [r EXCEPT !.of = o] \in Rounds /\ [r EXCEPT !.of = o].of = o /\ [r EXCEPT !.of = o].gen = r.gen
      BY DEF Rounds
    <2>. QED
      BY <2>1
  <1>8. rounds' = [rounds EXCEPT ![i] = q]
    BY <1>1, <1>5, <1>6, <1>7
  <1>9. /\ rounds' \in Seq(Rounds) /\ Len(rounds') = Len(rounds) /\ DOMAIN rounds' = DOMAIN rounds
        /\ \A j \in DOMAIN rounds : rounds'[j] = IF j = i THEN q ELSE rounds[j]
    BY <1>4, <1>8
  <1>10. r.gen <= generation /\ (r.gen = generation => Header!Range(r.of) \subseteq since)
    BY <1>5 DEF HeaderInv, RoundsKnown
  <1>11. q.gen <= generation /\ (q.gen = generation => Header!Range(q.of) \subseteq since)
    BY <1>6, <1>7, <1>10 DEF HeaderInv, RoundsKnown
  <1>12. RoundsKnown'
    BY <1>2, <1>9, <1>11 DEF HeaderInv, RoundsKnown
  <1>. QED
    BY <1>3, <1>12

\* A round of the generation is shown and gives way to a tick; another begins again.
LEMMA SlowStatusKeeps ==
  ASSUME HeaderInv, Header!SlowStatus
  PROVE  RoundsKnown' /\ UsageKnown'
  <1>1. PICK i \in DOMAIN rounds :
          IF rounds[i].gen # generation
          THEN rounds' = [rounds EXCEPT ![i] = Header!Round(generation)] /\ UNCHANGED <<ticks, usage, trendOf>>
          ELSE /\ usage' = Header!Range(rounds[i].of) /\ trendOf' = usage
               /\ rounds' = SubSeq(rounds, 1, i - 1) \o SubSeq(rounds, i + 1, Len(rounds))
               /\ ticks' = ticks + 1
    BY DEF Header!SlowStatus
  <1>2. UNCHANGED <<generation, since, pin>>
    BY DEF Header!SlowStatus, Header!switch
  <1>3. rounds \in Seq(Rounds) /\ ticks \in Nat /\ Len(rounds) + ticks = 1 /\ generation \in Nat
    BY DEF HeaderInv, RoundsKnown, SwitchesBounded
  <1>4. Len(rounds) = 1 /\ ticks = 0 /\ i = 1 /\ DOMAIN rounds = {1}
    <2>1. DOMAIN rounds = 1..Len(rounds) /\ Len(rounds) \in Nat
      BY <1>3
    <2>2. i \in 1..Len(rounds)
      BY <2>1
    <2>3. Len(rounds) = 1 /\ ticks = 0
      BY <1>3, <2>1, <2>2
    <2>. QED
      BY <2>1, <2>2, <2>3
  <1>5. rounds[1] \in Rounds
    BY <1>3, <1>4
  <1>6. CASE rounds[1].gen # generation
    <2>1. Header!Round(generation) \in Rounds /\ Header!Round(generation).gen = generation
          /\ Header!Round(generation).of = <<>>
      BY <1>3 DEF Header!Round, Rounds
    <2>2. /\ rounds' = [rounds EXCEPT ![1] = Header!Round(generation)]
          /\ UNCHANGED <<ticks, usage, trendOf>>
      BY <1>1, <1>4, <1>6
    <2>3. /\ rounds' \in Seq(Rounds) /\ Len(rounds') = 1 /\ DOMAIN rounds' = {1}
          /\ rounds'[1] = Header!Round(generation)
      <3>1. PICK q \in Rounds : q = Header!Round(generation)
        BY <2>1
      <3>2. rounds' = [rounds EXCEPT ![1] = q]
        BY <2>2, <3>1
      <3>3. rounds' \in Seq(Rounds) /\ Len(rounds') = Len(rounds) /\ rounds'[1] = q
        BY <1>3, <1>4, <3>2
      <3>. QED
        BY <1>4, <3>1, <3>3
    <2>4. Header!Range(<<>>) = {}
      BY DEF Header!Range
    <2>5. RoundsKnown'
      BY <1>2, <1>3, <1>4, <2>1, <2>2, <2>3, <2>4 DEF HeaderInv, RoundsKnown
    <2>6. UsageKnown'
      BY <1>2, <2>2 DEF HeaderInv, UsageKnown
    <2>. QED
      BY <2>5, <2>6
  <1>7. CASE rounds[1].gen = generation
    <2>1. /\ usage' = Header!Range(rounds[1].of) /\ trendOf' = usage
          /\ rounds' = SubSeq(rounds, 1, 0) \o SubSeq(rounds, 2, 1)
          /\ ticks' = 1
      BY <1>1, <1>4, <1>7
    <2>2. rounds' = <<>>
      <3>1. SubSeq(rounds, 1, 0) = <<>> /\ SubSeq(rounds, 2, 1) = <<>>
        BY <1>3
      <3>. QED
        BY <2>1, <3>1
    <2>3. rounds' \in Seq(Rounds) /\ Len(rounds') = 0 /\ DOMAIN rounds' = {}
      BY <2>2
    <2>4. RoundsKnown'
      BY <1>2, <2>1, <2>3 DEF HeaderInv, RoundsKnown
    <2>5. rounds[1].of \in Seq(Contexts)
      BY <1>5 DEF Rounds
    <2>6. Header!Range(rounds[1].of) \subseteq Contexts
      BY <2>5 DEF Header!Range
    <2>7. Header!Range(rounds[1].of) \subseteq since
      BY <1>4, <1>7 DEF HeaderInv, RoundsKnown
    <2>8. UsageKnown'
      BY <1>2, <2>1, <2>6, <2>7 DEF HeaderInv, UsageKnown
    <2>. QED
      BY <2>4, <2>8
  <1>. QED
    BY <1>6, <1>7

LEMMA TickKeeps ==
  ASSUME HeaderInv, Header!Tick
  PROVE  RoundsKnown' /\ UsageKnown'
  <1>1. /\ ticks > 0 /\ ticks' = ticks - 1 /\ rounds' = Append(rounds, Header!Round(generation))
        /\ UNCHANGED <<generation, usage, trendOf, since, pin>>
    BY DEF Header!Tick, Header!switch
  <1>2. rounds \in Seq(Rounds) /\ ticks \in Nat /\ Len(rounds) + ticks = 1 /\ generation \in Nat
    BY DEF HeaderInv, RoundsKnown, SwitchesBounded
  <1>3. ticks = 1 /\ Len(rounds) = 0 /\ ticks' = 0
    BY <1>1, <1>2
  <1>4. Header!Round(generation) \in Rounds /\ Header!Round(generation).gen = generation
        /\ Header!Round(generation).of = <<>>
    BY <1>2 DEF Header!Round, Rounds
  <1>5. /\ rounds' \in Seq(Rounds) /\ Len(rounds') = 1 /\ DOMAIN rounds' = {1}
        /\ rounds'[1] = Header!Round(generation)
    BY <1>1, <1>2, <1>3, <1>4
  <1>6. Header!Range(<<>>) = {}
    BY DEF Header!Range
  <1>7. RoundsKnown'
    BY <1>1, <1>2, <1>3, <1>4, <1>5, <1>6 DEF HeaderInv, RoundsKnown
  <1>8. UsageKnown'
    BY <1>1 DEF HeaderInv, UsageKnown
  <1>. QED
    BY <1>7, <1>8

\* A tick begins a load while there is room, and what a load has read it keeps.
LEMMA LoadsKeep ==
  ASSUME HeaderInv,
         Header!AppTick \/ Header!ReadStatus(FALSE) \/ Header!ReadStatus(TRUE) \/ Header!SetContent
  PROVE  LoadsKnown'
  <1>. SUFFICES ASSUME LoadsKnown, switches \in Nat, pin \in Contexts
               PROVE  LoadsKnown'
    BY DEF HeaderInv, SwitchesBounded, ContextKnown
  <1>1. IsFiniteSet(statuses) /\ Cardinality(statuses) \in Nat /\ statuses \in SUBSET Loads
    BY FS_CardinalityType DEF LoadsKnown
  <1>2. UNCHANGED <<switches, next>>
    BY DEF Header!AppTick, Header!ReadStatus, Header!SetContent, Header!switch
  <1>3. CASE Header!AppTick
    <2>1. /\ statuses' = statuses \cup {Header!Status} /\ UNCHANGED <<appTicks, name, counts>>
          /\ Cardinality(statuses) < MaxStatuses
      BY <1>3, HeaderCounts DEF Header!AppTick
    <2>2. Header!Status \in Loads /\ Header!Status.of = NoContext
      BY DEF Header!Status, Loads, NoContext
    <2>3. /\ IsFiniteSet(statuses \cup {Header!Status})
          /\ Cardinality(statuses \cup {Header!Status})
               = IF Header!Status \in statuses THEN Cardinality(statuses) ELSE Cardinality(statuses) + 1
      BY <1>1, FS_AddElement
    <2>4. CASE Header!Status \in statuses
      <3>1. statuses' = statuses
        BY <2>1, <2>4
      <3>. QED
        BY <1>2, <2>1, <3>1 DEF LoadsKnown
    <2>5. CASE Header!Status \notin statuses
      <3>1. IsFiniteSet(statuses') /\ Cardinality(statuses') <= MaxStatuses
        BY <1>1, <2>1, <2>3, <2>5, HeaderAssumption
      <3>2. Cardinality(statuses') \in Nat
        BY <3>1, FS_CardinalityType
      <3>3. next # "idle" => switches >= 1
        BY DEF HeaderInv, SwitchesBounded, Ahead
      <3>4. Cardinality(statuses') + (IF next' = "idle" THEN 0 ELSE 1) <= MaxStatuses + switches'
        BY <1>2, <3>1, <3>2, <3>3, HeaderAssumption
      <3>. QED
        BY <1>2, <2>1, <2>2, <3>1, <3>4 DEF LoadsKnown
    <2>. QED
      BY <2>4, <2>5
  <1>4. ASSUME NEW got \in BOOLEAN, Header!ReadStatus(got)  PROVE  LoadsKnown'
    <2>1. PICK s \in statuses :
            /\ (s.name # NoContext) = got /\ s.of = NoContext
            /\ statuses' = (statuses \ {s}) \cup {IF got THEN [s EXCEPT !.of = pin] ELSE [s EXCEPT !.name = pin]}
      BY <1>4 DEF Header!ReadStatus, NoContext
    <2>2. UNCHANGED <<appTicks, name, counts>>
      BY <1>4 DEF Header!ReadStatus
    <2>3. PICK t \in Loads : /\ statuses' = (statuses \ {s}) \cup {t}
                             /\ t.of # NoContext => t.name \in Contexts
      <3>1. s \in Loads
        BY <1>1
      <3>2. CASE got
        <4>1. /\ [s EXCEPT !.of = pin] \in Loads /\ [s EXCEPT !.of = pin].name = s.name
              /\ s.name # NoContext /\ s.name \in Contexts \cup {NoContext}
          BY <2>1, <3>1, <3>2 DEF Loads
        <4>. QED
          BY <2>1, <3>2, <4>1
      <3>3. CASE ~got
        <4>1. [s EXCEPT !.name = pin] \in Loads /\ [s EXCEPT !.name = pin].name = pin
          BY <3>1 DEF Loads
        <4>. QED
          BY <2>1, <3>3, <4>1
      <3>. QED
        BY <3>2, <3>3
    <2>4. IsFiniteSet(statuses \ {s}) /\ Cardinality(statuses \ {s}) = Cardinality(statuses) - 1
      BY <1>1, FS_RemoveElement
    <2>5. /\ IsFiniteSet((statuses \ {s}) \cup {t})
          /\ Cardinality((statuses \ {s}) \cup {t})
               = IF t \in statuses \ {s} THEN Cardinality(statuses \ {s}) ELSE Cardinality(statuses \ {s}) + 1
      BY <2>4, FS_AddElement
    <2>6. Cardinality(statuses') <= Cardinality(statuses) /\ Cardinality(statuses') \in Nat /\ IsFiniteSet(statuses')
      <3>1. IsFiniteSet(statuses')
        BY <2>3, <2>5
      <3>2. Cardinality(statuses') \in Nat
        BY <3>1, FS_CardinalityType
      <3>. QED
        BY <1>1, <2>3, <2>4, <2>5, <3>1, <3>2
    <2>7. Cardinality(statuses') + (IF next' = "idle" THEN 0 ELSE 1) <= MaxStatuses + switches'
      BY <1>1, <1>2, <2>6, HeaderAssumption DEF LoadsKnown
    <2>8. /\ statuses' \in SUBSET Loads
          /\ \A u \in statuses' : u.of # NoContext => u.name \in Contexts
      BY <1>1, <2>3 DEF LoadsKnown
    <2>. QED
      BY <2>2, <2>6, <2>7, <2>8 DEF LoadsKnown
  <1>5. CASE Header!SetContent
    <2>1. PICK s \in statuses :
            s.of # NoContext /\ statuses' = statuses \ {s} /\ name' = s.name /\ counts' = s.of
      BY <1>5 DEF Header!SetContent, NoContext
    <2>2. appTicks' = appTicks
      BY <1>5 DEF Header!SetContent
    <2>3. s.name \in Contexts /\ s.of \in Contexts \cup {NoContext}
      BY <1>1, <2>1 DEF LoadsKnown, Loads
    <2>4. IsFiniteSet(statuses \ {s}) /\ Cardinality(statuses \ {s}) = Cardinality(statuses) - 1
      BY <1>1, FS_RemoveElement
    <2>5. Cardinality(statuses') + (IF next' = "idle" THEN 0 ELSE 1) <= MaxStatuses + switches'
      BY <1>1, <1>2, <2>1, <2>4, HeaderAssumption DEF LoadsKnown
    <2>. QED
      BY <2>1, <2>2, <2>3, <2>4, <2>5 DEF LoadsKnown
  <1>. QED
    BY <1>3, <1>4, <1>5

LEMMA HeaderStep ==
  ASSUME HeaderInv, Header!Next
  PROVE  HeaderInv'
  <1>1. CASE (\E c \in Contexts : Header!ValidateContext(c)) \/ Header!Validated
               \/ Header!EnterContext \/ Header!SnapshotLoaded
    BY <1>1, ContextMoves, MovesKeepMeasured, MovesKeepLoads DEF HeaderInv
  <1>2. CASE Header!Measure \/ Header!SlowStatus \/ Header!Tick
    <2>1. UNCHANGED <<Header!switch, Header!counted, generation, switches>>
      BY <1>2 DEF Header!Measure, Header!SlowStatus, Header!Tick
    <2>2. ContextKnown' /\ SwitchesBounded' /\ LoadsKnown'
      BY <2>1 DEF HeaderInv, ContextKnown, SwitchesBounded, Ahead, LoadsKnown, Header!switch, Header!counted
    <2>. QED
      BY <1>2, <2>2, MeasureKeeps, SlowStatusKeeps, TickKeeps DEF HeaderInv
  <1>3. CASE Header!AppTick \/ Header!ReadStatus(FALSE) \/ Header!ReadStatus(TRUE) \/ Header!SetContent
    <2>1. UNCHANGED <<Header!switch, Header!measured, since, switches>>
      BY <1>3 DEF Header!AppTick, Header!ReadStatus, Header!SetContent
    <2>2. ContextKnown' /\ SwitchesBounded' /\ RoundsKnown' /\ UsageKnown'
      BY <2>1 DEF HeaderInv, ContextKnown, SwitchesBounded, Ahead, RoundsKnown, UsageKnown,
                  Header!switch, Header!measured
    <2>. QED
      BY <1>3, <2>2, LoadsKeep DEF HeaderInv
  <1>. QED
    BY <1>1, <1>2, <1>3 DEF Header!Next

\* The type invariant and the safety of the header, read off its inductive invariant.
LEMMA HeaderShown == HeaderInv => UsageIsSinceReset
  <1>. SUFFICES ASSUME HeaderInv
               PROVE  UsageIsSinceReset
    OBVIOUS
  <1>. USE DEF HeaderInv, NoContext
  <1>1. ASSUME NEW i \in DOMAIN rounds
        PROVE  rounds[i].gen <= generation /\ Header!Range(rounds[i].of) \subseteq Contexts
    <2>1. rounds[i] \in Rounds /\ rounds[i].gen <= generation
      BY DEF RoundsKnown
    <2>2. rounds[i].of \in Seq(Contexts)
      BY <2>1 DEF Rounds
    <2>. QED
      BY <2>1, <2>2 DEF Header!Range
  <1>2. Ahead \in Nat /\ generation \in 0..(2 * MaxSwitches)
    <2>1. Ahead \in Nat
      BY DEF Ahead
    <2>. QED
      BY <2>1, HeaderAssumption DEF SwitchesBounded
  <1>3. Cardinality(statuses) <= MaxStatuses + MaxSwitches
    <2>1. Cardinality(statuses) \in Nat
      BY FS_CardinalityType DEF LoadsKnown
    <2>. QED
      BY <2>1, HeaderAssumption DEF LoadsKnown, SwitchesBounded
  <1>4. Header!TypeOK
    BY <1>1, <1>2, <1>3, HeaderCounts DEF Header!TypeOK, ContextKnown, RoundsKnown, UsageKnown, LoadsKnown
  <1>. QED
    BY <1>4 DEF UsageIsSinceReset, Header!UsageIsSinceReset, UsageKnown

\* However often the context is switched and taken back while rounds, ticks and loads
\* are under way, the CPU and memory shown, and what their trend compares with, were read
\* in a context pinned since the values were last reset, and of the one chain a round is
\* under way or a tick is armed, never both and never neither.
THEOREM UsageOfThisContext == Spec => []UsageIsSinceReset
  <1>1. Init => HeaderInv
    BY HeaderInit DEF Init
  <1>2. HeaderInv /\ [Next]_vars => HeaderInv'
    <2>. SUFFICES ASSUME HeaderInv, [Next]_vars
                  PROVE  HeaderInv'
      OBVIOUS
    <2>1. CASE Header!Next
      BY <2>1, HeaderStep
    <2>2. CASE UNCHANGED header
      BY <2>2 DEF header, HeaderInv, ContextKnown, SwitchesBounded, Ahead, RoundsKnown, UsageKnown, LoadsKnown
    <2>. QED
      BY <2>1, <2>2 DEF Next, vars
  <1>. QED
    BY <1>1, <1>2, HeaderShown, PTL DEF Spec

-----------------------------------------------------------------------------
(***************************************************************************)
(* Lines in a sequence of entries                                          *)
(***************************************************************************)
At(q, s) == {i \in DOMAIN q : q[i].kind = "line" /\ q[i].of = s}

\* The lines of source s in q are those numbered a to b, in this order.
Runs(q, s, a, b) ==
  /\ \A i, j \in At(q, s) : i < j => q[i].n < q[j].n
  /\ \A i \in At(q, s) : q[i].n \in a..b
  /\ \A n \in a..b : \E i \in At(q, s) : q[i].n = n

\* An entry at the end is the next line of the source or none of its lines.
LEMMA RunsAppend ==
  ASSUME NEW S, NEW q \in Seq(S), NEW e \in S, NEW s, NEW a \in Nat, NEW b \in Nat,
         a <= b + 1, Runs(q, s, a, b)
  PROVE  /\ e.kind = "line" /\ e.of = s /\ e.n = b + 1 => Runs(Append(q, e), s, a, b + 1)
         /\ ~(e.kind = "line" /\ e.of = s) => Runs(Append(q, e), s, a, b)
  <1>1. PICK p : p = Append(q, e)
    OBVIOUS
  <1>2. /\ Len(q) \in Nat /\ DOMAIN q = 1..Len(q)
        /\ DOMAIN p = 1..(Len(q) + 1) /\ p[Len(q) + 1] = e
        /\ \A i \in DOMAIN q : p[i] = q[i]
    BY <1>1
  <1>3. ASSUME e.kind = "line", e.of = s, e.n = b + 1  PROVE  Runs(p, s, a, b + 1)
    <2>1. At(p, s) = At(q, s) \cup {Len(q) + 1}
      BY <1>2, <1>3 DEF At
    <2>2. \A i \in At(q, s) : i \in 1..Len(q) /\ p[i] = q[i] /\ q[i].n \in a..b
      BY <1>2 DEF At, Runs
    <2>3. ASSUME NEW i \in At(p, s), NEW j \in At(p, s), i < j  PROVE  p[i].n < p[j].n
      <3>1. i \in At(q, s)
        BY <1>2, <2>1, <2>2, <2>3
      <3>2. CASE j \in At(q, s)
        BY <2>2, <2>3, <3>1, <3>2 DEF Runs
      <3>3. CASE j = Len(q) + 1
        <4>1. p[j].n = b + 1 /\ p[i].n \in a..b
          BY <1>2, <1>3, <2>2, <3>1, <3>3
        <4>. QED
          BY <4>1
      <3>. QED
        BY <2>1, <3>2, <3>3
    <2>4. ASSUME NEW i \in At(p, s)  PROVE  p[i].n \in a..(b + 1)
      BY <1>2, <1>3, <2>1, <2>2
    <2>5. ASSUME NEW n \in a..(b + 1)  PROVE  \E i \in At(p, s) : p[i].n = n
      <3>1. CASE n = b + 1
        BY <1>2, <1>3, <2>1, <3>1
      <3>2. CASE n \in a..b
        <4>1. PICK i \in At(q, s) : q[i].n = n
          BY <3>2 DEF Runs
        <4>. QED
          BY <2>1, <2>2, <4>1
      <3>. QED
        BY <3>1, <3>2
    <2>. QED
      BY <2>3, <2>4, <2>5 DEF Runs
  <1>4. ASSUME ~(e.kind = "line" /\ e.of = s)  PROVE  Runs(p, s, a, b)
    <2>1. At(p, s) = At(q, s)
      BY <1>2, <1>4 DEF At
    <2>2. \A i \in At(q, s) : p[i] = q[i]
      BY <1>2 DEF At
    <2>. QED
      BY <2>1, <2>2 DEF Runs
  <1>. QED
    BY <1>1, <1>3, <1>4

\* Without its first entry, a sequence has one line less, the first, or as many.
LEMMA RunsTail ==
  ASSUME NEW S, NEW q \in Seq(S), q # <<>>, NEW s, NEW a \in Nat, NEW b \in Nat, Runs(q, s, a, b)
  PROVE  /\ q[1].kind = "line" /\ q[1].of = s => q[1].n = a /\ a <= b /\ Runs(Tail(q), s, a + 1, b)
         /\ ~(q[1].kind = "line" /\ q[1].of = s) => Runs(Tail(q), s, a, b)
  <1>1. PICK p : p = Tail(q)
    OBVIOUS
  <1>2. /\ Len(q) \in Nat \ {0} /\ DOMAIN q = 1..Len(q)
        /\ DOMAIN p = 1..(Len(q) - 1)
        /\ \A i \in 1..(Len(q) - 1) : p[i] = q[i + 1]
    BY <1>1
  <1>3. /\ \A i \in At(p, s) : i \in Nat /\ i + 1 \in At(q, s) /\ p[i] = q[i + 1]
        /\ \A i \in At(q, s) : i # 1 => i - 1 \in At(p, s) /\ p[i - 1] = q[i] /\ i \in Nat /\ i > 1
    <2>1. ASSUME NEW i \in At(p, s)
          PROVE  i \in Nat /\ i + 1 \in At(q, s) /\ p[i] = q[i + 1]
      <3>1. i \in 1..(Len(q) - 1) /\ i + 1 \in 1..Len(q)
        BY <1>2 DEF At
      <3>. QED
        BY <1>2, <3>1 DEF At
    <2>2. ASSUME NEW i \in At(q, s), i # 1
          PROVE  i - 1 \in At(p, s) /\ p[i - 1] = q[i] /\ i \in Nat /\ i > 1
      <3>1. i \in 1..Len(q) /\ i - 1 \in 1..(Len(q) - 1) /\ (i - 1) + 1 = i
        BY <1>2, <2>2 DEF At
      <3>2. p[i - 1] = q[i]
        BY <1>2, <3>1
      <3>. QED
        BY <1>2, <3>1, <3>2 DEF At
    <2>. QED
      BY <2>1, <2>2
  <1>4. ASSUME NEW i \in At(p, s), NEW j \in At(p, s), i < j  PROVE  p[i].n < p[j].n
    <2>1. /\ i + 1 \in At(q, s) /\ j + 1 \in At(q, s) /\ i + 1 < j + 1
          /\ p[i] = q[i + 1] /\ p[j] = q[j + 1]
      BY <1>3, <1>4
    <2>2. q[i + 1].n < q[j + 1].n
      BY <2>1 DEF Runs
    <2>. QED
      BY <2>1, <2>2
  <1>5. \A i \in At(p, s) : p[i].n \in a..b
    BY <1>3 DEF Runs
  <1>6. ASSUME q[1].kind = "line", q[1].of = s
        PROVE  q[1].n = a /\ a <= b /\ Runs(p, s, a + 1, b)
    <2>1. 1 \in At(q, s)
      BY <1>2, <1>6 DEF At
    <2>2. q[1].n \in a..b
      BY <2>1 DEF Runs
    <2>3. a \in a..b
      BY <2>2
    <2>4. PICK i \in At(q, s) : q[i].n = a
      BY <2>3 DEF Runs
    <2>5. i = 1
      <3>1. ASSUME i # 1  PROVE  q[1].n < q[i].n
        BY <1>3, <2>1, <3>1 DEF Runs
      <3>. QED
        BY <2>2, <2>4, <3>1
    <2>6. ASSUME NEW j \in At(p, s)  PROVE  p[j].n \in (a + 1)..b
      <3>1. p[j] = q[j + 1] /\ j + 1 \in At(q, s) /\ 1 < j + 1
        BY <1>2, <1>3, <2>6 DEF At
      <3>2. q[1].n < q[j + 1].n
        BY <2>1, <3>1 DEF Runs
      <3>. QED
        BY <1>5, <2>4, <2>5, <3>1, <3>2
    <2>7. ASSUME NEW n \in (a + 1)..b  PROVE  \E j \in At(p, s) : p[j].n = n
      <3>1. PICK j \in At(q, s) : q[j].n = n
        BY DEF Runs
      <3>2. j # 1
        BY <2>4, <2>5, <3>1
      <3>. QED
        BY <1>3, <3>1, <3>2
    <2>8. Runs(p, s, a + 1, b)
      BY <1>4, <2>6, <2>7 DEF Runs
    <2>. QED
      BY <2>3, <2>4, <2>5, <2>8
  <1>7. ASSUME ~(q[1].kind = "line" /\ q[1].of = s)  PROVE  Runs(p, s, a, b)
    <2>1. 1 \notin At(q, s)
      BY <1>7 DEF At
    <2>2. ASSUME NEW n \in a..b  PROVE  \E j \in At(p, s) : p[j].n = n
      <3>1. PICK j \in At(q, s) : q[j].n = n
        BY DEF Runs
      <3>. QED
        BY <1>3, <2>1, <3>1
    <2>. QED
      BY <1>4, <1>5, <2>2 DEF Runs
  <1>. QED
    BY <1>1, <1>6, <1>7

\* Trimming a buffer that has one entry too many loses the first one, and what is left
\* is as long as a buffer may be.
LEMMA RunsTrimmed ==
  ASSUME NEW S, NEW q \in Seq(S), Len(q) <= MaxLines + 1,
         NEW s, NEW a \in Nat, NEW b \in Nat, a <= b + 1, Runs(q, s, a, b)
  PROVE  /\ Logs!Trimmed(q) \in Seq(S) /\ Len(Logs!Trimmed(q)) <= MaxLines
         /\ \E c \in {a, a + 1} :
              /\ c <= b + 1 /\ Runs(Logs!Trimmed(q), s, c, b)
              /\ Len(Logs!Trimmed(q)) < MaxLines => c = a /\ Len(q) < MaxLines
  <1>1. Len(q) \in Nat /\ MaxLines \in Nat
    BY LogsAssumption
  <1>2. CASE Len(q) <= MaxLines
    <2>1. Logs!Trimmed(q) = q
      BY <1>1, <1>2 DEF Logs!Trimmed
    <2>. QED
      BY <1>2, <2>1
  <1>3. CASE Len(q) > MaxLines
    <2>1. Len(q) = MaxLines + 1 /\ Len(q) - MaxLines + 1 = 2
      BY <1>1, <1>3
    <2>2. Logs!Trimmed(q) = SubSeq(q, 2, Len(q))
      BY <1>3, <2>1 DEF Logs!Trimmed
    <2>3. q # <<>> /\ Logs!Trimmed(q) = Tail(q)
      BY <1>1, <2>1, <2>2
    <2>4. Tail(q) \in Seq(S) /\ Len(Tail(q)) = MaxLines
      BY <1>1, <2>1, <2>3
    <2>5. \E c \in {a, a + 1} : c <= b + 1 /\ Runs(Tail(q), s, c, b)
      <3>1. CASE q[1].kind = "line" /\ q[1].of = s
        <4>1. a + 1 <= b + 1 /\ Runs(Tail(q), s, a + 1, b)
          BY <2>3, <3>1, RunsTail
        <4>. QED
          BY <4>1
      <3>2. CASE ~(q[1].kind = "line" /\ q[1].of = s)
        <4>1. Runs(Tail(q), s, a, b)
          BY <2>3, <3>2, RunsTail
        <4>. QED
          BY <4>1
      <3>. QED
        BY <3>1, <3>2
    <2>. QED
      BY <1>1, <2>3, <2>4, <2>5
  <1>. QED
    BY <1>1, <1>2, <1>3

-----------------------------------------------------------------------------
(***************************************************************************)
(* The log view                                                            *)
(***************************************************************************)

\* The last line of s that its scanner has taken, and the last it has put in the channel.
Taken(s) == IF copier = s THEN copied[s] - 1 ELSE copied[s]
Pushed(s) == IF scanned[s] # 0 THEN Taken(s) - 1 ELSE Taken(s)

ReadInOrder ==
  /\ producer = "opening" =>
       copier = "done" /\ scanners = {} /\ \A s \in Logs!Sources : copied[s] = 0 /\ scanned[s] = 0
  /\ producer = "raw" => copier = "done"
  /\ \A s \in Logs!Sources :
       copied[s] <= wrote[s] /\ scanned[s] \in {0, Taken(s)} /\ (copier = s => copied[s] >= 1)

\* The pump will deliver more than what is in the buffer: nothing has stopped it.
Live == pump = "waiting" \/ (pump = "sent" /\ message.kind \in {"init", "line"})

Sent(s) == pump = "sent" /\ message.kind = "line" /\ message.of = s
Told(s, last) == IF Sent(s) THEN last + 1 ELSE last

InBuffer(s, first, last) ==
  /\ first >= 1 /\ first <= last + 1 /\ Runs(buffer, s, first, last)
  /\ Len(buffer) < MaxLines => first = 1

Coming(s, last, end) ==
  /\ Sent(s) => message.n = last + 1
  /\ Told(s, last) <= end /\ Runs(lines, s, Told(s, last) + 1, end)
  /\ s \in scanners \/ producer = "opening" => end = Pushed(s)

\* Of each source, the buffer, the message, the channel and what the scanner holds are
\* lines that follow one another; once the pump has stopped only the buffer is.
Ordered ==
  \A s \in Logs!Sources : \E first, last, end \in Nat :
    InBuffer(s, first, last) /\ (Live => Coming(s, last, end))

ErrorsOnly == \A i \in DOMAIN errs : errs[i].kind = "error"

LogInv == Logs!TypeOK /\ ReadInOrder /\ ErrorsOnly /\ Ordered

LEMMA LinesAreEntries ==
  ASSUME NEW s \in Logs!Sources, NEW n \in 0..MaxWrites
  PROVE  Logs!Line(s, n) \in Logs!Entries
  BY DEF Logs!Line, Logs!Entries

LEMMA NoticesAreEntries ==
  ASSUME NEW kind \in {"init", "error", "done", "mark"}
  PROVE  /\ Logs!Notice(kind) \in Logs!Entries /\ Logs!Nothing \in Logs!Entries
         /\ Logs!Notice(kind).kind = kind /\ Logs!Nothing.kind = "none"
  BY LogsAssumption DEF Logs!Notice, Logs!Nothing, Logs!Entries

LEMMA LogTypeInit == Logs!Init => Logs!TypeOK
  <1>. SUFFICES ASSUME Logs!Init
               PROVE  Logs!TypeOK
    OBVIOUS
  <1>1. message \in Logs!Entries
    BY NoticesAreEntries DEF Logs!Init
  <1>2. wrote \in [Logs!Sources -> 0..MaxWrites] /\ \A s \in Logs!Sources : wrote[s] = 0
    BY LogsAssumption DEF Logs!Init
  <1>3. /\ lines \in Seq(Logs!Entries) /\ Len(lines) = 0 /\ errs \in Seq(Logs!Entries) /\ Len(errs) = 0
        /\ buffer \in Seq(Logs!Entries) /\ Len(buffer) = 0
    BY DEF Logs!Init
  <1>4. copied = wrote /\ scanned = wrote /\ \A s \in Logs!Sources : scanned[s] = 0
    BY <1>2 DEF Logs!Init
  <1>5. {cancelled, stopping} \subseteq BOOLEAN /\ {cancelled, stopping} = {FALSE}
    BY DEF Logs!Init
  <1>6. /\ service = "open" /\ producer \in {"opening", "over"} /\ copier = "done" /\ scanners = {}
        /\ closed = {} /\ place = "on" /\ pump = "sent" /\ keys = 0
    BY DEF Logs!Init
  <1>7. overlong \in BOOLEAN
    BY Zenon DEF Logs!Init
  <1>. QED
    BY <1>1, <1>2, <1>3, <1>4, <1>5, <1>6, <1>7, LogsAssumption DEF Logs!TypeOK

\* Goroutines keep what they read, and the channels, to their types.
LEMMA ProducingKeepsType ==
  ASSUME Logs!TypeOK, ReadInOrder, Logs!Producing
  PROVE  Logs!TypeOK'
  <1>. USE LogsAssumption
  <1>1. CASE Logs!Opened
    <2>1. \A s \in Logs!Sources : scanned'[s] = 0
      BY <1>1 DEF Logs!Opened, ReadInOrder
    <2>2. errs' \in Seq(Logs!Entries) /\ Len(errs') <= 1
      <3>1. Logs!Notice("error") \in Logs!Entries /\ errs \in Seq(Logs!Entries) /\ Len(errs) <= 1
        BY NoticesAreEntries DEF Logs!TypeOK
      <3>2. errs' = errs \/ errs' = <<Logs!Notice("error")>>
        BY <1>1 DEF Logs!Opened
      <3>3. CASE errs' = <<Logs!Notice("error")>>
        BY <3>1, <3>3, OneRound
      <3>. QED
        BY <3>1, <3>2, <3>3
    <2>3. scanners' \subseteq Logs!Sources
      BY <1>1 DEF Logs!Opened, Logs!TypeOK, Logs!Sources
    <2>4. /\ producer' \in {"copying", "raw", "failed"} /\ copier' \in Logs!Sources \cup {"reading", "done"}
          /\ UNCHANGED <<copied, scanned, lines, closed, service, wrote, overlong, place, buffer, keys,
                         pump, message, cancelled, stopping>>
      BY <1>1 DEF Logs!Opened, Logs!TypeOK, Logs!daemon, Logs!screen, Logs!pumping, Logs!stop
    <2>. QED
      BY <2>1, <2>2, <2>3, <2>4 DEF Logs!TypeOK
  <1>2. CASE Logs!CopyEnds
    BY <1>2 DEF Logs!CopyEnds, Logs!TypeOK, Logs!daemon, Logs!channels, Logs!screen, Logs!pumping, Logs!stop
  <1>3. CASE Logs!AllRead
    <2>1. errs' \in Seq(Logs!Entries) /\ Len(errs') <= 1
      <3>1. Logs!Notice("error") \in Logs!Entries /\ errs \in Seq(Logs!Entries) /\ Len(errs) <= 1
        BY NoticesAreEntries DEF Logs!TypeOK
      <3>2. errs' = errs \/ errs' = <<Logs!Notice("error")>>
        BY <1>3 DEF Logs!AllRead
      <3>3. CASE errs' = <<Logs!Notice("error")>>
        BY <3>1, <3>3, OneRound
      <3>. QED
        BY <3>1, <3>2, <3>3
    <2>2. /\ producer' \in {"failed", "closing"}
          /\ UNCHANGED <<copier, copied, scanners, scanned, lines, closed, service, wrote, overlong, place, buffer,
                         keys, pump, message, cancelled, stopping>>
      BY <1>3 DEF Logs!AllRead, Logs!daemon, Logs!screen, Logs!pumping, Logs!stop
    <2>. QED
      BY <2>1, <2>2 DEF Logs!TypeOK
  <1>4. CASE Logs!Close
    BY <1>4 DEF Logs!Close, Logs!TypeOK, Logs!daemon, Logs!screen, Logs!pumping, Logs!stop
  <1>5. ASSUME NEW s \in Logs!Sources, Logs!Copy(s)  PROVE  Logs!TypeOK'
    <2>1. copied[s] + 1 \in 0..MaxWrites
      BY <1>5 DEF Logs!Copy, Logs!TypeOK
    <2>2. copied' \in [Logs!Sources -> 0..MaxWrites]
      BY <1>5, <2>1 DEF Logs!Copy, Logs!TypeOK
    <2>. QED
      BY <1>5, <2>2 DEF Logs!Copy, Logs!TypeOK, Logs!daemon, Logs!channels, Logs!screen, Logs!pumping, Logs!stop
  <1>6. ASSUME NEW s \in Logs!Sources, Logs!Scan(s)  PROVE  Logs!TypeOK'
    <2>1. copied' \in [Logs!Sources -> 0..MaxWrites]
      <3>1. CASE copied' = copied
        BY <3>1 DEF Logs!TypeOK
      <3>2. CASE copied[s] < wrote[s] /\ copied' = [copied EXCEPT ![s] = @ + 1]
        <4>1. copied[s] + 1 \in 0..MaxWrites
          BY <3>2 DEF Logs!TypeOK
        <4>. QED
          BY <3>2, <4>1 DEF Logs!TypeOK
      <3>. QED
        BY <1>6, <3>1, <3>2 DEF Logs!Scan
    <2>2. /\ scanned' = [scanned EXCEPT ![s] = copied'[s]] /\ s \in scanners /\ scanners' = scanners
          /\ copier' \in {copier, "reading"}
          /\ UNCHANGED <<producer, lines, errs, closed, service, wrote, overlong, place, buffer, keys,
                         pump, message, cancelled, stopping>>
      BY <1>6 DEF Logs!Scan, Logs!daemon, Logs!channels, Logs!screen, Logs!pumping, Logs!stop
    <2>3. /\ scanned' \in [Logs!Sources -> 0..MaxWrites]
          /\ \A r \in Logs!Sources \ scanners' : scanned'[r] = 0
      BY <2>1, <2>2 DEF Logs!TypeOK
    <2>. QED
      BY <2>1, <2>2, <2>3 DEF Logs!TypeOK
  <1>7. ASSUME NEW s \in Logs!Sources, Logs!Push(s)  PROVE  Logs!TypeOK'
    <2>1. /\ lines' = Append(lines, Logs!Line(s, scanned[s])) /\ Len(lines) < ChannelRoom
          /\ scanned' = [scanned EXCEPT ![s] = 0]
          /\ UNCHANGED <<producer, copier, copied, scanners, errs, closed, service, wrote, overlong, place, buffer,
                         keys, pump, message, cancelled, stopping>>
      BY <1>7 DEF Logs!Push, Logs!daemon, Logs!screen, Logs!pumping, Logs!stop
    <2>2. Logs!Line(s, scanned[s]) \in Logs!Entries
      BY LinesAreEntries DEF Logs!TypeOK
    <2>3. lines' \in Seq(Logs!Entries) /\ Len(lines') <= ChannelRoom
      <3>1. lines \in Seq(Logs!Entries)
        BY DEF Logs!TypeOK
      <3>. QED
        BY <2>1, <2>2, <3>1
    <2>4. /\ scanned' \in [Logs!Sources -> 0..MaxWrites]
          /\ \A r \in Logs!Sources \ scanners' : scanned'[r] = 0
      BY <2>1 DEF Logs!TypeOK
    <2>. QED
      BY <2>1, <2>3, <2>4 DEF Logs!TypeOK
  <1>8. ASSUME NEW s \in Logs!Sources, Logs!ScannerEnds(s)  PROVE  Logs!TypeOK'
    <2>1. /\ scanners' = scanners \ {s} /\ scanned' = [scanned EXCEPT ![s] = 0]
          /\ UNCHANGED <<producer, copier, copied, lines, errs, closed, service, wrote, overlong, place, buffer,
                         keys, pump, message, cancelled, stopping>>
      BY <1>8 DEF Logs!ScannerEnds, Logs!daemon, Logs!channels, Logs!screen, Logs!pumping, Logs!stop
    <2>2. /\ scanned' \in [Logs!Sources -> 0..MaxWrites]
          /\ \A r \in Logs!Sources \ scanners' : scanned'[r] = 0
      BY <2>1 DEF Logs!TypeOK
    <2>. QED
      BY <2>1, <2>2 DEF Logs!TypeOK
  <1>9. ASSUME NEW s \in Logs!Sources, Logs!ScanFails(s)  PROVE  Logs!TypeOK'
    <2>1. /\ scanners' = scanners \ {s} /\ overlong' = TRUE /\ scanned[s] = 0
          /\ \/ UNCHANGED <<producer, errs>>
             \/ producer' = "failed" /\ errs' = <<Logs!Notice("error")>>
          /\ UNCHANGED <<service, wrote, copier, copied, scanned, lines, closed, place, buffer, keys,
                         pump, message, cancelled, stopping>>
      BY <1>9 DEF Logs!ScanFails, Logs!screen, Logs!pumping, Logs!stop
    <2>2. errs' \in Seq(Logs!Entries) /\ Len(errs') <= 1
      <3>1. Logs!Notice("error") \in Logs!Entries /\ errs \in Seq(Logs!Entries) /\ Len(errs) <= 1
        BY NoticesAreEntries DEF Logs!TypeOK
      <3>2. CASE errs' = <<Logs!Notice("error")>>
        BY <3>1, <3>2
      <3>. QED
        BY <2>1, <3>1, <3>2
    <2>3. producer' \in {"opening", "copying", "raw", "closing", "failed", "over"}
      BY <2>1 DEF Logs!TypeOK
    <2>4. scanners' \subseteq Logs!Sources /\ \A r \in Logs!Sources \ scanners' : scanned'[r] = 0
      BY <2>1 DEF Logs!TypeOK
    <2>. QED
      BY <2>1, <2>2, <2>3, <2>4 DEF Logs!TypeOK
  <1>. QED
    BY <1>1, <1>2, <1>3, <1>4, <1>5, <1>6, <1>7, <1>8, <1>9 DEF Logs!Producing

\* An entry more, trimmed, keeps the buffer to its room.
LEMMA BufferKeeps ==
  ASSUME Logs!TypeOK, NEW e \in Logs!Entries
  PROVE  /\ Logs!Trimmed(Append(buffer, e)) \in Seq(Logs!Entries)
         /\ Len(Logs!Trimmed(Append(buffer, e))) <= MaxLines
  <1>1. PICK q \in Seq(Logs!Entries) : q = Append(buffer, e) /\ Len(q) \in Nat /\ Len(q) <= MaxLines + 1
    <2>1. buffer \in Seq(Logs!Entries) /\ Len(buffer) <= MaxLines
      BY DEF Logs!TypeOK
    <2>2. Append(buffer, e) \in Seq(Logs!Entries) /\ Len(Append(buffer, e)) = Len(buffer) + 1
      BY <2>1
    <2>3. Len(Append(buffer, e)) \in Nat /\ Len(Append(buffer, e)) <= MaxLines + 1
      BY <2>1, <2>2, LogsAssumption
    <2>. QED
      BY <2>2, <2>3
  <1>2. CASE Len(q) <= MaxLines
    BY <1>1, <1>2, LogsAssumption DEF Logs!Trimmed
  <1>3. CASE Len(q) > MaxLines
    <2>1. Len(q) - MaxLines + 1 = 2 /\ Len(q) = MaxLines + 1 /\ MaxLines \in Nat
      BY <1>1, <1>3, LogsAssumption
    <2>2. SubSeq(q, 2, Len(q)) \in Seq(Logs!Entries) /\ Len(SubSeq(q, 2, Len(q))) = MaxLines
      BY <1>1, <2>1
    <2>3. Logs!Trimmed(q) = SubSeq(q, 2, Len(q))
      BY <1>3, <2>1 DEF Logs!Trimmed
    <2>. QED
      BY <1>1, <2>1, <2>2, <2>3
  <1>. QED
    BY <1>1, <1>2, <1>3, LogsAssumption

\* So do the view, its pump and the daemon.
LEMMA ViewKeepsType ==
  ASSUME Logs!TypeOK,
         (\E s \in Logs!Sources : Logs!Write(s)) \/ Logs!StreamEnds \/ Logs!StopStreaming \/ Logs!PumpReads
           \/ Logs!Delivered \/ Logs!Leave("under") \/ Logs!Leave("gone") \/ Logs!Return \/ Logs!Mark
  PROVE  Logs!TypeOK'
  <1>. USE LogsAssumption
  <1>1. ASSUME NEW s \in Logs!Sources, Logs!Write(s)  PROVE  Logs!TypeOK'
    <2>1. wrote[s] \in 0..MaxWrites /\ wrote[s] + 1 \in 0..MaxWrites
      <3>1. wrote["stdout"] \in Nat /\ wrote["stderr"] \in Nat /\ wrote["stdout"] + wrote["stderr"] < MaxWrites
        BY <1>1 DEF Logs!Write, Logs!TypeOK, Logs!Sources
      <3>2. s = "stdout" \/ s = "stderr"
        BY DEF Logs!Sources
      <3>. QED
        BY <3>1, <3>2
    <2>2. wrote' \in [Logs!Sources -> 0..MaxWrites]
      BY <1>1, <2>1 DEF Logs!Write, Logs!TypeOK
    <2>. QED
      BY <1>1, <2>2 DEF Logs!Write, Logs!TypeOK, Logs!reading, Logs!channels, Logs!screen, Logs!pumping, Logs!stop
  <1>2. CASE Logs!StreamEnds
    BY <1>2 DEF Logs!StreamEnds, Logs!TypeOK, Logs!reading, Logs!channels, Logs!screen, Logs!pumping, Logs!stop
  <1>3. CASE Logs!StopStreaming
    <2>1. stopping' = FALSE /\ cancelled' = TRUE
      BY <1>3 DEF Logs!StopStreaming
    <2>. QED
      BY <1>3, <2>1 DEF Logs!StopStreaming, Logs!TypeOK, Logs!daemon, Logs!reading, Logs!channels, Logs!screen, Logs!pumping
  <1>4. CASE Logs!PumpReads
    <2>1. lines \in Seq(Logs!Entries) /\ Len(lines) <= ChannelRoom /\ errs \in Seq(Logs!Entries) /\ Len(errs) <= 1
      BY DEF Logs!TypeOK
    <2>2. /\ pump' = "sent"
          /\ UNCHANGED <<closed, service, wrote, overlong, producer, copier, copied, scanners, scanned,
                         place, buffer, keys, cancelled, stopping>>
      BY <1>4 DEF Logs!PumpReads, Logs!daemon, Logs!reading, Logs!screen, Logs!stop
    <2>3. /\ lines' \in Seq(Logs!Entries) /\ Len(lines') <= ChannelRoom
          /\ errs' \in Seq(Logs!Entries) /\ Len(errs') <= 1 /\ message' \in Logs!Entries
      <3>1. CASE lines # <<>> /\ lines' = Tail(lines) /\ message' = Head(lines) /\ UNCHANGED errs
        <4>1. Tail(lines) \in Seq(Logs!Entries) /\ Len(Tail(lines)) = Len(lines) - 1 /\ Head(lines) \in Logs!Entries
              /\ Len(lines) \in Nat
          BY <2>1, <3>1
        <4>. QED
          BY <2>1, <3>1, <4>1
      <3>2. CASE message' = Logs!Notice("done") /\ UNCHANGED <<lines, errs>>
        BY <2>1, <3>2, NoticesAreEntries
      <3>3. CASE errs # <<>> /\ errs' = <<>> /\ message' = Head(errs) /\ UNCHANGED lines
        <4>1. Head(errs) \in Logs!Entries /\ errs' \in Seq(Logs!Entries) /\ Len(errs') = 0
          BY <2>1, <3>3
        <4>. QED
          BY <2>1, <3>3, <4>1
      <3>. QED
        BY <1>4, <3>1, <3>2, <3>3 DEF Logs!PumpReads
    <2>. QED
      BY <2>2, <2>3 DEF Logs!TypeOK
  <1>5. CASE Logs!Delivered
    <2>1. message' \in Logs!Entries /\ pump' \in {"waiting", "none"}
      BY <1>5, NoticesAreEntries DEF Logs!Delivered
    <2>2. buffer' = buffer \/ buffer' = Logs!Trimmed(Append(buffer, message))
      BY <1>5 DEF Logs!Delivered
    <2>3. buffer' \in Seq(Logs!Entries) /\ Len(buffer') <= MaxLines
      <3>1. message \in Logs!Entries /\ buffer \in Seq(Logs!Entries) /\ Len(buffer) <= MaxLines
        BY DEF Logs!TypeOK
      <3>. QED
        BY <2>2, <3>1, BufferKeeps
    <2>4. UNCHANGED <<service, wrote, overlong, producer, copier, copied, scanners, scanned, lines, errs, closed,
                      place, keys, cancelled, stopping>>
      BY <1>5 DEF Logs!Delivered, Logs!daemon, Logs!reading, Logs!channels, Logs!stop
    <2>. QED
      BY <2>1, <2>3, <2>4 DEF Logs!TypeOK
  <1>6. ASSUME NEW to \in {"under", "gone"}, Logs!Leave(to)  PROVE  Logs!TypeOK'
    <2>1. stopping' \in BOOLEAN /\ cancelled' = cancelled
      BY <1>6, ZenonT(30) DEF Logs!Leave, Logs!TypeOK
    <2>2. keys' \in 0..MaxKeys
      BY <1>6 DEF Logs!Leave, Logs!Key, Logs!TypeOK
    <2>3. cancelled \in BOOLEAN
      BY DEF Logs!TypeOK
    <2>4. {cancelled', stopping'} \subseteq BOOLEAN
      BY <2>1, <2>3, Zenon
    <2>5. /\ place' = to
          /\ UNCHANGED <<service, wrote, overlong, producer, copier, copied, scanners, scanned, lines, errs, closed,
                         buffer, pump, message>>
      BY <1>6 DEF Logs!Leave, Logs!daemon, Logs!reading, Logs!channels, Logs!pumping
    <2>. QED
      BY <2>2, <2>4, <2>5 DEF Logs!TypeOK
  <1>7. CASE Logs!Return
    <2>1. keys' \in 0..MaxKeys
      BY <1>7 DEF Logs!Return, Logs!Key, Logs!TypeOK
    <2>. QED
      BY <1>7, <2>1 DEF Logs!Return, Logs!TypeOK, Logs!daemon, Logs!reading, Logs!channels, Logs!pumping, Logs!stop
  <1>8. CASE Logs!Mark
    <2>1. keys' \in 0..MaxKeys
      BY <1>8 DEF Logs!Mark, Logs!Key, Logs!TypeOK
    <2>2. buffer' \in Seq(Logs!Entries) /\ Len(buffer') <= MaxLines
      BY <1>8, NoticesAreEntries, BufferKeeps DEF Logs!Mark
    <2>3. UNCHANGED <<place, service, wrote, overlong, producer, copier, copied, scanners, scanned, lines, errs, closed,
                      pump, message, cancelled, stopping>>
      BY <1>8 DEF Logs!Mark, Logs!daemon, Logs!reading, Logs!channels, Logs!pumping, Logs!stop
    <2>. QED
      BY <2>1, <2>2, <2>3 DEF Logs!TypeOK
  <1>. QED
    BY <1>1, <1>2, <1>3, <1>4, <1>5, <1>6, <1>7, <1>8

\* What a scanner holds is the last line it took.
LEMMA ReadInOrderKeeps ==
  ASSUME Logs!TypeOK, ReadInOrder, Logs!Next
  PROVE  ReadInOrder'
  <1>. USE DEF ReadInOrder
  <1>0. /\ copied \in [Logs!Sources -> 0..MaxWrites] /\ scanned \in [Logs!Sources -> 0..MaxWrites]
        /\ wrote \in [Logs!Sources -> 0..MaxWrites]
    BY DEF Logs!TypeOK
  <1>1. ASSUME NEW s \in Logs!Sources, Logs!Write(s)  PROVE  ReadInOrder'
    BY <1>0, <1>1, LogsAssumption DEF Logs!Write, Logs!reading, Taken
  <1>2. CASE Logs!Opened
    BY <1>0, <1>2 DEF Logs!Opened, Logs!daemon, Logs!Sources, Taken
  <1>3. ASSUME NEW s \in Logs!Sources, Logs!Copy(s)  PROVE  ReadInOrder'
    BY <1>0, <1>3, LogsAssumption DEF Logs!Copy, Logs!daemon, Logs!Sources, Taken
  <1>4. CASE Logs!CopyEnds
    BY <1>0, <1>4 DEF Logs!CopyEnds, Logs!daemon, Logs!Sources, Taken
  <1>5. ASSUME NEW s \in Logs!Sources, Logs!Scan(s)  PROVE  ReadInOrder'
    <2>1. /\ scanned' = [scanned EXCEPT ![s] = copied'[s]] /\ s \in scanners
          /\ UNCHANGED <<producer, scanners, wrote>>
      BY <1>5 DEF Logs!Scan, Logs!daemon
    <2>2. CASE copier = s /\ copier' = "reading" /\ UNCHANGED copied
      BY <1>0, <2>1, <2>2 DEF Logs!Sources, Taken
    <2>3. CASE /\ producer = "raw" /\ copied[s] < wrote[s]
               /\ copied' = [copied EXCEPT ![s] = @ + 1] /\ UNCHANGED copier
      <3>1. copier # "reading" /\ copier \notin Logs!Sources
        BY <2>3 DEF Logs!Sources
      <3>2. /\ copied'[s] = copied[s] + 1 /\ copied[s] \in Nat /\ wrote[s] \in Nat /\ scanned'[s] = copied'[s]
            /\ \A r \in Logs!Sources \ {s} : copied'[r] = copied[r] /\ scanned'[r] = scanned[r]
        BY <1>0, <2>1, <2>3
      <3>3. ASSUME NEW r \in Logs!Sources
            PROVE  copied'[r] <= wrote'[r] /\ scanned'[r] \in {0, Taken(r)'} /\ (copier' = r => copied'[r] >= 1)
        BY <2>1, <2>3, <3>1, <3>2 DEF Taken
      <3>. QED
        BY <2>1, <2>3, <3>1, <3>3
    <2>. QED
      BY <1>5, <2>2, <2>3 DEF Logs!Scan
  <1>6. ASSUME NEW s \in Logs!Sources, Logs!Push(s)  PROVE  ReadInOrder'
    BY <1>0, <1>6 DEF Logs!Push, Logs!daemon, Taken
  <1>7. ASSUME NEW s \in Logs!Sources, Logs!ScannerEnds(s)  PROVE  ReadInOrder'
    BY <1>0, <1>7 DEF Logs!ScannerEnds, Logs!daemon, Taken
  <1>10. ASSUME NEW s \in Logs!Sources, Logs!ScanFails(s)  PROVE  ReadInOrder'
    <2>1. /\ scanners' \subseteq scanners /\ (producer' = producer \/ producer' = "failed")
          /\ UNCHANGED <<wrote, copier, copied, scanned>>
      BY <1>10 DEF Logs!ScanFails
    <2>. QED
      BY <2>1 DEF Taken
  <1>8. CASE Logs!AllRead \/ Logs!Close
    BY <1>0, <1>8 DEF Logs!AllRead, Logs!Close, Logs!daemon, Taken
  <1>9. CASE \/ Logs!StreamEnds \/ Logs!StopStreaming \/ Logs!PumpReads \/ Logs!Delivered
             \/ Logs!Leave("under") \/ Logs!Leave("gone") \/ Logs!Return \/ Logs!Mark
    <2>1. UNCHANGED <<wrote, producer, copier, copied, scanners, scanned>>
      BY <1>9 DEF Logs!StreamEnds, Logs!StopStreaming, Logs!PumpReads, Logs!Delivered, Logs!Leave,
                  Logs!Return, Logs!Mark, Logs!daemon, Logs!reading
    <2>. QED
      BY <2>1 DEF Taken
  <1>. QED
    BY <1>1, <1>2, <1>3, <1>4, <1>5, <1>6, <1>7, <1>8, <1>9, <1>10 DEF Logs!Next, Logs!Producing

LEMMA NoLines ==
  ASSUME NEW s
  PROVE  Runs(<<>>, s, 1, 0)
  BY DEF Runs, At

LEMMA OrderedInit == Logs!Init => ReadInOrder /\ Ordered
  <1>. SUFFICES ASSUME Logs!Init
               PROVE  ReadInOrder /\ Ordered
    OBVIOUS
  <1>1. /\ copier = "done" /\ scanners = {} /\ producer \in {"opening", "over"}
        /\ \A s \in Logs!Sources : copied[s] = 0 /\ wrote[s] = 0 /\ scanned[s] = 0
        /\ buffer = <<>> /\ lines = <<>> /\ message.kind # "line"
    BY DEF Logs!Init, Logs!Notice
  <1>2. "done" \notin Logs!Sources
    BY DEF Logs!Sources
  <1>3. ReadInOrder
    BY <1>1, <1>2 DEF ReadInOrder, Taken
  <1>4. ASSUME NEW s \in Logs!Sources  PROVE  InBuffer(s, 1, 0) /\ Coming(s, 0, 0)
    <2>1. Pushed(s) = 0 /\ ~Sent(s) /\ Told(s, 0) = 0
      BY <1>1, <1>2 DEF Pushed, Taken, Sent, Told
    <2>. QED
      BY <1>1, <2>1, NoLines DEF InBuffer, Coming
  <1>5. Ordered
    BY <1>4 DEF Ordered
  <1>. QED
    BY <1>3, <1>5

\* A step that leaves the buffer, the message and the channel as they are has only to keep
\* what each scanner is up to.
LEMMA ElsewhereKeepsOrder ==
  ASSUME Ordered, UNCHANGED <<buffer, pump, message, lines>>,
         \A s \in Logs!Sources : s \in scanners' \/ producer' = "opening" =>
           (s \in scanners \/ producer = "opening") /\ Pushed(s)' = Pushed(s)
  PROVE  Ordered'
  <1>. SUFFICES ASSUME NEW s \in Logs!Sources
               PROVE  \E first, last, end \in Nat :
                        InBuffer(s, first, last)' /\ (Live' => Coming(s, last, end)')
    BY DEF Ordered
  <1>1. PICK first \in Nat, last \in Nat, end \in Nat : InBuffer(s, first, last) /\ (Live => Coming(s, last, end))
    BY DEF Ordered
  <1>2. InBuffer(s, first, last)'
    BY <1>1 DEF InBuffer
  <1>3. Live' => Coming(s, last, end)'
    BY <1>1 DEF Live, Coming, Sent, Told
  <1>. QED
    BY <1>2, <1>3

LEMMA GoroutinesKeepOrder ==
  ASSUME LogInv,
         Logs!Opened \/ Logs!CopyEnds \/ Logs!AllRead \/ Logs!Close
           \/ \E s \in Logs!Sources : Logs!Copy(s) \/ Logs!Scan(s) \/ Logs!ScanFails(s) \/ Logs!ScannerEnds(s)
  PROVE  Ordered'
  <1>. DEFINE Keeps == \A s \in Logs!Sources : s \in scanners' \/ producer' = "opening" =>
                         (s \in scanners \/ producer = "opening") /\ Pushed(s)' = Pushed(s)
  <1>0. /\ copied \in [Logs!Sources -> 0..MaxWrites] /\ scanned \in [Logs!Sources -> 0..MaxWrites]
        /\ MaxWrites \in Nat
    BY LogsAssumption DEF LogInv, Logs!TypeOK
  <1>a. "done" \notin Logs!Sources /\ "reading" \notin Logs!Sources
    BY DEF Logs!Sources
  <1>1. CASE Logs!Opened
    <2>1. Keeps
      BY <1>1, <1>a DEF Logs!Opened, LogInv, ReadInOrder, Pushed, Taken
    <2>. QED
      BY <1>1, <2>1, ElsewhereKeepsOrder DEF LogInv, Logs!Opened, Logs!screen, Logs!pumping
  <1>2. CASE Logs!CopyEnds
    <2>1. Keeps
      BY <1>2, <1>a DEF Logs!CopyEnds, Pushed, Taken
    <2>. QED
      BY <1>2, <2>1, ElsewhereKeepsOrder DEF LogInv, Logs!CopyEnds, Logs!screen, Logs!pumping, Logs!channels
  <1>3. CASE Logs!AllRead \/ Logs!Close
    <2>1. Keeps
      BY <1>3 DEF Logs!AllRead, Logs!Close, Pushed, Taken
    <2>. QED
      BY <1>3, <2>1, ElsewhereKeepsOrder DEF LogInv, Logs!AllRead, Logs!Close, Logs!screen, Logs!pumping
  <1>4. ASSUME NEW r \in Logs!Sources, Logs!Copy(r)  PROVE  Ordered'
    <2>1. Keeps
      BY <1>0, <1>4, <1>a DEF Logs!Copy, Pushed, Taken
    <2>. QED
      BY <1>4, <2>1, ElsewhereKeepsOrder DEF LogInv, Logs!Copy, Logs!screen, Logs!pumping, Logs!channels
  <1>5. ASSUME NEW r \in Logs!Sources, Logs!Scan(r)  PROVE  Ordered'
    <2>0. /\ scanned' = [scanned EXCEPT ![r] = copied'[r]] /\ scanned[r] = 0 /\ r \in scanners
          /\ UNCHANGED <<producer, scanners>>
      BY <1>5 DEF Logs!Scan
    <2>1. CASE copier = r /\ copier' = "reading" /\ UNCHANGED copied
      <3>1. copied[r] >= 1 /\ copied[r] \in Nat
        BY <1>0, <2>1 DEF LogInv, ReadInOrder
      <3>2. Keeps
        BY <1>0, <1>a, <2>0, <2>1, <3>1 DEF Pushed, Taken
      <3>. QED
        BY <1>5, <3>2, ElsewhereKeepsOrder DEF LogInv, Logs!Scan, Logs!screen, Logs!pumping, Logs!channels
    <2>2. CASE producer = "raw" /\ copied' = [copied EXCEPT ![r] = @ + 1] /\ UNCHANGED copier
      <3>1. copier = "done"
        BY <2>2 DEF LogInv, ReadInOrder
      <3>2. Keeps
        BY <1>0, <1>a, <2>0, <2>2, <3>1 DEF Pushed, Taken
      <3>. QED
        BY <1>5, <3>2, ElsewhereKeepsOrder DEF LogInv, Logs!Scan, Logs!screen, Logs!pumping, Logs!channels
    <2>. QED
      BY <1>5, <2>1, <2>2 DEF Logs!Scan
  <1>6. ASSUME NEW r \in Logs!Sources, Logs!ScannerEnds(r)  PROVE  Ordered'
    <2>1. Keeps
      BY <1>0, <1>6 DEF Logs!ScannerEnds, Pushed, Taken, LogInv, ReadInOrder
    <2>. QED
      BY <1>6, <2>1, ElsewhereKeepsOrder DEF LogInv, Logs!ScannerEnds, Logs!screen, Logs!pumping, Logs!channels
  <1>7. ASSUME NEW r \in Logs!Sources, Logs!ScanFails(r)  PROVE  Ordered'
    <2>1. /\ scanners' \subseteq scanners /\ (producer' = producer \/ producer' = "failed")
          /\ UNCHANGED <<copier, copied, scanned, buffer, pump, message, lines>>
      BY <1>7 DEF Logs!ScanFails, Logs!screen, Logs!pumping
    <2>2. Keeps
      BY <2>1 DEF Pushed, Taken
    <2>. QED
      BY <2>1, <2>2, ElsewhereKeepsOrder DEF LogInv
  <1>. QED
    BY <1>1, <1>2, <1>3, <1>4, <1>5, <1>6, <1>7

LEMMA OthersKeepOrder ==
  ASSUME LogInv,
         (\E s \in Logs!Sources : Logs!Write(s)) \/ Logs!StreamEnds \/ Logs!StopStreaming
           \/ Logs!Leave("under") \/ Logs!Leave("gone") \/ Logs!Return
  PROVE  Ordered'
  <1>1. UNCHANGED <<buffer, pump, message, lines, scanners, producer, copier, copied, scanned>>
    BY DEF Logs!Write, Logs!StreamEnds, Logs!StopStreaming, Logs!Leave, Logs!Return,
           Logs!daemon, Logs!reading, Logs!channels, Logs!screen, Logs!pumping
  <1>2. \A s \in Logs!Sources : s \in scanners' \/ producer' = "opening" =>
          (s \in scanners \/ producer = "opening") /\ Pushed(s)' = Pushed(s)
    BY <1>1 DEF Pushed, Taken
  <1>. QED
    BY <1>1, <1>2, ElsewhereKeepsOrder DEF LogInv

\* What a scanner puts in the channel follows what it put there before.
LEMMA PushKeepsOrder ==
  ASSUME LogInv, NEW r \in Logs!Sources, Logs!Push(r)
  PROVE  Ordered'
  <1>1. /\ lines' = Append(lines, Logs!Line(r, scanned[r])) /\ scanned[r] # 0
        /\ scanned' = [scanned EXCEPT ![r] = 0]
        /\ UNCHANGED <<buffer, pump, message, scanners, producer, copier, copied>>
    BY DEF Logs!Push, Logs!screen, Logs!pumping
  <1>2. /\ scanned \in [Logs!Sources -> 0..MaxWrites] /\ lines \in Seq(Logs!Entries)
        /\ r \in scanners /\ MaxWrites \in Nat /\ scanned[r] = Taken(r) /\ copied[r] \in Nat
    BY <1>1, LogsAssumption DEF LogInv, ReadInOrder, Logs!TypeOK
  <1>3. /\ Logs!Line(r, scanned[r]) \in Logs!Entries /\ Logs!Line(r, scanned[r]).kind = "line"
        /\ Logs!Line(r, scanned[r]).of = r /\ Logs!Line(r, scanned[r]).n = scanned[r]
    BY <1>2, LinesAreEntries DEF Logs!Line
  <1>. SUFFICES ASSUME NEW s \in Logs!Sources
               PROVE  \E first, last, end \in Nat :
                        InBuffer(s, first, last)' /\ (Live' => Coming(s, last, end)')
    BY DEF Ordered
  <1>4. PICK first \in Nat, last \in Nat, end \in Nat : InBuffer(s, first, last) /\ (Live => Coming(s, last, end))
    BY DEF LogInv, Ordered
  <1>5. InBuffer(s, first, last)'
    BY <1>1, <1>4 DEF InBuffer
  <1>6. (Live' <=> Live) /\ (Sent(s)' <=> Sent(s)) /\ Told(s, last)' = Told(s, last) /\ Told(s, last) \in Nat
    BY <1>1 DEF Live, Sent, Told
  <1>7. CASE ~Live
    BY <1>5, <1>6, <1>7
  <1>8. CASE Live /\ s = r
    <2>1. /\ Told(s, last) <= end /\ Runs(lines, s, Told(s, last) + 1, end) /\ end = Pushed(s)
          /\ Sent(s) => message.n = last + 1
      BY <1>2, <1>4, <1>8 DEF Coming
    <2>2. scanned[r] = end + 1 /\ Pushed(s)' = end + 1
      BY <1>1, <1>2, <1>8, <2>1 DEF Pushed, Taken
    <2>3. Runs(lines', s, Told(s, last) + 1, end + 1)
      BY <1>1, <1>2, <1>3, <1>6, <1>8, <2>1, <2>2, RunsAppend
    <2>4. Coming(s, last, end + 1)'
      BY <1>1, <1>6, <2>1, <2>2, <2>3 DEF Coming
    <2>. QED
      BY <1>5, <2>4
  <1>9. CASE Live /\ s # r
    <2>1. /\ Told(s, last) <= end /\ Runs(lines, s, Told(s, last) + 1, end)
          /\ Sent(s) => message.n = last + 1
          /\ s \in scanners \/ producer = "opening" => end = Pushed(s)
      BY <1>4, <1>9 DEF Coming
    <2>2. Pushed(s)' = Pushed(s)
      BY <1>1, <1>2, <1>9 DEF Pushed, Taken
    <2>3. Runs(lines', s, Told(s, last) + 1, end)
      BY <1>1, <1>2, <1>3, <1>6, <1>9, <2>1, RunsAppend
    <2>4. Coming(s, last, end)'
      BY <1>1, <1>6, <2>1, <2>2, <2>3 DEF Coming
    <2>. QED
      BY <1>5, <2>4
  <1>. QED
    BY <1>7, <1>8, <1>9

\* What comes to the buffer follows what it holds, and what falls out of it was its first.
LEMMA BufferGrows ==
  ASSUME Logs!TypeOK, NEW e \in Logs!Entries, buffer' = Logs!Trimmed(Append(buffer, e)),
         NEW s \in Logs!Sources, NEW first \in Nat, NEW last \in Nat, InBuffer(s, first, last)
  PROVE  /\ e.kind = "line" /\ e.of = s /\ e.n = last + 1 => \E c \in Nat : InBuffer(s, c, last + 1)'
         /\ ~(e.kind = "line" /\ e.of = s) => \E c \in Nat : InBuffer(s, c, last)'
  <1>1. /\ buffer \in Seq(Logs!Entries) /\ Len(buffer) <= MaxLines
        /\ first >= 1 /\ first <= last + 1 /\ Runs(buffer, s, first, last)
        /\ Len(buffer) < MaxLines => first = 1
    BY DEF Logs!TypeOK, InBuffer
  <1>2. PICK q \in Seq(Logs!Entries) : q = Append(buffer, e) /\ Len(q) = Len(buffer) + 1
    <2>1. Append(buffer, e) \in Seq(Logs!Entries) /\ Len(Append(buffer, e)) = Len(buffer) + 1
      BY <1>1
    <2>. QED
      BY <2>1
  <1>3. Len(buffer) \in Nat /\ Len(q) <= MaxLines + 1 /\ MaxLines \in Nat
    <2>1. Len(buffer) \in Nat
      BY <1>1
    <2>. QED
      BY <1>1, <1>2, <2>1, LogsAssumption
  <1>4. ASSUME NEW b \in {last, last + 1}, Runs(q, s, first, b)
        PROVE  \E c \in Nat : InBuffer(s, c, b)'
    <2>1. b \in Nat /\ first <= b + 1
      BY <1>1
    <2>2. PICK c \in {first, first + 1} :
            /\ c <= b + 1 /\ Runs(Logs!Trimmed(q), s, c, b)
            /\ Len(Logs!Trimmed(q)) < MaxLines => c = first /\ Len(q) < MaxLines
      BY <1>3, <1>4, <2>1, RunsTrimmed
    <2>3. buffer' = Logs!Trimmed(q)
      BY <1>2
    <2>4. Len(buffer') < MaxLines => c = 1
      BY <1>1, <1>2, <1>3, <2>2, <2>3
    <2>5. c \in Nat /\ c >= 1
      BY <1>1
    <2>6. InBuffer(s, c, b)'
      BY <2>2, <2>3, <2>4, <2>5 DEF InBuffer
    <2>. QED
      BY <2>5, <2>6
  <1>5. ASSUME e.kind = "line", e.of = s, e.n = last + 1  PROVE  Runs(q, s, first, last + 1)
    BY <1>1, <1>2, <1>5, RunsAppend
  <1>6. ASSUME ~(e.kind = "line" /\ e.of = s)  PROVE  Runs(q, s, first, last)
    BY <1>1, <1>2, <1>6, RunsAppend
  <1>. QED
    BY <1>4, <1>5, <1>6

\* The pump takes the channel's first line, which is the next of its source, or a notice
\* after which it stops.
LEMMA PumpKeepsOrder ==
  ASSUME LogInv, Logs!PumpReads
  PROVE  Ordered'
  <1>1. /\ pump = "waiting" /\ pump' = "sent"
        /\ UNCHANGED <<buffer, scanners, producer, copier, copied, scanned>>
    BY DEF Logs!PumpReads, Logs!screen, Logs!reading
  <1>2. Live /\ \A s : ~Sent(s)
    BY <1>1 DEF Live, Sent
  <1>. SUFFICES ASSUME NEW s \in Logs!Sources
               PROVE  \E first, last, end \in Nat :
                        InBuffer(s, first, last)' /\ (Live' => Coming(s, last, end)')
    BY DEF Ordered
  <1>3. PICK first \in Nat, last \in Nat, end \in Nat : InBuffer(s, first, last) /\ Coming(s, last, end)
    BY <1>2 DEF LogInv, Ordered
  <1>4. InBuffer(s, first, last)'
    BY <1>1, <1>3 DEF InBuffer
  <1>5. CASE lines # <<>> /\ lines' = Tail(lines) /\ message' = Head(lines)
    <2>1. lines \in Seq(Logs!Entries) /\ message' = lines[1]
      BY <1>5 DEF LogInv, Logs!TypeOK
    <2>2. last <= end /\ Runs(lines, s, last + 1, end) /\ (s \in scanners \/ producer = "opening" => end = Pushed(s))
      BY <1>2, <1>3 DEF Coming, Told
    <2>3. Pushed(s)' = Pushed(s)
      BY <1>1 DEF Pushed, Taken
    <2>4. CASE lines[1].kind = "line" /\ lines[1].of = s
      <3>1. lines[1].n = last + 1 /\ last + 1 <= end /\ Runs(lines', s, (last + 1) + 1, end)
        BY <1>5, <2>1, <2>2, <2>4, RunsTail
      <3>2. Sent(s)' /\ Told(s, last)' = last + 1
        BY <1>1, <2>1, <2>4 DEF Sent, Told
      <3>3. Coming(s, last, end)'
        BY <1>1, <2>1, <2>2, <2>3, <3>1, <3>2 DEF Coming
      <3>. QED
        BY <1>4, <3>3
    <2>5. CASE ~(lines[1].kind = "line" /\ lines[1].of = s)
      <3>1. Runs(lines', s, last + 1, end)
        BY <1>5, <2>1, <2>2, <2>5, RunsTail
      <3>2. ~Sent(s)' /\ Told(s, last)' = last
        BY <2>1, <2>5 DEF Sent, Told
      <3>3. Coming(s, last, end)'
        BY <1>1, <2>2, <2>3, <3>1, <3>2 DEF Coming
      <3>. QED
        BY <1>4, <3>3
    <2>. QED
      BY <2>4, <2>5
  <1>6. CASE message' = Logs!Notice("done")
    <2>1. ~Live'
      BY <1>1, <1>6, NoticesAreEntries DEF Live
    <2>. QED
      BY <1>3, <1>4, <2>1
  <1>7. CASE errs # <<>> /\ message' = Head(errs)
    <2>1. errs \in Seq(Logs!Entries)
      BY DEF LogInv, Logs!TypeOK
    <2>2. 1 \in DOMAIN errs /\ message' = errs[1]
      BY <1>7, <2>1
    <2>3. message'.kind = "error"
      BY <2>2 DEF LogInv, ErrorsOnly
    <2>4. ~Live'
      BY <1>1, <2>3 DEF Live
    <2>. QED
      BY <1>3, <1>4, <2>4
  <1>. QED
    BY <1>5, <1>6, <1>7 DEF Logs!PumpReads

\* What is delivered to the view on the screen is put under what it shows; what comes to
\* another is lost, and the pump stops with it.
LEMMA DeliveredKeepsOrder ==
  ASSUME LogInv, Logs!Delivered
  PROVE  Ordered'
  <1>1. /\ pump = "sent" /\ pump' \in {"waiting", "none"}
        /\ UNCHANGED <<lines, scanners, producer, copier, copied, scanned>>
    BY DEF Logs!Delivered, Logs!reading, Logs!channels
  <1>2. \A s, last : ~Sent(s)' /\ Told(s, last)' = last
    BY <1>1 DEF Sent, Told
  <1>. SUFFICES ASSUME NEW s \in Logs!Sources
               PROVE  \E first, last, end \in Nat :
                        InBuffer(s, first, last)' /\ (Live' => Coming(s, last, end)')
    BY DEF Ordered
  <1>3. PICK first \in Nat, last \in Nat, end \in Nat : InBuffer(s, first, last) /\ (Live => Coming(s, last, end))
    BY DEF LogInv, Ordered
  <1>4. Logs!TypeOK /\ message \in Logs!Entries
    BY DEF LogInv, Logs!TypeOK
  <1>5. Pushed(s)' = Pushed(s)
    BY <1>1 DEF Pushed, Taken
  <1>6. CASE buffer' = buffer /\ (message.kind = "init" \/ pump' = "none")
    <2>1. InBuffer(s, first, last)'
      BY <1>3, <1>6 DEF InBuffer
    <2>2. CASE pump' = "none"
      <3>1. ~Live'
        BY <2>2 DEF Live
      <3>. QED
        BY <2>1, <3>1
    <2>3. CASE message.kind = "init"
      <3>1. Live /\ ~Sent(s) /\ Told(s, last) = last
        BY <1>1, <2>3 DEF Live, Sent, Told
      <3>2. Coming(s, last, end)'
        BY <1>1, <1>2, <1>3, <1>5, <3>1 DEF Coming
      <3>. QED
        BY <2>1, <3>2
    <2>. QED
      BY <1>6, <2>2, <2>3
  <1>7. CASE /\ buffer' = Logs!Trimmed(Append(buffer, message))
             /\ message.kind = "line"
    <2>1. Live
      BY <1>1, <1>7 DEF Live
    <2>2. CASE message.of = s
      <3>1. Sent(s) /\ Told(s, last) = last + 1
        BY <1>1, <1>7, <2>2 DEF Sent, Told
      <3>2. PICK c \in Nat : InBuffer(s, c, last + 1)'
        <4>1. message.n = last + 1
          BY <1>3, <2>1, <3>1 DEF Coming
        <4>. QED
          BY <1>3, <1>4, <1>7, <2>2, <4>1, BufferGrows
      <3>3. Coming(s, last + 1, end)'
        BY <1>1, <1>2, <1>3, <1>5, <2>1, <3>1 DEF Coming
      <3>. QED
        BY <3>2, <3>3
    <2>3. CASE message.of # s
      <3>1. ~Sent(s) /\ Told(s, last) = last
        BY <2>3 DEF Sent, Told
      <3>2. PICK c \in Nat : InBuffer(s, c, last)'
        BY <1>3, <1>4, <1>7, <2>3, BufferGrows
      <3>3. Coming(s, last, end)'
        BY <1>1, <1>2, <1>3, <1>5, <2>1, <3>1 DEF Coming
      <3>. QED
        BY <3>2, <3>3
    <2>. QED
      BY <2>2, <2>3
  <1>8. CASE /\ buffer' = Logs!Trimmed(Append(buffer, message))
             /\ message.kind # "line" /\ pump' = "none"
    <2>1. PICK c \in Nat : InBuffer(s, c, last)'
      BY <1>3, <1>4, <1>8, BufferGrows
    <2>2. ~Live'
      BY <1>8 DEF Live
    <2>. QED
      BY <2>1, <2>2
  <1>. QED
    BY <1>6, <1>7, <1>8 DEF Logs!Delivered

\* A mark is no line, wherever it comes.
LEMMA MarkKeepsOrder ==
  ASSUME LogInv, Logs!Mark
  PROVE  Ordered'
  <1>1. /\ buffer' = Logs!Trimmed(Append(buffer, Logs!Notice("mark")))
        /\ UNCHANGED <<pump, message, lines, scanners, producer, copier, copied, scanned>>
    BY DEF Logs!Mark, Logs!reading, Logs!channels, Logs!pumping
  <1>. SUFFICES ASSUME NEW s \in Logs!Sources
               PROVE  \E first, last, end \in Nat :
                        InBuffer(s, first, last)' /\ (Live' => Coming(s, last, end)')
    BY DEF Ordered
  <1>2. PICK first \in Nat, last \in Nat, end \in Nat : InBuffer(s, first, last) /\ (Live => Coming(s, last, end))
    BY DEF LogInv, Ordered
  <1>3. PICK c \in Nat : InBuffer(s, c, last)'
    <2>1. Logs!Notice("mark") \in Logs!Entries /\ Logs!Notice("mark").kind # "line"
      BY NoticesAreEntries
    <2>. QED
      BY <1>1, <1>2, <2>1, BufferGrows DEF LogInv
  <1>4. Live' => Coming(s, last, end)'
    BY <1>1, <1>2 DEF Live, Coming, Sent, Told, Pushed, Taken
  <1>. QED
    BY <1>3, <1>4

LEMMA ErrorsOnlyKeeps ==
  ASSUME ErrorsOnly, Logs!Next
  PROVE  ErrorsOnly'
  <1>1. errs' \in {errs, <<>>, <<Logs!Notice("error")>>}
    BY DEF Logs!Next, Logs!Producing, Logs!Write, Logs!StreamEnds, Logs!Opened, Logs!Copy, Logs!CopyEnds,
           Logs!Scan, Logs!ScanFails, Logs!Push, Logs!ScannerEnds, Logs!AllRead, Logs!Close, Logs!StopStreaming,
           Logs!PumpReads, Logs!Delivered, Logs!Leave, Logs!Return, Logs!Mark, Logs!channels
  <1>2. Logs!Notice("error").kind = "error"
    BY NoticesAreEntries
  <1>. QED
    BY <1>1, <1>2 DEF ErrorsOnly

LEMMA LogStep ==
  ASSUME LogInv, Logs!Next
  PROVE  LogInv'
  <1>1. Logs!TypeOK'
    BY ProducingKeepsType, ViewKeepsType DEF LogInv, Logs!Next
  <1>2. ReadInOrder' /\ ErrorsOnly'
    BY ReadInOrderKeeps, ErrorsOnlyKeeps DEF LogInv
  <1>3. Ordered'
    BY GoroutinesKeepOrder, OthersKeepOrder, PushKeepsOrder, PumpKeepsOrder, DeliveredKeepsOrder,
       MarkKeepsOrder DEF Logs!Next, Logs!Producing
  <1>. QED
    BY <1>1, <1>2, <1>3 DEF LogInv

\* The buffer's order is what the reader of the logs is shown.
LEMMA BufferIsShown == LogInv => ShownInOrder
  <1>. SUFFICES ASSUME LogInv, NEW s \in Logs!Sources
               PROVE  /\ \A i, j \in Logs!ShownOf(s) : i < j => buffer[i].n < buffer[j].n
                      /\ \E first \in 1..(MaxWrites + 1), last \in 0..MaxWrites :
                           /\ {buffer[i].n : i \in Logs!ShownOf(s)} = first..last
                           /\ Len(buffer) < MaxLines => first = 1
    BY DEF ShownInOrder, Logs!ShownInOrder, LogInv
  <1>1. PICK first \in Nat, last \in Nat : InBuffer(s, first, last)
    BY DEF LogInv, Ordered
  <1>2. Logs!ShownOf(s) = At(buffer, s)
    BY DEF Logs!ShownOf, At
  <1>3. {buffer[i].n : i \in Logs!ShownOf(s)} = first..last
    BY <1>1, <1>2 DEF InBuffer, Runs
  <1>4. CASE first <= last
    <2>1. last \in first..last
      BY <1>4
    <2>2. PICK i \in DOMAIN buffer : buffer[i].n = last
      BY <1>2, <1>3, <2>1 DEF At
    <2>3. buffer[i] \in Logs!Entries
      BY DEF LogInv, Logs!TypeOK
    <2>4. last \in 0..MaxWrites
      BY <2>2, <2>3 DEF Logs!Entries
    <2>5. first \in 1..(MaxWrites + 1)
      BY <1>1, <1>4, <2>4, LogsAssumption DEF InBuffer
    <2>. QED
      BY <1>1, <1>2, <1>3, <2>4, <2>5 DEF InBuffer, Runs
  <1>5. CASE first > last
    <2>1. {buffer[i].n : i \in Logs!ShownOf(s)} = 1..0 /\ 1 \in 1..(MaxWrites + 1) /\ 0 \in 0..MaxWrites
      BY <1>3, <1>5, LogsAssumption
    <2>. QED
      BY <1>1, <1>2, <2>1 DEF InBuffer, Runs
  <1>. QED
    BY <1>1, <1>4, <1>5

\* However the scanners, the channel, the pump and the view interleave, however often the
\* view is covered and returned to, and wherever the stream is cancelled, ends or breaks:
\* of each source the buffer shows lines in the order they were written without a gap,
\* from the first one on unless it was trimmed.
THEOREM LogsInOrder == Spec => []ShownInOrder
  <1>1. Init => LogInv
    BY LogTypeInit, OrderedInit DEF Init, LogInv, Logs!Init, ErrorsOnly
  <1>2. LogInv /\ [Next]_vars => LogInv'
    <2>. SUFFICES ASSUME LogInv, [Next]_vars
                  PROVE  LogInv'
      OBVIOUS
    <2>1. CASE Logs!Next
      BY <2>1, LogStep
    <2>2. CASE UNCHANGED logs
      BY <2>2 DEF logs, LogInv, Logs!TypeOK, ReadInOrder, Taken, ErrorsOnly, Ordered, InBuffer, Live,
                  Coming, Sent, Told, Pushed
    <2>. QED
      BY <2>1, <2>2 DEF Next, vars
  <1>. QED
    BY <1>1, <1>2, BufferIsShown, PTL DEF Spec
=============================================================================
