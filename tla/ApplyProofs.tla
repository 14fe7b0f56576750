---------------------------- MODULE ApplyProofs ----------------------------
(***************************************************************************)
(* What holds of Apply for any number of releases, waves, files, appliers  *)
(* and applies.                                                            *)
(***************************************************************************)
EXTENDS Apply, WellFoundedInduction, TLAPS

\* An apply knows its plan until it returns, and reads only what it waits for.
Shape ==
  /\ DOMAIN action = Clients
  /\ todo \in [Clients -> SUBSET Releases] /\ wrote \in [Clients -> SUBSET Releases]
  /\ unread \in [Clients -> SUBSET Releases] /\ unsettled \in [Clients -> SUBSET Releases]
  /\ \A c \in Clients : pc[c] # "wait" => unread[c] = {}

\* With nobody else writing, what was found as wanted stays as wanted.
PlanStands ==
  \A c \in Clients : alone[c] /\ pc[c] # "idle" =>
    \A r \in Declared(file[c]) : action[c][r] = "unchanged" => PlanAction(file[c], r) = "unchanged"

\* An apply that reports success leaves nothing for the same file to do.
SuccessIsNoop ==
  \A c \in Clients : alone[c] /\ pc[c] = "idle" /\ result[c] = "ok" =>
    \A r \in Declared(file[c]) : PlanAction(file[c], r) = "unchanged"

\* What has gone out since the last barrier is of one wave, none later than what is to come.
WavesInOrder ==
  \A c \in Clients : \A r \in wrote[c] :
    /\ \A s \in wrote[c] : Wave[r] = Wave[s]
    /\ \A s \in todo[c] : Wave[r] <= Wave[s]

\* In a prompt swarm what is unsettled shows it, and the barrier has yet to read it.
BarrierAwaits ==
  prompt =>
    /\ \A r \in Releases : health[r] # "unbegun"
    /\ \A c \in Clients :
         /\ unsettled[c] \subseteq wrote[c]
         /\ pc[c] = "wait" => unsettled[c] \subseteq unread[c]
         /\ \A r \in unsettled[c] : health[r] \in {"progressing", "wedged"}

Inv ==
  /\ TypeOK /\ Shape
  /\ ReapplyIsNoop /\ PlanStands /\ SuccessIsNoop
  /\ WavesInOrder /\ BarrierAwaits

-----------------------------------------------------------------------------
(***************************************************************************)
(* The plan order                                                          *)
(***************************************************************************)

Least(r, T) == r \in T /\ \A s \in T \ {r} : Before(r, s)

\* The releases to come have a first one: Before is a total order of them, whatever
\* their waves.  By induction on the highest number among them.
LEMMA FirstExists ==
  ASSUME NEW T \in SUBSET Releases, T # {}
  PROVE  \E r \in T : Least(r, T)
  <1>. DEFINE Bad == {n \in Nat : n <= NumReleases /\
                        \E U \in SUBSET (1..n) : U # {} /\ \A r \in U : ~ Least(r, U)}
  <1>0. NumReleases \in Nat /\ Wave \in [Releases -> Int]
    BY ApplyAssumption
  <1>1. Bad = {}
    <2>. SUFFICES ASSUME Bad # {}  PROVE  FALSE
      OBVIOUS
    <2>1. PICK n \in Bad : \A m \in Bad : ~ (<<m, n>> \in OpToRel(<, Nat))
      <3>1. IsWellFoundedOn(OpToRel(<, Nat), Nat) /\ Bad \subseteq Nat
        BY NatLessThanWellFounded
      <3>. HIDE DEF OpToRel, Bad
      <3>. QED
        BY <3>1, WFMin
    <2>2. PICK U \in SUBSET (1..n) : U # {} /\ \A r \in U : ~ Least(r, U)
      OBVIOUS
    <2>3. n \in Nat /\ n # 0 /\ n <= NumReleases
      <3>1. n \in Nat /\ n <= NumReleases
        OBVIOUS
      <3>2. n = 0 => 1..n = {}
        OBVIOUS
      <3>. QED
        BY <2>2, <3>1, <3>2
    <2>4. n - 1 \notin Bad
      <3>1. <<n - 1, n>> \in OpToRel(<, Nat)
        BY <2>3 DEF OpToRel
      <3>. HIDE DEF Bad
      <3>. QED
        BY <2>1, <3>1, Zenon
    <2>5. U \ {n} \in SUBSET (1..(n - 1))
      BY <2>3
    <2>6. U # {n}
      BY <2>2 DEF Least
    <2>7. PICK m \in U \ {n} : Least(m, U \ {n})
      <3>1. U \ {n} # {}
        BY <2>2, <2>6
      <3>2. n - 1 \in Nat /\ n - 1 <= NumReleases
        BY <1>0, <2>3
      <3>. QED
        BY <2>4, <2>5, <3>1, <3>2
    <2>8. U \subseteq Releases
      BY <1>0, <2>3 DEF Releases
    <2>9. \A r \in U : r \in Int /\ Wave[r] \in Int
      BY <1>0, <2>8 DEF Releases
    <2>10. CASE n \in U /\ Before(n, m)
      <3>1. Least(n, U)
        BY <2>7, <2>9, <2>10 DEF Least, Before
      <3>. QED
        BY <2>2, <2>10, <3>1
    <2>11. CASE n \notin U \/ Before(m, n)
      <3>1. Least(m, U)
        BY <2>7, <2>11 DEF Least
      <3>. QED
        BY <2>2, <3>1
    <2>12. n \in U => Before(n, m) \/ Before(m, n)
      BY <2>7, <2>9 DEF Before
    <2>. QED
      BY <2>10, <2>11, <2>12
  <1>2. NumReleases \notin Bad
    BY <1>1
  <1>. QED
    BY <1>0, <1>2 DEF Releases

\* The next release is one of those to come, of their earliest wave.
LEMMA NextIsEarliest ==
  ASSUME Shape, NEW c \in Clients, todo[c] # {}
  PROVE  /\ NextRelease(c) \in todo[c] /\ NextRelease(c) \in Releases
         /\ \A s \in todo[c] : Wave[NextRelease(c)] <= Wave[s]
  <1>1. todo[c] \in SUBSET Releases
    BY DEF Shape
  <1>2. \E r \in todo[c] : \A s \in todo[c] \ {r} : Before(r, s)
    BY <1>1, FirstExists DEF Least
  <1>3. /\ NextRelease(c) \in todo[c]
        /\ \A s \in todo[c] \ {NextRelease(c)} : Before(NextRelease(c), s)
    BY <1>2 DEF NextRelease
  <1>4. \A r \in Releases : Wave[r] \in Int
    BY ApplyAssumption
  <1>. QED
    BY <1>1, <1>3, <1>4 DEF Before

-----------------------------------------------------------------------------
LEMMA InitInv == Init => Inv
  <1>. SUFFICES ASSUME Init  PROVE  Inv
    OBVIOUS
  <1>1. /\ \A c \in Clients : /\ pc[c] = "idle" /\ file[c] = NoFile /\ action[c] = NoPlan
                              /\ todo[c] = {} /\ wrote[c] = {} /\ unread[c] = {}
                              /\ unsettled[c] = {} /\ result[c] = "none"
        /\ Declared(NoFile) = {}
    BY DEF Init, Declared, NoFile, NoPlan
  <1>2. TypeOK
    <2>1. current \in [Releases -> {Absent} \cup
            [content : Contents, owner : {NoOwner} \cup {f.owner : f \in Files}]]
      BY ApplyAssumption DEF Init
    <2>2. prompt \in BOOLEAN
      BY ApplyAssumption DEF Init
    <2>3. /\ health \in [Releases -> {"converged", "progressing", "wedged", "unbegun"}]
          /\ pc \in [Clients -> {"idle", "apply", "wait"}]
          /\ file \in [Clients -> Files \cup {NoFile}]
          /\ result \in [Clients -> {"none", "ok", "failed", "cancelled"}]
          /\ alone \in [Clients -> BOOLEAN]
      BY DEF Init
    <2>4. ops \in 0..MaxOps
      <3>1. MaxOps \in Nat /\ ops = 0
        BY ApplyAssumption DEF Init
      <3>. QED
        BY <3>1
    <2>. QED
      BY <1>1, <2>1, <2>2, <2>3, <2>4 DEF TypeOK
  <1>3. Shape
    BY DEF Init, Shape
  <1>4. ReapplyIsNoop /\ PlanStands /\ SuccessIsNoop /\ WavesInOrder
    BY <1>1 DEF ReapplyIsNoop, PlanStands, SuccessIsNoop, WavesInOrder
  <1>5. BarrierAwaits
    BY <1>1 DEF Init, BarrierAwaits
  <1>. QED
    BY <1>2, <1>3, <1>4, <1>5 DEF Inv

-----------------------------------------------------------------------------
(***************************************************************************)
(* The applier's steps                                                     *)
(***************************************************************************)

LEMMA PlanKeepsInv ==
  ASSUME Inv, NEW c \in Clients, Plan(c)
  PROVE  Inv'
  <1>. PICK f \in Files :
         /\ file' = [file EXCEPT ![c] = f]
         /\ todo' = [todo EXCEPT ![c] = Declared(f)]
         /\ LET plan == [r \in Declared(f) |-> PlanAction(f, r)]
            IN IF \A r \in Declared(f) : plan[r] = "unchanged"
               THEN /\ UNCHANGED <<pc, action>>
                    /\ result' = [result EXCEPT ![c] = "ok"]
               ELSE /\ pc' = [pc EXCEPT ![c] = "apply"]
                    /\ action' = [action EXCEPT ![c] = plan]
                    /\ result' = [result EXCEPT ![c] = "none"]
    BY DEF Plan
  <1>. DEFINE plan == [r \in Declared(f) |-> PlanAction(f, r)]
  <1>1. /\ pc[c] = "idle" /\ ops < MaxOps /\ ops' = ops + 1
        /\ wrote' = [wrote EXCEPT ![c] = {}] /\ unsettled' = [unsettled EXCEPT ![c] = {}]
        /\ alone' = [alone EXCEPT ![c] = TRUE]
        /\ UNCHANGED <<prompt, current, health, unread>>
    BY DEF Plan
  <1>2. \/ /\ \A r \in Declared(f) : plan[r] = "unchanged"
           /\ pc' = pc /\ action' = action /\ result' = [result EXCEPT ![c] = "ok"]
        \/ /\ pc' = [pc EXCEPT ![c] = "apply"] /\ action' = [action EXCEPT ![c] = plan]
           /\ result' = [result EXCEPT ![c] = "none"]
    BY Zenon
  <1>. HIDE DEF plan
  <1>3. Declared(f) \subseteq Releases
    BY ApplyAssumption
  <1>4. /\ DOMAIN action = Clients /\ DOMAIN todo = Clients /\ DOMAIN wrote = Clients
        /\ DOMAIN unsettled = Clients /\ DOMAIN file = Clients /\ DOMAIN pc = Clients
        /\ DOMAIN alone = Clients /\ DOMAIN result = Clients /\ unread[c] = {}
    BY <1>1 DEF Inv, Shape, TypeOK
  <1>5. /\ file'[c] = f /\ todo'[c] = Declared(f) /\ wrote'[c] = {} /\ unsettled'[c] = {}
        /\ unread'[c] = {} /\ pc'[c] \in {"idle", "apply"}
    BY <1>1, <1>2, <1>4
  <1>6. \A d \in Clients \ {c} :
          /\ file'[d] = file[d] /\ todo'[d] = todo[d] /\ wrote'[d] = wrote[d]
          /\ unsettled'[d] = unsettled[d] /\ unread'[d] = unread[d] /\ pc'[d] = pc[d]
          /\ action'[d] = action[d] /\ alone'[d] = alone[d] /\ result'[d] = result[d]
    BY <1>1, <1>2, <1>4
  <1>7. plan = [r \in Declared(f) |-> PlanAction(f, r)]
    BY DEF plan
  <1>8. \A g, r : PlanAction(g, r)' = PlanAction(g, r)
    BY <1>1 DEF PlanAction, Unchanged
  <1>9. TypeOK'
    <2>1. ops' \in 0..MaxOps
      <3>1. ops \in 0..MaxOps /\ MaxOps \in Nat
        BY ApplyAssumption, Zenon DEF Inv, TypeOK
      <3>. QED
        BY <1>1, <3>1
    <2>2. IF pc'[c] = "idle" THEN action'[c] = NoPlan
          ELSE action'[c] \in [Declared(f) -> {"install", "upgrade", "unchanged"}]
      <3>1. plan \in [Declared(f) -> {"install", "upgrade", "unchanged"}]
        BY <1>7 DEF PlanAction
      <3>2. action[c] = NoPlan
        BY <1>1 DEF Inv, TypeOK
      <3>. QED
        BY <1>1, <1>2, <1>4, <3>1, <3>2
    <2>3. file' \in [Clients -> Files \cup {NoFile}]
      BY DEF Inv, TypeOK
    <2>4. /\ pc' \in [Clients -> {"idle", "apply", "wait"}]
          /\ result' \in [Clients -> {"none", "ok", "failed", "cancelled"}]
      BY <1>2 DEF Inv, TypeOK
    <2>5. alone' \in [Clients -> BOOLEAN]
      BY <1>1, Zenon DEF Inv, TypeOK
    <2>6. \A d \in Clients :
            /\ todo'[d] \subseteq Declared(file'[d])
            /\ wrote'[d] \subseteq Declared(file'[d]) /\ unread'[d] \subseteq wrote'[d]
            /\ unsettled'[d] \subseteq Declared(file'[d])
            /\ IF pc'[d] = "idle" THEN action'[d] = NoPlan
               ELSE action'[d] \in [Declared(file'[d]) -> {"install", "upgrade", "unchanged"}]
      BY <1>5, <1>6, <2>2 DEF Inv, TypeOK
    <2>. QED
      BY <1>1, <2>1, <2>3, <2>4, <2>5, <2>6 DEF Inv, TypeOK
  <1>10. Shape'
    <2>1. DOMAIN action' = Clients
      BY <1>2, <1>4
    <2>2. /\ todo' \in [Clients -> SUBSET Releases] /\ wrote' \in [Clients -> SUBSET Releases]
          /\ unread' \in [Clients -> SUBSET Releases] /\ unsettled' \in [Clients -> SUBSET Releases]
      BY <1>1, <1>3 DEF Inv, Shape
    <2>. QED
      BY <1>5, <1>6, <2>1, <2>2 DEF Inv, Shape
  <1>11. ReapplyIsNoop'
    BY <1>5, <1>6, <1>8 DEF Inv, ReapplyIsNoop
  <1>12. PlanStands'
    BY <1>1, <1>2, <1>4, <1>5, <1>6, <1>7, <1>8 DEF Inv, PlanStands
  <1>13. SuccessIsNoop'
    BY <1>2, <1>4, <1>5, <1>6, <1>7, <1>8 DEF Inv, SuccessIsNoop
  <1>14. WavesInOrder' /\ BarrierAwaits'
    BY <1>1, <1>5, <1>6 DEF Inv, WavesInOrder, BarrierAwaits
  <1>. QED
    BY <1>9, <1>10, <1>11, <1>12, <1>13, <1>14 DEF Inv

LEMMA SkipKeepsInv ==
  ASSUME Inv, NEW c \in Clients, Skip(c)
  PROVE  Inv'
  <1>. DEFINE r == NextRelease(c)
  <1>1. /\ r \in todo[c] /\ \A s \in todo[c] : Wave[r] <= Wave[s]
    BY NextIsEarliest DEF Inv, Skip
  <1>. HIDE DEF r
  <1>2. /\ pc[c] = "apply" /\ action[c][r] = "unchanged"
        /\ todo' = [todo EXCEPT ![c] = @ \ {r}]
        /\ UNCHANGED <<prompt, current, health, pc, file, action, wrote, unread, result, ops,
                       unsettled, alone>>
    BY DEF Skip, r
  <1>3. /\ todo'[c] = todo[c] \ {r} /\ \A d \in Clients \ {c} : todo'[d] = todo[d]
    BY <1>2 DEF Inv, Shape
  <1>4. TypeOK'
    BY <1>2, <1>3 DEF Inv, TypeOK
  <1>5. Shape'
    BY <1>2 DEF Inv, Shape
  <1>6. \A g, t : PlanAction(g, t)' = PlanAction(g, t)
    BY <1>2 DEF PlanAction, Unchanged
  <1>7. ReapplyIsNoop'
    BY <1>1, <1>2, <1>3, <1>6 DEF Inv, TypeOK, ReapplyIsNoop, PlanStands
  <1>8. PlanStands' /\ SuccessIsNoop'
    BY <1>2, <1>6 DEF Inv, PlanStands, SuccessIsNoop
  <1>9. WavesInOrder' /\ BarrierAwaits'
    BY <1>2, <1>3 DEF Inv, WavesInOrder, BarrierAwaits
  <1>. QED
    BY <1>4, <1>5, <1>7, <1>8, <1>9 DEF Inv

\* A deploy of a release by this applier or by hand leaves every other release as it was,
\* and a prompt swarm has begun it.
LEMMA WriteStores ==
  ASSUME Inv, NEW r \in Releases, NEW content \in Contents,
         NEW owner \in {NoOwner} \cup {f.owner : f \in Files}, Write(r, content, owner)
  PROVE  /\ current' \in [Releases -> {Absent} \cup
              [content : Contents, owner : {NoOwner} \cup {f.owner : f \in Files}]]
         /\ health' \in [Releases -> {"converged", "progressing", "wedged", "unbegun"}]
         /\ current'[r] = [content |-> content, owner |-> owner] /\ current'[r] # Absent
         /\ prompt => health'[r] = "progressing"
         /\ \A s \in Releases \ {r} : current'[s] = current[s] /\ health'[s] = health[s]
  <1>1. [content |-> content, owner |-> owner] # Absent
    BY ApplyAssumption DEF Absent
  <1>. QED
    BY <1>1 DEF Write, Inv, TypeOK

LEMMA DeployKeepsInv ==
  ASSUME Inv, NEW c \in Clients, Deploy(c)
  PROVE  Inv'
  <1>0. /\ NextRelease(c) \in todo[c] /\ NextRelease(c) \in Releases
        /\ \A s \in todo[c] : Wave[NextRelease(c)] <= Wave[s]
    BY NextIsEarliest DEF Inv, Deploy
  <1>. PICK r \in Releases : r = NextRelease(c)
    BY <1>0
  <1>1. r \in todo[c] /\ \A s \in todo[c] : Wave[r] <= Wave[s]
    BY <1>0
  <1>2. wrote[c] = {} \/ ~ (\A s \in wrote[c] : Wave[s] < Wave[r])
    BY <1>1 DEF Deploy, AtBarrier
  <1>3. /\ pc[c] = "apply" /\ action[c][r] # "unchanged"
        /\ Write(r, file[c].want[r], file[c].owner)
        /\ todo' = [todo EXCEPT ![c] = @ \ {r}]
        /\ wrote' = [wrote EXCEPT ![c] = @ \cup {r}]
        /\ unsettled' = [unsettled EXCEPT ![c] = @ \cup {r}]
        /\ alone' = [d \in Clients |-> d = c /\ alone[d]]
        /\ UNCHANGED <<prompt, pc, file, action, unread, result, ops>>
    BY DEF Deploy
  <1>4. /\ todo'[c] = todo[c] \ {r} /\ wrote'[c] = wrote[c] \cup {r}
        /\ unsettled'[c] = unsettled[c] \cup {r} /\ alone'[c] = alone[c]
        /\ \A d \in Clients \ {c} : /\ todo'[d] = todo[d] /\ wrote'[d] = wrote[d]
                                    /\ unsettled'[d] = unsettled[d] /\ ~ alone'[d]
    BY <1>3 DEF Inv, Shape, TypeOK
  <1>5. /\ r \in Declared(file[c]) /\ file[c] \in Files
    <2>1. todo[c] \subseteq Declared(file[c]) /\ file[c] \in Files \cup {NoFile}
      BY DEF Inv, TypeOK
    <2>2. Declared(NoFile) = {}
      BY DEF Declared, NoFile, NoPlan
    <2>. QED
      BY <1>1, <2>1, <2>2
  <1>6. file[c].want[r] \in Contents /\ file[c].owner \in {NoOwner} \cup {f.owner : f \in Files}
    BY <1>5, ApplyAssumption
  <1>7. /\ current' \in [Releases -> {Absent} \cup
             [content : Contents, owner : {NoOwner} \cup {f.owner : f \in Files}]]
        /\ health' \in [Releases -> {"converged", "progressing", "wedged", "unbegun"}]
        /\ current'[r] = [content |-> file[c].want[r], owner |-> file[c].owner] /\ current'[r] # Absent
        /\ prompt => health'[r] = "progressing"
        /\ \A s \in Releases \ {r} : current'[s] = current[s] /\ health'[s] = health[s]
    BY <1>1, <1>3, <1>6, WriteStores
  <1>8. TypeOK'
    <2>1. alone' \in [Clients -> BOOLEAN]
      BY <1>3, Zenon
    <2>2. \A d \in Clients :
            /\ todo'[d] \subseteq Declared(file'[d])
            /\ wrote'[d] \subseteq Declared(file'[d]) /\ unread'[d] \subseteq wrote'[d]
            /\ unsettled'[d] \subseteq Declared(file'[d])
            /\ IF pc'[d] = "idle" THEN action'[d] = NoPlan
               ELSE action'[d] \in [Declared(file'[d]) -> {"install", "upgrade", "unchanged"}]
      BY <1>3, <1>4, <1>5 DEF Inv, TypeOK
    <2>. QED
      BY <1>3, <1>7, <2>1, <2>2 DEF Inv, TypeOK
  <1>9. Shape'
    BY <1>1, <1>3 DEF Inv, Shape
  <1>10. \A g : g = file[c] => PlanAction(g, r)' = "unchanged"
    <2>1. current'[r].content = file[c].want[r] /\ current'[r].owner = file[c].owner
      BY <1>7
    <2>. QED
      BY <1>7, <2>1 DEF PlanAction, Unchanged
  <1>11. \A g : \A s \in Releases \ {r} : PlanAction(g, s)' = PlanAction(g, s)
    BY <1>7 DEF PlanAction, Unchanged
  <1>12. Declared(file[c]) \subseteq Releases
    BY <1>5, ApplyAssumption
  <1>13. ReapplyIsNoop'
    <2>. SUFFICES ASSUME alone'[c], NEW s \in Declared(file[c]), s \notin todo'[c]
                  PROVE  \A g : g = file[c] => PlanAction(g, s)' = "unchanged"
      BY <1>3, <1>4 DEF ReapplyIsNoop
    <2>1. CASE s = r
      BY <1>10, <2>1
    <2>2. CASE s # r
      BY <1>4, <1>11, <1>12, <2>2 DEF Inv, ReapplyIsNoop
    <2>. QED
      BY <2>1, <2>2
  <1>14. PlanStands' /\ SuccessIsNoop'
    BY <1>3, <1>4, <1>10, <1>11, <1>12 DEF Inv, PlanStands, SuccessIsNoop
  <1>15. WavesInOrder'
    <2>1. \A s \in wrote[c] \cup todo[c] : Wave[s] \in Int
      BY ApplyAssumption DEF Inv, Shape
    <2>2. \A s \in wrote[c] : Wave[s] = Wave[r]
      BY <1>1, <1>2, <2>1 DEF Inv, WavesInOrder
    <2>. QED
      BY <1>1, <1>4, <2>1, <2>2 DEF Inv, WavesInOrder
  <1>16. BarrierAwaits'
    BY <1>3, <1>4, <1>7 DEF Inv, Shape, BarrierAwaits
  <1>. QED
    BY <1>8, <1>9, <1>13, <1>14, <1>15, <1>16 DEF Inv

\* Apply returns: what it leaves is as its plan and its deploys left it.
LEMMA StopKeepsInv ==
  ASSUME Inv, NEW c \in Clients, NEW how \in {"ok", "failed", "cancelled"}, Stop(c, how),
         UNCHANGED <<prompt, current, health, file, todo, ops, alone>>,
         how = "ok" => todo[c] = {}
  PROVE  Inv'
  <1>1. /\ pc'[c] = "idle" /\ result'[c] = how /\ action'[c] = NoPlan
        /\ wrote'[c] = {} /\ unread'[c] = {} /\ unsettled'[c] = {}
        /\ \A d \in Clients \ {c} :
             /\ pc'[d] = pc[d] /\ result'[d] = result[d] /\ action'[d] = action[d]
             /\ wrote'[d] = wrote[d] /\ unread'[d] = unread[d] /\ unsettled'[d] = unsettled[d]
    BY DEF Stop, Inv, TypeOK, Shape
  <1>2. TypeOK'
    <2>1. /\ pc' \in [Clients -> {"idle", "apply", "wait"}]
          /\ result' \in [Clients -> {"none", "ok", "failed", "cancelled"}]
      BY DEF Stop, Inv, TypeOK
    <2>. QED
      BY <1>1, <2>1 DEF Inv, TypeOK
  <1>3. Shape'
    <2>1. /\ DOMAIN action' = Clients /\ todo' \in [Clients -> SUBSET Releases]
          /\ wrote' \in [Clients -> SUBSET Releases] /\ unread' \in [Clients -> SUBSET Releases]
          /\ unsettled' \in [Clients -> SUBSET Releases]
      BY DEF Stop, Inv, Shape
    <2>. QED
      BY <1>1, <2>1 DEF Inv, Shape
  <1>4. \A g, t : PlanAction(g, t)' = PlanAction(g, t)
    BY DEF PlanAction, Unchanged
  <1>5. ReapplyIsNoop' /\ PlanStands'
    BY <1>1, <1>4 DEF Inv, ReapplyIsNoop, PlanStands
  <1>6. SuccessIsNoop'
    BY <1>1, <1>4 DEF Inv, ReapplyIsNoop, SuccessIsNoop
  <1>7. WavesInOrder' /\ BarrierAwaits'
    BY <1>1 DEF Inv, WavesInOrder, BarrierAwaits
  <1>. QED
    BY <1>2, <1>3, <1>5, <1>6, <1>7 DEF Inv

\* A deploy that was recorded and failed after it: the release is not through, and
\* nobody else's apply is alone any more.
LEMMA DeployNotReadyKeepsInv ==
  ASSUME Inv, NEW c \in Clients, DeployNotReady(c)
  PROVE  Inv'
  <1>0. NextRelease(c) \in todo[c] /\ NextRelease(c) \in Releases
    BY NextIsEarliest DEF Inv, DeployNotReady
  <1>. PICK r \in Releases : r = NextRelease(c)
    BY <1>0
  <1>1. /\ Write(r, file[c].want[r], file[c].owner) /\ pc[c] = "apply"
        /\ alone' = [d \in Clients |-> d = c /\ alone[d]]
        /\ Stop(c, "failed") /\ UNCHANGED <<prompt, file, todo, ops>>
    BY DEF DeployNotReady
  <1>2. /\ pc'[c] = "idle" /\ result'[c] = "failed" /\ action'[c] = NoPlan
        /\ wrote'[c] = {} /\ unread'[c] = {} /\ unsettled'[c] = {} /\ alone'[c] = alone[c]
        /\ \A d \in Clients \ {c} :
             /\ pc'[d] = pc[d] /\ result'[d] = result[d] /\ action'[d] = action[d]
             /\ wrote'[d] = wrote[d] /\ unread'[d] = unread[d] /\ unsettled'[d] = unsettled[d]
             /\ ~ alone'[d]
    BY <1>1 DEF Stop, Inv, TypeOK, Shape
  <1>3. r \in Declared(file[c]) /\ file[c] \in Files
    <2>1. todo[c] \subseteq Declared(file[c]) /\ file[c] \in Files \cup {NoFile}
      BY DEF Inv, TypeOK
    <2>2. Declared(NoFile) = {}
      BY DEF Declared, NoFile, NoPlan
    <2>. QED
      BY <1>0, <2>1, <2>2
  <1>4. /\ file[c].want[r] \in Contents /\ file[c].owner \in {NoOwner} \cup {f.owner : f \in Files}
        /\ Declared(file[c]) \subseteq Releases
    BY <1>3, ApplyAssumption
  <1>5. /\ current' \in [Releases -> {Absent} \cup
             [content : Contents, owner : {NoOwner} \cup {f.owner : f \in Files}]]
        /\ health' \in [Releases -> {"converged", "progressing", "wedged", "unbegun"}]
        /\ prompt => health'[r] = "progressing"
        /\ \A s \in Releases \ {r} : current'[s] = current[s] /\ health'[s] = health[s]
    BY <1>1, <1>4, WriteStores
  <1>6. TypeOK'
    <2>1. /\ pc' \in [Clients -> {"idle", "apply", "wait"}]
          /\ result' \in [Clients -> {"none", "ok", "failed", "cancelled"}]
      BY <1>1 DEF Stop, Inv, TypeOK
    <2>2. alone' \in [Clients -> BOOLEAN]
      BY <1>1, Zenon
    <2>3. \A d \in Clients :
            /\ todo'[d] \subseteq Declared(file'[d])
            /\ wrote'[d] \subseteq Declared(file'[d]) /\ unread'[d] \subseteq wrote'[d]
            /\ unsettled'[d] \subseteq Declared(file'[d])
            /\ IF pc'[d] = "idle" THEN action'[d] = NoPlan
               ELSE action'[d] \in [Declared(file'[d]) -> {"install", "upgrade", "unchanged"}]
      BY <1>1, <1>2 DEF Inv, TypeOK
    <2>. QED
      BY <1>1, <1>5, <2>1, <2>2, <2>3 DEF Inv, TypeOK
  <1>7. Shape'
    <2>1. /\ DOMAIN action' = Clients /\ todo' \in [Clients -> SUBSET Releases]
          /\ wrote' \in [Clients -> SUBSET Releases] /\ unread' \in [Clients -> SUBSET Releases]
          /\ unsettled' \in [Clients -> SUBSET Releases]
      BY <1>1 DEF Stop, Inv, Shape
    <2>. QED
      BY <1>2, <2>1 DEF Inv, Shape
  <1>8. \A g : \A s \in Releases \ {r} : PlanAction(g, s)' = PlanAction(g, s)
    BY <1>5 DEF PlanAction, Unchanged
  <1>9. ReapplyIsNoop'
    BY <1>0, <1>1, <1>2, <1>4, <1>8 DEF Inv, ReapplyIsNoop
  <1>10. PlanStands' /\ SuccessIsNoop'
    BY <1>2 DEF PlanStands, SuccessIsNoop
  <1>11. WavesInOrder'
    BY <1>1, <1>2 DEF Inv, WavesInOrder
  <1>12. BarrierAwaits'
    BY <1>1, <1>2, <1>5 DEF Inv, Shape, BarrierAwaits
  <1>. QED
    BY <1>6, <1>7, <1>9, <1>10, <1>11, <1>12 DEF Inv

\* The barrier: what it reads is what the wave deployed, and when it has read it all
\* in a prompt swarm nothing of the wave is unsettled.
LEMMA BarrierKeepsInv ==
  ASSUME Inv, NEW c \in Clients, BarrierBegins(c) \/ ReadRelease(c) \/ WaveConverged(c)
  PROVE  Inv'
  <1>1. UNCHANGED <<prompt, current, health, file, action, todo, result, ops, unsettled, alone>>
    BY DEF BarrierBegins, ReadRelease, WaveConverged
  <1>2. \/ /\ pc[c] = "apply" /\ pc' = [pc EXCEPT ![c] = "wait"]
           /\ wrote' = wrote /\ unread' = [unread EXCEPT ![c] = wrote[c]]
        \/ /\ pc[c] = "wait" /\ pc' = pc /\ wrote' = wrote
           /\ \E r \in unread[c] : /\ health[r] \in {"converged", "unbegun"}
                                   /\ unread' = [unread EXCEPT ![c] = @ \ {r}]
        \/ /\ pc[c] = "wait" /\ pc' = pc /\ wrote' = wrote
           /\ unread' = [unread EXCEPT ![c] = wrote[c]]
        \/ /\ pc[c] = "wait" /\ unread[c] = {} /\ pc' = [pc EXCEPT ![c] = "apply"]
           /\ wrote' = [wrote EXCEPT ![c] = {}] /\ unread' = unread
    BY DEF BarrierBegins, ReadRelease, WaveConverged
  <1>3. /\ \A d \in Clients \ {c} : /\ pc'[d] = pc[d] /\ wrote'[d] = wrote[d]
                                    /\ unread'[d] = unread[d]
        /\ pc'[c] \in {"apply", "wait"} /\ pc[c] # "idle"
        /\ wrote'[c] \subseteq wrote[c] /\ unread'[c] \subseteq wrote'[c]
        /\ pc'[c] # "wait" => unread'[c] = {}
    BY <1>2 DEF Inv, TypeOK, Shape
  <1>4. TypeOK'
    <2>1. pc' \in [Clients -> {"idle", "apply", "wait"}]
      BY <1>2 DEF Inv, TypeOK
    <2>. QED
      BY <1>1, <1>3, <2>1 DEF Inv, TypeOK
  <1>5. Shape'
    <2>1. wrote' \in [Clients -> SUBSET Releases] /\ unread' \in [Clients -> SUBSET Releases]
      BY <1>2 DEF Inv, Shape
    <2>. QED
      BY <1>1, <1>3, <2>1 DEF Inv, Shape
  <1>6. \A g, t : PlanAction(g, t)' = PlanAction(g, t)
    BY <1>1 DEF PlanAction, Unchanged
  <1>7. ReapplyIsNoop' /\ PlanStands' /\ SuccessIsNoop'
    BY <1>1, <1>3, <1>6 DEF Inv, ReapplyIsNoop, PlanStands, SuccessIsNoop
  <1>8. WavesInOrder'
    BY <1>1, <1>3 DEF Inv, WavesInOrder
  <1>9. BarrierAwaits'
    <2>. SUFFICES ASSUME prompt
                  PROVE  unsettled[c] \subseteq wrote'[c]
                         /\ (pc'[c] = "wait" => unsettled[c] \subseteq unread'[c])
      BY <1>1, <1>3 DEF Inv, BarrierAwaits
    <2>1. /\ unsettled[c] \subseteq wrote[c]
          /\ pc[c] = "wait" => unsettled[c] \subseteq unread[c]
          /\ \A r \in unsettled[c] : health[r] \in {"progressing", "wedged"}
      BY DEF Inv, BarrierAwaits
    <2>2. DOMAIN wrote = Clients /\ DOMAIN unread = Clients /\ DOMAIN pc = Clients
      BY DEF Inv, TypeOK, Shape
    <2>3. wrote'[c] = wrote[c] \/ (pc[c] = "wait" /\ unread[c] = {})
      BY <1>2, <2>2
    <2>4. unsettled[c] \subseteq wrote'[c]
      BY <2>1, <2>3
    <2>5. pc'[c] = "wait" => unsettled[c] \subseteq unread'[c]
      BY <1>2, <2>1, <2>2
    <2>. QED
      BY <2>4, <2>5
  <1>. QED
    BY <1>4, <1>5, <1>7, <1>8, <1>9 DEF Inv

-----------------------------------------------------------------------------
(***************************************************************************)
(* Everybody else's steps                                                  *)
(***************************************************************************)

\* Once somebody has written by hand, nothing is claimed of what an apply left.
LEMMA ByHandKeepsInv ==
  ASSUME Inv, NEW r \in Releases, WrittenByHand(r) \/ UninstalledByHand(r)
  PROVE  Inv'
  <1>1. /\ alone' = [c \in Clients |-> FALSE] /\ ops < MaxOps /\ ops' = ops + 1
        /\ UNCHANGED <<prompt, pc, file, action, todo, wrote, unread, result, unsettled>>
    BY DEF WrittenByHand, UninstalledByHand
  <1>2. /\ current' \in [Releases -> {Absent} \cup
             [content : Contents, owner : {NoOwner} \cup {f.owner : f \in Files}]]
        /\ health' \in [Releases -> {"converged", "progressing", "wedged", "unbegun"}]
        /\ prompt => health'[r] = "progressing"
        /\ \A s \in Releases \ {r} : health'[s] = health[s]
    <2>1. CASE WrittenByHand(r)
      BY <2>1, WriteStores DEF WrittenByHand
    <2>2. CASE UninstalledByHand(r)
      BY <2>2 DEF UninstalledByHand, Inv, TypeOK
    <2>. QED
      BY <2>1, <2>2
  <1>3. TypeOK'
    <2>1. ops' \in 0..MaxOps
      <3>1. ops \in 0..MaxOps /\ MaxOps \in Nat
        BY ApplyAssumption, Zenon DEF Inv, TypeOK
      <3>. QED
        BY <1>1, <3>1
    <2>2. alone' \in [Clients -> BOOLEAN]
      BY <1>1
    <2>. QED
      BY <1>1, <1>2, <2>1, <2>2 DEF Inv, TypeOK
  <1>4. Shape' /\ WavesInOrder'
    BY <1>1 DEF Inv, Shape, WavesInOrder
  <1>5. ReapplyIsNoop' /\ PlanStands' /\ SuccessIsNoop'
    BY <1>1 DEF ReapplyIsNoop, PlanStands, SuccessIsNoop
  <1>6. BarrierAwaits'
    BY <1>1, <1>2 DEF Inv, Shape, BarrierAwaits
  <1>. QED
    BY <1>3, <1>4, <1>5, <1>6 DEF Inv

\* What swarm brings up is settled for everybody; nothing becomes unbegun but by a write.
LEMMA SwarmKeepsInv ==
  ASSUME Inv, NEW r \in Releases, UpdateBegins(r) \/ Converges(r) \/ Wedges(r) \/ Degrades(r)
  PROVE  Inv'
  <1>1. UNCHANGED <<prompt, current, pc, file, action, todo, wrote, unread, result, alone>>
    BY DEF UpdateBegins, Converges, Wedges, Degrades
  <1>2. /\ health' \in [Releases -> {"converged", "progressing", "wedged", "unbegun"}]
        /\ \A s \in Releases \ {r} : health'[s] = health[s]
        /\ health'[r] # "unbegun"
        /\ \A c \in Clients : unsettled'[c] \subseteq unsettled[c]
        /\ health'[r] = "converged" => \A c \in Clients : r \notin unsettled'[c]
        /\ unsettled' \in [Clients -> SUBSET Releases]
    BY DEF UpdateBegins, Converges, Wedges, Degrades, Inv, TypeOK, Shape
  <1>3. TypeOK'
    <2>1. ops' \in 0..MaxOps
      <3>1. ops \in 0..MaxOps /\ MaxOps \in Nat
        BY ApplyAssumption, Zenon DEF Inv, TypeOK
      <3>2. ops' = ops \/ (ops < MaxOps /\ ops' = ops + 1)
        BY DEF UpdateBegins, Converges, Wedges, Degrades
      <3>. QED
        BY <3>1, <3>2
    <2>2. \A c \in Clients : unsettled'[c] \subseteq Declared(file'[c])
      BY <1>1, <1>2 DEF Inv, TypeOK
    <2>. QED
      BY <1>1, <1>2, <2>1, <2>2 DEF Inv, TypeOK
  <1>4. Shape' /\ WavesInOrder'
    BY <1>1, <1>2 DEF Inv, Shape, WavesInOrder
  <1>5. \A g, t : PlanAction(g, t)' = PlanAction(g, t)
    BY <1>1 DEF PlanAction, Unchanged
  <1>6. ReapplyIsNoop' /\ PlanStands' /\ SuccessIsNoop'
    BY <1>1, <1>5 DEF Inv, ReapplyIsNoop, PlanStands, SuccessIsNoop
  <1>7. BarrierAwaits'
    BY <1>1, <1>2 DEF Inv, TypeOK, Shape, BarrierAwaits
  <1>. QED
    BY <1>3, <1>4, <1>6, <1>7 DEF Inv

-----------------------------------------------------------------------------
\* Inv is inductive, and so holds of every state of Apply.
THEOREM Invariance == Spec => []Inv
  <1>1. Inv /\ [Next]_vars => Inv'
    <2>. SUFFICES ASSUME Inv, [Next]_vars  PROVE  Inv'
      OBVIOUS
    <2>1. ASSUME NEW c \in Clients, Plan(c)  PROVE  Inv'
      BY <2>1, PlanKeepsInv
    <2>2. ASSUME NEW c \in Clients, Skip(c)  PROVE  Inv'
      BY <2>2, SkipKeepsInv
    <2>3. ASSUME NEW c \in Clients, Deploy(c)  PROVE  Inv'
      BY <2>3, DeployKeepsInv
    <2>4. ASSUME NEW c \in Clients, DeployNotReady(c)  PROVE  Inv'
      BY <2>4, DeployNotReadyKeepsInv
    <2>5. ASSUME NEW c \in Clients, BarrierBegins(c) \/ ReadRelease(c) \/ WaveConverged(c)
          PROVE  Inv'
      BY <2>5, BarrierKeepsInv
    <2>6. ASSUME NEW c \in Clients, DeployFails(c) \/ WaveFails(c)  PROVE  Inv'
      BY <2>6, StopKeepsInv DEF DeployFails, WaveFails
    <2>7. ASSUME NEW c \in Clients, Cancel(c)  PROVE  Inv'
      BY <2>7, StopKeepsInv DEF Cancel
    <2>8. ASSUME NEW c \in Clients, Finish(c)  PROVE  Inv'
      BY <2>8, StopKeepsInv DEF Finish
    <2>9. ASSUME NEW r \in Releases, WrittenByHand(r) \/ UninstalledByHand(r)  PROVE  Inv'
      BY <2>9, ByHandKeepsInv
    <2>10. ASSUME NEW r \in Releases,
                  UpdateBegins(r) \/ Converges(r) \/ Wedges(r) \/ Degrades(r)
           PROVE  Inv'
      BY <2>10, SwarmKeepsInv
    <2>11. CASE UNCHANGED vars
      <3>1. \A g, t : PlanAction(g, t)' = PlanAction(g, t)
        BY <2>11 DEF vars, PlanAction, Unchanged
      <3>. QED
        BY <2>11, <3>1 DEF vars, Inv, TypeOK, Shape, ReapplyIsNoop, PlanStands, SuccessIsNoop,
           WavesInOrder, BarrierAwaits
    <2>. QED
      BY <2>1, <2>2, <2>3, <2>4, <2>5, <2>6, <2>7, <2>8, <2>9, <2>10, <2>11 DEF Next, Applying
  <1>. QED
    BY InitInv, <1>1, PTL DEF Spec

\* Every variable of an apply keeps its type; in particular the barrier reads only what
\* the wave deployed, and a wave deploys only what the file declares.
THEOREM TypeCorrect == Spec => []TypeOK
  <1>1. Inv => TypeOK
    BY DEF Inv
  <1>. QED
    BY <1>1, Invariance, PTL

\* The barrier between waves, in a swarm that begins every update before it is first
\* read: however many waves and releases, and whoever else writes, what an apply has
\* deployed and swarm has not brought up is of one wave.
THEOREM WavesOneAtATime == Spec => []PromptWavesOneAtATime
  <1>1. Inv => PromptWavesOneAtATime
    BY DEF Inv, PromptWavesOneAtATime, OneWaveAtATime, BarrierAwaits, WavesInOrder
  <1>. QED
    BY <1>1, Invariance, PTL

\* Re-running is safe: with nobody else writing, what an apply has come to it would
\* leave alone if it planned again, however far it got.
THEOREM ReapplyChangesNothing == Spec => []ReapplyIsNoop
  <1>1. Inv => ReapplyIsNoop
    BY DEF Inv
  <1>. QED
    BY <1>1, Invariance, PTL

\* An apply that reports success, with nobody else writing, has left every declared
\* release with the file's content and under its owner.
THEOREM SuccessIsApplied == Spec => []SuccessMeansApplied
  <1>1. Inv => SuccessMeansApplied
    BY DEF Inv, SuccessMeansApplied, SuccessIsNoop, PlanAction, Unchanged
  <1>. QED
    BY <1>1, Invariance, PTL
=============================================================================
