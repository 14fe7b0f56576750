------------------------------- MODULE SwarmOps -------------------------------
(***************************************************************************)
(* What the TUI asks of the swarm's services, nodes and configs. Each      *)
(* operation reads an object, changes its spec and writes it back with the *)
(* version it read; the daemon refuses a version that is not the object's  *)
(* own. Other users of the swarm work beside it. Secrets are rotated and   *)
(* deleted as configs are.                                                 *)
(***************************************************************************)
EXTENDS Integers, FiniteSets

CONSTANTS
  Users,      \* operations under way at once
  Services,   \* names of services, all of one stack
  MaxConfigs, \* versions of the config
  Attempts,   \* nodeUpdateMaxAttempts
  MaxOps      \* bound on operations begun and on what others do

\* A spec counts its replicas (0 when the service is global), its forced restarts and the
\* version of the config it uses (0 when it uses none).
Spec0 == [replicas |-> 0, force |-> 0, uses |-> 0]
NoSpec == [Spec0 EXCEPT !.force = -1]
None == [id |-> 0, ver |-> 0, spec |-> Spec0, prev |-> NoSpec]
Node0 == [ver |-> 1, role |-> "worker", availability |-> "active", labels |-> {}]

VARIABLES
  service,    \* of each name: its identity, version, spec and the spec before, or None
  node,       \* one node: its version, role, availability and labels
  configs,    \* the versions of the config that exist, by the number in their name
  op,         \* of each user: what is done, to what, its step, what it has read
  ops

vars == <<service, node, configs, op, ops>>

Idle == [what |-> "none", name |-> "none", on |-> 0, arg |-> 0, step |-> "idle",
         read |-> None, seen |-> Node0, left |-> {}, tries |-> 0, since |-> 0]

Exists(s) == service[s].id # 0
Ids == {service[s].id : s \in {t \in Services : Exists(t)}}
Named(id) == CHOOSE s \in Services : service[s].id = id

Become(u, step) == op' = [op EXCEPT ![u].step = step]
Done(u, ok) == Become(u, IF ok THEN "done" ELSE "failed")

-----------------------------------------------------------------------------
(***************************************************************************)
(* The daemon                                                              *)
(***************************************************************************)
UpdatedTo(svc, spec) == [svc EXCEPT !.ver = @ + 1, !.spec = spec, !.prev = svc.spec]

\* ServiceUpdate is refused when the version is old or a config does not exist.
Accepts(read, spec) ==
  /\ read.id \in Ids /\ service[Named(read.id)].ver = read.ver
  /\ spec.uses \in configs \cup {0}

\* A call may fail for what has nothing to do with the swarm's state: the operation ends there,
\* and of the node it is told from one that was refused too often.
OfTheNode == {"promote", "drain", "label"}
CallFails(u) ==
  /\ op[u].step \in {"read", "write", "each"}
  /\ Become(u, IF op[u].what \in OfTheNode THEN "erred" ELSE "failed")
  /\ UNCHANGED <<service, node, configs, ops>>

\* docker stack deploy by someone else, and their changes to the node.
Deploy(s) ==
  /\ ops < MaxOps /\ ops' = ops + 1
  /\ \E r \in {0, 2}, c \in configs \cup {0} :
       LET spec == [replicas |-> r, force |-> 0, uses |-> c]
       IN service' = [service EXCEPT ![s] = IF Exists(s) THEN UpdatedTo(@, spec)
                                            ELSE [id |-> ops + 10, ver |-> 1, spec |-> spec, prev |-> NoSpec]]
  /\ UNCHANGED <<node, configs, op>>

RelabelNode ==
  /\ ops < MaxOps /\ ops' = ops + 1
  /\ node' = [node EXCEPT !.ver = @ + 1, !.labels = {"theirs"} \cup @]
  /\ UNCHANGED <<service, configs, op>>

-----------------------------------------------------------------------------
(***************************************************************************)
(* Services                                                                *)
(***************************************************************************)
Begin(u, what, name, on, arg) ==
  /\ op[u].step \in {"idle", "done", "failed", "erred"} /\ ops < MaxOps /\ ops' = ops + 1
  /\ op' = [op EXCEPT ![u] = [Idle EXCEPT !.what = what, !.name = name, !.on = on, !.arg = arg, !.step = "read"]]
  /\ UNCHANGED <<service, node, configs>>

\* ScaleService, RestartService, RollbackService and RemoveService find it first.
FindService(u) ==
  /\ op[u].step = "read" /\ op[u].what \in {"scale", "restart", "rollback", "remove"}
  /\ LET svc == service[op[u].name]
     IN IF ~Exists(op[u].name) \/ (op[u].what = "rollback" /\ svc.prev = NoSpec) THEN Done(u, FALSE)
        ELSE IF op[u].what = "scale" /\ svc.spec.replicas = 0 THEN Done(u, FALSE)
        ELSE IF op[u].what = "scale" /\ svc.spec.replicas = op[u].arg THEN Done(u, TRUE)
        ELSE op' = [op EXCEPT ![u].step = "write", ![u].read = svc]
  /\ UNCHANGED <<service, node, configs, ops>>

\* What an operation makes of a spec it has read.
Changed(what, arg, svc) ==
  IF what = "scale" THEN [svc.spec EXCEPT !.replicas = arg]
  ELSE IF what = "restart" THEN [svc.spec EXCEPT !.force = @ + 1]
  ELSE IF what = "rotate" THEN [svc.spec EXCEPT !.uses = arg]
  ELSE svc.prev

\* updateService, once: an old version is an error.
UpdateService(u) ==
  /\ op[u].step = "write" /\ op[u].what \in {"scale", "restart", "rollback"}
  /\ LET read == op[u].read
         spec == Changed(op[u].what, op[u].arg, read)
     IN IF Accepts(read, spec)
        THEN Done(u, TRUE) /\ service' = [service EXCEPT ![Named(read.id)] = UpdatedTo(@, spec)]
        ELSE Done(u, FALSE) /\ UNCHANGED service
  /\ UNCHANGED <<node, configs, ops>>

RemoveService(u) ==
  /\ op[u].step = "write" /\ op[u].what = "remove"
  /\ IF op[u].read.id \in Ids
     THEN Done(u, TRUE) /\ service' = [service EXCEPT ![Named(op[u].read.id)] = None]
     ELSE Done(u, FALSE) /\ UNCHANGED service
  /\ UNCHANGED <<node, configs, ops>>

-----------------------------------------------------------------------------
(***************************************************************************)
(* Operations on several services                                          *)
(***************************************************************************)
\* RotateConfigInServices lists those that use the old config, RemoveStack all.
ListServices(u) ==
  /\ op[u].step = "read" /\ op[u].what \in {"rotate", "remove-stack"}
  /\ LET left == {service[s] : s \in {t \in Services : Exists(t) /\ (op[u].what = "rotate" => service[t].spec.uses = op[u].on)}}
     IN IF left = {} THEN Done(u, op[u].what = "rotate")
        ELSE op' = [op EXCEPT ![u].step = "each", ![u].left = left]
  /\ UNCHANGED <<service, node, configs, ops>>

\* One after the other as they were listed; the first that fails ends it.
EachService(u) ==
  /\ op[u].step = "each"
  /\ \E read \in op[u].left :
       LET spec == Changed("rotate", op[u].arg, read)
           ok == IF op[u].what = "rotate" THEN Accepts(read, spec) ELSE read.id \in Ids
           left == op[u].left \ {read}
       IN /\ op' = [op EXCEPT ![u].left = left,
                              ![u].step = IF ~ok THEN "failed" ELSE IF left = {} THEN "done" ELSE "each"]
          /\ service' = IF ~ok THEN service
                        ELSE [service EXCEPT ![Named(read.id)] =
                                IF op[u].what = "rotate" THEN UpdatedTo(@, spec) ELSE None]
  /\ UNCHANGED <<node, configs, ops>>

-----------------------------------------------------------------------------
(***************************************************************************)
(* Configs                                                                 *)
(***************************************************************************)
\* CreateConfigVersion counts on from the version it is based on; the name must be free.
CreateVersion(u) ==
  /\ op[u].step = "read" /\ op[u].what = "create"
  /\ IF op[u].on + 1 \in configs THEN Done(u, FALSE) /\ UNCHANGED configs
     ELSE Done(u, TRUE) /\ configs' = configs \cup {op[u].on + 1}
  /\ UNCHANGED <<service, node, ops>>

Using(c) == {s \in Services : Exists(s) /\ service[s].spec.uses = c}

\* DeleteConfig asks who uses it, then has it removed; the daemon asks again.
CheckConfig(u) ==
  /\ op[u].step = "read" /\ op[u].what = "delete"
  /\ IF op[u].on \notin configs \/ Using(op[u].on) # {} THEN Done(u, FALSE) ELSE Become(u, "write")
  /\ UNCHANGED <<service, node, configs, ops>>

DeleteConfig(u) ==
  /\ op[u].step = "write" /\ op[u].what = "delete"
  /\ IF op[u].on \notin configs \/ Using(op[u].on) # {} THEN Done(u, FALSE) /\ UNCHANGED configs
     ELSE Done(u, TRUE) /\ configs' = configs \ {op[u].on}
  /\ UNCHANGED <<service, node, ops>>

-----------------------------------------------------------------------------
(***************************************************************************)
(* The node                                                                *)
(***************************************************************************)
InspectNodeOnce(u) ==
  /\ op[u].step = "read" /\ op[u].what \in OfTheNode
  /\ op' = [op EXCEPT ![u].step = "write",
                      ![u].seen = IF op[u].tries = 0 THEN node ELSE [op[u].seen EXCEPT !.ver = node.ver],
                      ![u].since = IF op[u].tries = 0 THEN node.ver ELSE @]
  /\ UNCHANGED <<service, node, configs, ops>>

InspectNode(u) ==
  /\ op[u].step = "read" /\ op[u].what \in OfTheNode
  /\ op' = [op EXCEPT ![u].step = "write", ![u].seen = node, ![u].since = IF op[u].tries = 0 THEN node.ver ELSE @]
  /\ UNCHANGED <<service, node, configs, ops>>

Mutated(what, n) ==
  IF what = "promote" THEN [n EXCEPT !.role = "manager"]
  ELSE IF what = "drain" THEN [n EXCEPT !.availability = "drain"]
  ELSE [n EXCEPT !.labels = @ \cup {"ours"}]

\* An old version is no error: the node is inspected anew, so many times.
Retry(u) ==
  IF op[u].tries + 1 < Attempts THEN op' = [op EXCEPT ![u].tries = @ + 1, ![u].step = "read"] ELSE Done(u, FALSE)

UpdateNode(u) ==
  /\ op[u].step = "write" /\ op[u].what \in OfTheNode
  /\ IF op[u].seen.ver = node.ver
     THEN Done(u, TRUE) /\ node' = [Mutated(op[u].what, op[u].seen) EXCEPT !.ver = @ + 1]
     ELSE Retry(u) /\ UNCHANGED node
  /\ UNCHANGED <<service, configs, ops>>

-----------------------------------------------------------------------------
Init ==
  /\ service \in [Services -> {None, [None EXCEPT !.id = 1, !.spec.replicas = 1, !.spec.uses = 1]}]
  /\ \A s, t \in Services : s # t => service[s] = None \/ service[t] = None
  /\ node = Node0 /\ configs = {1} /\ op = [u \in Users |-> Idle] /\ ops = 0

Begun(u) ==
  \/ \E s \in Services : \/ Begin(u, "scale", s, 0, 2)
                         \/ \E what \in {"restart", "rollback", "remove"} : Begin(u, what, s, 0, 0)
  \/ \E c \in configs : \/ \E d \in configs \ {c} : Begin(u, "rotate", "none", c, d)
                        \/ c < MaxConfigs /\ Begin(u, "create", "none", c, 0)
                        \/ Begin(u, "delete", "none", c, 0)
  \/ \E what \in {"remove-stack", "promote", "drain", "label"} : Begin(u, what, "none", 0, 0)

Next ==
  \/ (\E s \in Services : Deploy(s)) \/ RelabelNode
  \/ \E u \in Users :
       \/ Begun(u) \/ FindService(u) \/ UpdateService(u) \/ RemoveService(u)
       \/ ListServices(u) \/ EachService(u) \/ CreateVersion(u) \/ CheckConfig(u) \/ DeleteConfig(u)
       \/ InspectNode(u) \/ UpdateNode(u) \/ CallFails(u)

Spec == Init /\ [][Next]_vars

-----------------------------------------------------------------------------
(***************************************************************************)
(* What must hold                                                          *)
(***************************************************************************)
Specs == [replicas : 0..2, force : -1..MaxOps, uses : 0..MaxConfigs]

\* Every piece of state keeps to its type, and no service uses a config that is gone.
TypeOK ==
  /\ \A s \in Services : service[s].spec \in Specs /\ service[s].prev \in Specs
  /\ \A s \in Services : Exists(s) => service[s].spec.uses \in configs \cup {0}
  /\ configs \subseteq 1..MaxConfigs /\ ops \in 0..MaxOps
  /\ \A u \in Users : /\ op[u].step \in {"idle", "read", "write", "each", "done", "failed", "erred"}
                        /\ op[u].tries \in 0..(Attempts - 1)
                        /\ (op[u].step = "each" => op[u].left # {})

\* Of a service or the node, a step of an operation changes what the operation is for.
ChangesItsOwn ==
  \A u \in Users : op'[u] # op[u] =>
    /\ \A s \in Services :
         service'[s] # service[s] /\ service'[s] # None =>
           service'[s].spec = Changed(op[u].what, op[u].arg, service[s])
    /\ node' # node => node' = [Mutated(op[u].what, node) EXCEPT !.ver = node.ver + 1]

\* An operation changes of a service or the node what it is for, and leaves the rest as it
\* then is, whatever was changed since it read it: nothing another user did is undone.
KeepsWhatOthersDid == [][ChangesItsOwn]_vars

\* A change of the node whose calls do not fail otherwise gives up only when as many changes of
\* others came between as it made attempts: each refusal is another's progress.
GivesUpOnlyToOthers ==
  \A u \in Users : op[u].step = "failed" /\ op[u].what \in OfTheNode =>
    node.ver >= op[u].since + Attempts

=============================================================================
