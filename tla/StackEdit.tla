------------------------------ MODULE StackEdit ------------------------------
(***************************************************************************)
(* Editing a running stack: its services are read one by one, a compose    *)
(* file is made of them and edited, and what was written is deployed by    *)
(* the docker CLI, while others deploy beside it. A service is what the    *)
(* file tells apart of its spec, and varies in one thing at a time. What   *)
(* is only copied (user, capabilities, sysctls, logging...) is left out;   *)
(* spread stands for all that is never read (privileges, groups, generic   *)
(* resources, the preferences of placement...).                            *)
(***************************************************************************)
EXTENDS Integers, Sequences, FiniteSets

CONSTANTS
  ServiceNames,   \* numbers, as they sort
  MaxEdits,       \* bound on edits begun
  MaxOthers       \* bound on what others do

VARIABLES
  live,      \* the spec of each service, or Absent
  networks,  \* those there are: "stack_net", which is the stack's, and "net", which is not
  environ,   \* the variables the shell that runs swarmcli gives a value
  editing,   \* the step, what is still to be inspected or deployed, UnsetEnv
  read,      \* the services that were inspected
  file,      \* the compose file
  from, typed, \* of each service in the file, the one it was made of, and what was written anew
  edits, others

vars == <<live, networks, environ, editing, read, file, from, typed, edits, others>>

\* The digest that an image is pinned to is what its tag names now, what it named then, or none.
\* Of a mount, own: its name has the stack's prefix; options: a bind's propagation, a volume's
\* labels or NoCopy, the size and mode of a tmpfs. A text with a $WORD in it is "dollar",
\* and "doubled" in a file. CPUs are in ten-thousandths; -1 is unset. EnvNames are a plain
\* variable, one that the docker CLI reads itself, and GODEBUG, which it may also set.
NoMount == [kind |-> "none", own |-> FALSE, driver |-> "default", options |-> FALSE]
EnvNames == {"PLAIN", "READ", "GODEBUG"}
Plain == [image |-> "tag", digest |-> "now", command |-> [entry |-> "none", args |-> "none"],
          mount |-> NoMount, empty |-> {}, filled |-> {}, text |-> "words",
          secret |-> [target |-> "same", perms |-> "default"], port |-> [proto |-> "tcp", publish |-> "ingress"], net |-> "stack_net", aliases |-> FALSE,
          mode |-> "replicated", replicas |-> 1, endpoint |-> "vip", placed |-> FALSE, spread |-> FALSE,
          cpu |-> 0, delay |-> -1, parallelism |-> -1, health |-> "inherited", labels |-> {"namespace"}]
Features == DOMAIN Plain
Absent == [Plain EXCEPT !.mode = "absent"]

Volume(own, driver) == [kind |-> "volume", own |-> own, driver |-> driver, options |-> FALSE]
Optioned(kind) == [NoMount EXCEPT !.kind = kind, !.options = TRUE]

Specs ==
  {Plain}
  \cup {[Plain EXCEPT !.command = [entry |-> e, args |-> a]] : e \in {"none", "entry"}, a \in {"none", "args"}}
  \cup {[Plain EXCEPT !.mount = Volume(own, driver)] : own \in BOOLEAN, driver \in {"default", "nfs"}}
  \cup {[Plain EXCEPT !.mount.kind = kind] : kind \in {"bind", "anonymous", "tmpfs"}}
  \cup {[Plain EXCEPT !.mount = Optioned(kind)] : kind \in {"bind", "volume", "tmpfs"}}
  \cup {[Plain EXCEPT !.digest = d] : d \in {"then", "none"}}
  \cup {[Plain EXCEPT !.empty = {name}] : name \in EnvNames}
  \cup {[Plain EXCEPT !.secret = [target |-> t, perms |-> p]] : t \in {"same", "other"}, p \in {"default", "own"}}
  \cup {[Plain EXCEPT !.port = [proto |-> p, publish |-> m]] : p \in {"tcp", "udp"}, m \in {"ingress", "host"}}
  \cup {[Plain EXCEPT !.mode = "global", !.replicas = 0], [Plain EXCEPT !.mode = "job"]}
  \cup {[Plain EXCEPT !.cpu = n] : n \in {4, 625, 5000, 6667}} \cup {[Plain EXCEPT !.delay = n] : n \in {0, 5}}
  \cup {[Plain EXCEPT !.parallelism = n] : n \in {0, 2}}
  \cup {[Plain EXCEPT !.health = h] : h \in {"own", "NONE"}}
  \cup {[Plain EXCEPT !.text = "dollar"], [Plain EXCEPT !.net = "net"], [Plain EXCEPT !.aliases = TRUE],
        [Plain EXCEPT !.endpoint = "dnsrr"], [Plain EXCEPT !.replicas = 0],
        [Plain EXCEPT !.placed = TRUE, !.spread = TRUE], [Plain EXCEPT !.labels = @ \cup {"tier"}]}

-----------------------------------------------------------------------------
(***************************************************************************)
(* buildService: what the file says of a service                           *)
(***************************************************************************)
Unsaid == "unsaid"

CommandOf(c) == IF c.args # "none" THEN c.args ELSE c.entry

\* Anonymous volumes are left out; drivers of mounts are not in the service's own section, and
\* options nowhere.
VolumesOf(m) == IF m.kind \in {"bind", "volume", "tmpfs"} THEN m.kind ELSE Unsaid

\* escapeValues
Escaped(text) == IF text = "dollar" THEN "doubled" ELSE text

\* applyFilePerms and the target: what stack deploy fills in is left out.
SecretRef(s) == [target |-> IF s.target = "same" THEN Unsaid ELSE s.target,
                 perms |-> IF s.perms = "default" THEN Unsaid ELSE s.perms]

\* formatPort
Port(p) == IF p.proto = "tcp" THEN Unsaid ELSE p.proto

ModeOf(spec) == IF spec.mode = "replicated" THEN [mode |-> Unsaid, replicas |-> spec.replicas]
                ELSE [mode |-> IF spec.mode = "global" THEN "global" ELSE Unsaid, replicas |-> -1]

EndpointMode(e) == IF e = "vip" THEN Unsaid ELSE e

\* nanoCPUToCPUString writes three decimals, of two as near the even one: 0.0625 becomes 0.062.
CPUString(n) ==
  LET rest == n % 10
      floor == n \div 10
  IN 10 * (IF rest > 5 \/ (rest = 5 /\ floor % 2 = 1) THEN floor + 1 ELSE floor)

RestartDelay(n) == IF n > 0 THEN n ELSE -1

\* composeUpdateConfig: a block without parallelism is still a block.
UpdateConfig(n) == IF n = -1 THEN Unsaid ELSE IF n = 0 THEN "block" ELSE "parallelism"

\* composeHealthcheck
Healthcheck(h) == IF h = "inherited" THEN Unsaid ELSE IF h = "NONE" THEN "disable" ELSE h

\* filterLabels
Filtered(labels) == labels \ {"namespace"}

\* stripStackPrefix: "stack_net" and "net" are one name without it; a network that was not in
\* the listing goes by its ID.
IdOf == [stack_net |-> "id1", net |-> "id2"]
NetworkKey(n, listed) == IF listed THEN "net" ELSE IdOf[n]

\* stripImageDigest leaves the digest out.
Section(spec, listed) ==
  [image |-> spec.image, command |-> CommandOf(spec.command), volume |-> VolumesOf(spec.mount),
   relative |-> FALSE, empty |-> spec.empty, filled |-> spec.filled, text |-> Escaped(spec.text),
   secret |-> SecretRef(spec.secret), port |-> Port(spec.port),
   net |-> NetworkKey(spec.net, listed), deploy |-> ModeOf(spec), endpoint |-> EndpointMode(spec.endpoint),
   placed |-> spec.placed, cpu |-> CPUString(spec.cpu), delay |-> RestartDelay(spec.delay),
   update |-> UpdateConfig(spec.parallelism), parallelism |-> spec.parallelism,
   health |-> Healthcheck(spec.health), labels |-> Filtered(spec.labels)]

\* Top-level sections: the first service to name a thing declares it.
FirstOf(S) == CHOOSE s \in S : \A t \in S : s <= t

\* declareVolume: a driver takes the "external" away.
Volume0 == [external |-> FALSE, driver |-> "default"]
Declared(specs) ==
  LET users == {s \in DOMAIN specs : specs[s].mount.kind = "volume"}
      m == specs[FirstOf(users)].mount
  IN IF users = {} THEN Volume0 ELSE [external |-> ~m.own /\ m.driver = "default", driver |-> m.driver]

\* declareNet
External(specs, listed) ==
  [key \in {NetworkKey(specs[s].net, listed) : s \in DOMAIN specs} |->
     ~listed \/ specs[FirstOf({s \in DOMAIN specs : NetworkKey(specs[s].net, listed) = key})].net = "net"]

\* assembleCompose
Assembled(specs, listed) ==
  [services |-> [s \in DOMAIN specs |-> Section(specs[s], listed)],
   volume |-> Declared(specs), networks |-> External(specs, listed)]

-----------------------------------------------------------------------------
(***************************************************************************)
(* The docker CLI: what `docker stack deploy` makes of a section           *)
(***************************************************************************)
Or(said, default) == IF said = Unsaid THEN default ELSE said

NetworkOf(f, key) == IF key = IdOf["net"] \/ (key = "net" /\ f.networks[key]) THEN "net" ELSE "stack_net"

Converted(f, s, unset) ==
  LET c == f.services[s] IN
  [image |-> c.image, digest |-> "now", command |-> [entry |-> "none", args |-> c.command],
   mount |-> IF c.volume = "volume" THEN Volume(~f.volume.external, f.volume.driver)
             ELSE [NoMount EXCEPT !.kind = Or(c.volume, "none")],
   empty |-> c.empty \ (environ \ unset), filled |-> c.filled \cup (c.empty \cap (environ \ unset)),
   text |-> IF c.text = "doubled" THEN "dollar" ELSE IF c.text = "dollar" THEN "substituted" ELSE c.text,
   secret |-> [target |-> Or(c.secret.target, "same"), perms |-> Or(c.secret.perms, "default")],
   port |-> [proto |-> Or(c.port, "tcp"), publish |-> "ingress"],
   net |-> NetworkOf(f, c.net), aliases |-> FALSE,
   mode |-> Or(c.deploy.mode, "replicated"),
   replicas |-> IF c.deploy.replicas # -1 THEN c.deploy.replicas ELSE IF c.deploy.mode = "global" THEN 0 ELSE 1,
   endpoint |-> Or(c.endpoint, "vip"), placed |-> c.placed, spread |-> FALSE, cpu |-> c.cpu, delay |-> c.delay,
   parallelism |-> IF c.update = Unsaid THEN -1 ELSE IF c.update = "block" THEN 1 ELSE c.parallelism,
   health |-> IF c.health = "disable" THEN "NONE" ELSE Or(c.health, "inherited"),
   labels |-> c.labels \cup {"namespace"}]

-----------------------------------------------------------------------------
(***************************************************************************)
(* Reading                                                                 *)
(***************************************************************************)
Empty == [s \in {} |-> Plain]
NoFile == [services |-> [s \in {} |-> Section(Plain, TRUE)], volume |-> Volume0, networks |-> External(Empty, TRUE)]
Closed == [step |-> "closed", todo |-> {}, unset |-> {}, listed |-> TRUE]
Running == {s \in ServiceNames : live[s] # Absent}

Closes == editing' = Closed /\ read' = Empty /\ file' = NoFile /\ from' = <<>> /\ typed' = {}
Elsewhere == UNCHANGED <<live, networks, environ, others>>

\* getStackServices and the network map, which is done without when it cannot be had.
ListServices ==
  /\ editing.step = "closed" /\ edits < MaxEdits /\ edits' = edits + 1
  /\ Running # {}
  /\ \E listed \in BOOLEAN : editing' = [Closed EXCEPT !.step = "reading", !.todo = Running, !.listed = listed]
  /\ Elsewhere /\ UNCHANGED <<read, file, from, typed>>

\* One that cannot be inspected is left out of the file.
InspectService ==
  /\ editing.step = "reading" /\ editing.todo # {}
  /\ LET s == FirstOf(editing.todo) IN
       /\ editing' = [editing EXCEPT !.todo = @ \ {s}]
       /\ \/ live[s] # Absent /\ read' = [t \in DOMAIN read \cup {s} |-> IF t = s THEN live[s] ELSE read[t]]
          \/ UNCHANGED read
  /\ Elsewhere /\ UNCHANGED <<file, from, typed, edits>>

Reconstruct ==
  /\ editing.step = "reading" /\ editing.todo = {}
  /\ editing' = [editing EXCEPT !.step = "open"]
  /\ file' = Assembled(read, editing.listed)
  /\ from' = [s \in DOMAIN read |-> s] /\ typed' = {}
  /\ Elsewhere /\ UNCHANGED <<read, edits>>

-----------------------------------------------------------------------------
(***************************************************************************)
(* The editor                                                              *)
(***************************************************************************)
\* What may be written: a comment; a service scaled, renamed, left out, given another image, an
\* empty variable or a path that is not absolute; or something that means nothing.
Written(s) ==
  LET c == file.services
      rest == DOMAIN c \ {s}
      Edited(services, origins, anew) == [f |-> [file EXCEPT !.services = services], from |-> origins, typed |-> {s} \X anew]
      Says(section, anew) == Edited([c EXCEPT ![s] = section], from, anew) IN
  {Edited(c, from, {}),
   Says([c[s] EXCEPT !.deploy = [mode |-> Unsaid, replicas |-> 2]], {"mode", "replicas"}),
   Says([c[s] EXCEPT !.image = "other"], {"image", "digest"}),
   Says([c[s] EXCEPT !.empty = @ \cup {"PLAIN"}], {"empty", "filled"}),
   Says([c[s] EXCEPT !.relative = TRUE], {}),
   Edited([u \in rest |-> c[u]], [u \in rest |-> from[u]], {})}
  \cup {Edited([u \in rest \cup {t} |-> IF u = t THEN c[s] ELSE c[u]],
               [u \in rest \cup {t} |-> IF u = t THEN from[s] ELSE from[u]], {}) : t \in ServiceNames \ DOMAIN c}

\* emptyEnvByService
Empties(services) == UNION {services[s].empty : s \in DOMAIN services}
StillEmpty(f) == Empties(file.services) \cap Empties(f.services)

\* liveEmptyEnv refuses what it cannot keep empty, and withholds the rest.
Refused(f) == "GODEBUG" \in StillEmpty(f) \/ "READ" \in StillEmpty(f) \cap environ

WithheldBySection(f) ==
  UNION {file.services[s].empty \cap f.services[s].empty : s \in DOMAIN file.services \cap DOMAIN f.services} \ {"GODEBUG", "READ"}

Withheld(f) == StillEmpty(f) \ {"GODEBUG", "READ"}

ValidateStackYAML(f) == DOMAIN f.services # {}

checkBindSources(f) == \A s \in DOMAIN f.services : ~f.services[s].relative

Valid(f) == ValidateStackYAML(f) /\ checkBindSources(f)

CloseEditor ==
  /\ editing.step = "open"
  /\ \/ Closes
     \/ \E s \in DOMAIN file.services : \E w \in Written(s) :
          IF Refused(w.f) \/ ~Valid(w.f) THEN Closes
          ELSE /\ editing' = [editing EXCEPT !.step = "networks", !.todo = DOMAIN w.f.services, !.unset = Withheld(w.f)]
               /\ file' = w.f /\ from' = w.from /\ typed' = w.typed /\ UNCHANGED read
  /\ Elsewhere /\ UNCHANGED edits

-----------------------------------------------------------------------------
(***************************************************************************)
(* The deploy                                                              *)
(***************************************************************************)
CreateNetworks ==
  /\ editing.step = "networks"
  /\ networks' = networks \cup {NetworkOf(file, key) : key \in {k \in DOMAIN file.networks : ~file.networks[k]}}
  /\ editing' = [editing EXCEPT !.step = "deploying"]
  /\ UNCHANGED <<live, environ, others, read, file, from, typed, edits>>

\* The daemon does not change a service's mode.
MayBecome(s, spec) == live[s] = Absent \/ live[s].mode = spec.mode

DeployService ==
  /\ editing.step = "deploying"
  /\ \E s \in editing.todo :
       LET spec == Converted(file, s, editing.unset) IN
       /\ MayBecome(s, spec)
       /\ live' = [live EXCEPT ![s] = spec]
       /\ editing' = [editing EXCEPT !.todo = @ \ {s}]
  /\ UNCHANGED <<networks, environ, others, read, file, from, typed, edits>>

\* stackDeployArgs never prunes: what is not in the file stays as it is.
DeployEnds == editing.step = "deploying" /\ editing.todo = {} /\ Closes /\ Elsewhere /\ UNCHANGED edits

\* cleanupNetworks tries the name of every network in the file under the stack's prefix; the
\* daemon keeps one that a service uses.
CleanUp == networks \ {n \in {"stack_net"} : "net" \in DOMAIN file.networks /\ \A s \in Running : live[s].net # n}

DeployFails ==
  /\ editing.step \in {"networks", "deploying"} /\ editing.todo # {}
  /\ networks' = CleanUp /\ Closes
  /\ UNCHANGED <<live, environ, others, edits>>

\* Someone else changes or removes a service.
OtherDeploys ==
  /\ others < MaxOthers /\ others' = others + 1
  /\ \E s \in Running : live' \in {[live EXCEPT ![s] = Absent], [live EXCEPT ![s].health = "own"]}
  /\ UNCHANGED <<networks, environ, editing, read, file, from, typed, edits>>

Init ==
  /\ \E first \in ServiceNames, second \in ServiceNames : \E a \in Specs, b \in Specs \cup {Absent} :
       /\ first # second /\ (a = Plain \/ b \in {Plain, Absent} \/ (a.mount.kind = "volume" /\ b.mount.kind = "volume"))
       /\ live = [s \in ServiceNames |-> IF s = first THEN a ELSE IF s = second THEN b ELSE Absent]
  /\ networks = {"stack_net", "net"} /\ environ \in {{}, {"PLAIN", "READ"}}
  /\ editing = Closed /\ read = Empty /\ file = NoFile /\ from = <<>> /\ typed = {}
  /\ edits = 0 /\ others = 0

Next ==
  \/ ListServices \/ InspectService \/ Reconstruct \/ CloseEditor
  \/ CreateNetworks \/ DeployService \/ DeployEnds \/ DeployFails \/ OtherDeploys

Spec == Init /\ [][Next]_vars

-----------------------------------------------------------------------------
(***************************************************************************)
(* What must hold                                                          *)
(***************************************************************************)
\* Every piece of state keeps to its type.
TypeOK ==
  /\ DOMAIN live = ServiceNames /\ networks \subseteq {"stack_net", "net"}
  /\ editing.step \in {"closed", "reading", "open", "networks", "deploying"} /\ editing.todo \subseteq ServiceNames
  /\ DOMAIN read \subseteq ServiceNames /\ DOMAIN from = DOMAIN file.services
  /\ edits \in 0..MaxEdits /\ others \in 0..MaxOthers

\* What a file made of a service is known not to carry.
Clashes(s, f, key(_)) == \E t \in DOMAIN read : read[t][f] # read[s][f] /\ key(read[t][f]) = key(read[s][f])
Loses(s, f) ==
  CASE f = "digest" -> read[s].digest # "now"
    [] f = "command" -> read[s].command.entry # "none"
    [] f = "mount" -> \/ read[s].mount.kind \in {"anonymous", "tmpfs"} \/ read[s].mount.options
                      \/ read[s].mount.kind = "volume" /\ ~read[s].mount.own /\ read[s].mount.driver # "default"
                      \/ Clashes(s, "mount", LAMBDA m : m.kind)
    [] f = "net" -> Clashes(s, "net", LAMBDA n : NetworkKey(n, editing.listed))
    [] f = "port" -> read[s].port.publish = "host"
    [] f = "mode" -> read[s].mode = "job"
    [] f = "cpu" -> read[s].cpu % 10 # 0
    [] f \in {"delay", "parallelism"} -> read[s][f] = 0
    [] f \in {"spread", "aliases"} -> read[s][f]
    [] OTHER -> FALSE

\* "The running services are the source of truth" of an edit: a redeploy gives each service,
\* also one renamed, what was read of it and what was written anew, whatever the shell's own
\* environment holds and whichever services are read beside it, but for what a file is known
\* not to carry; and what is not in the file stays as it is.
ChangesOnlyTheEdit ==
  editing.step = "deploying" /\ editing'.todo # editing.todo /\ edits' = edits =>
    \A s \in ServiceNames : live'[s] # live[s] =>
      /\ s \in DOMAIN from
      /\ \A f \in Features : <<s, f>> \in typed \/ Loses(from[s], f) \/ live'[s][f] = read[from[s]][f]

EditChangesOnlyTheEdit == [][ChangesOnlyTheEdit]_vars
=============================================================================
