------------------------------ MODULE Planning ------------------------------
(***************************************************************************)
(* The read-only half of the service: validate_config, build_plan,         *)
(* get_plan, preflight_plan and get_preflight (service.py) with the checks *)
(* of NonMutatingPreflight (preflight.py).  It fills the tables that       *)
(* RunService.tla takes as constants.                                      *)
(*                                                                         *)
(* A preflight takes time: it reads the plan and the clock first, then     *)
(* probes one endpoint after the other, each for up to five seconds, and   *)
(* saves its row last, while the clock runs, endpoints go up and down and  *)
(* other calls are served.  Secrets that are mounted and endpoints that    *)
(* accept a connection are both "available" here.                          *)
(***************************************************************************)
EXTENDS Naturals, Sequences, FiniteSets, SequencesExt

CONSTANTS
  Digests,      \* the digests of valid configurations
  HasProxy,     \* the digests whose configuration names a proxy
  Requested,    \* the target_components arguments clients send
  PlanIds,      \* bounds the plans built
  PreflightIds, \* bounds the preflights begun
  Nodes,        \* the checks tcp.node_ssh.* of the configured nodes, in order
  MaxTime,      \* bound on the clock
  MaxFlaps,     \* bound on endpoints going up or down
  TTL,          \* PLAN_TTL_HOURS
  None

ComponentOrder == <<"vm", "node-init", "local-rke2", "rancher", "downstream">>
Components == {ComponentOrder[i] : i \in 1..5}

\* The checks that every configuration can have; the Secrets are one check.
FixedChecks ==
  {"secrets", "known_hosts", "control_host", "vsphere", "registry", "rancher_lb", "proxy"}
Checks == FixedChecks \cup ToSet(Nodes)

ASSUME PlanningAssumption ==
  /\ HasProxy \subseteq Digests
  /\ Requested \subseteq Seq(Components \cup {"all", "other"})
  /\ MaxTime \in Nat /\ TTL \in Nat \ {0} /\ MaxFlaps \in Nat
  /\ None \notin PlanIds \cup PreflightIds
  /\ Nodes \in Seq(ToSet(Nodes)) /\ IsInjective(Nodes)  \* hostnames are unique (models.py:219-230)
  /\ ToSet(Nodes) \cap FixedChecks = {}  \* only theirs are named tcp.node_ssh.*

VARIABLES
  now,        \* the clock
  configs,    \* table validated_configs
  plans,      \* table plans; asked is history: the argument a plan was built for
  preflights, \* table preflights
  probing,    \* the preflights that are under way
  available,  \* what would pass its check now
  flaps

vars == <<now, configs, plans, preflights, probing, available, flaps>>

\* c, if the condition holds.
When(condition, c) == IF condition THEN <<c>> ELSE <<>>

-----------------------------------------------------------------------------
(* Plans.                                                                  *)

\* [name for name in COMPONENT_ORDER if name in names]
Selected(names) ==
  When("vm" \in names, "vm") \o When("node-init" \in names, "node-init")
    \o When("local-rke2" \in names, "local-rke2") \o When("rancher" \in names, "rancher")
    \o When("downstream" \in names, "downstream")

\* Bug: the client's order is kept.
NormalizeComponentsAsGiven(requested) ==
  IF requested = <<"all">> THEN ComponentOrder
  ELSE IF ToSet(requested) \subseteq Components THEN requested ELSE <<>>

\* Bug: names that are not known are dropped.
NormalizeComponentsKnown(requested) ==
  IF requested = <<"all">> THEN ComponentOrder
  ELSE Selected(ToSet(requested))

\* _normalize_components; the empty sequence is a ValueError.
NormalizeComponents(requested) ==
  IF Contains(requested, "all")
  THEN IF Len(requested) = 1 THEN ComponentOrder ELSE <<>>
  ELSE IF ToSet(requested) \subseteq Components THEN Selected(ToSet(requested)) ELSE <<>>

Workflows == {SubSeq(ComponentOrder, 1, n) : n \in 2..5}
ExecutionMode(scope) == IF scope \in Workflows THEN "WORKFLOW" ELSE "COMPONENT"
Executable(scope) == scope \in Workflows \cup {<<c>> : c \in Components}

ValidateConfig(d) ==
  /\ configs' = configs \cup {d}
  /\ UNCHANGED <<now, plans, preflights, probing, available, flaps>>

\* Bug: building a plan again renews it.
BuildPlanRenews(p, d, requested) ==
  LET scope == NormalizeComponents(requested) IN
  /\ d \in configs /\ scope # <<>>
  /\ plans' = [plans EXCEPT ![p] =
       [digest |-> d, scope |-> scope, expires |-> now + TTL,
        mode |-> ExecutionMode(scope), executable |-> Executable(scope),
        asked |-> requested]]
  /\ UNCHANGED <<now, configs, preflights, probing, available, flaps>>

BuildPlan(p, d, requested) ==
  LET scope == NormalizeComponents(requested) IN
  /\ plans[p] = None
  /\ d \in configs /\ scope # <<>>
  /\ plans' = [plans EXCEPT ![p] =
       [digest |-> d, scope |-> scope, expires |-> now + TTL,
        mode |-> ExecutionMode(scope), executable |-> Executable(scope),
        asked |-> requested]]
  /\ UNCHANGED <<now, configs, preflights, probing, available, flaps>>

\* The state get_plan and get_preflight reply with.
PlanState(p) == IF plans[p].expires <= now THEN "EXPIRED" ELSE "PLANNED"
PreflightState(f) == IF preflights[f].expires <= now THEN "EXPIRED" ELSE preflights[f].state

-----------------------------------------------------------------------------
(* Preflights.                                                             *)

\* The checks in the list of a preflight of the plan, in the order they are made.
Listed(plan) ==
  <<"secrets">> \o When(Contains(plan.scope, "vm"), "known_hosts")
    \o <<"control_host">> \o Nodes \o <<"vsphere", "registry">>
    \o When(Contains(plan.scope, "downstream"), "rancher_lb") \o <<"proxy">>

\* Bug: node checks are deferred for any plan that initialises nodes.
SkipsNodeInit(plan, c) ==
  \/ Contains(plan.scope, "node-init") /\ c \in ToSet(Nodes) \cup {"rancher_lb"}
  \/ c = "proxy" /\ plan.digest \notin HasProxy

\* Nodes and load balancer are still to be created when the plan includes vm.
Skips(plan, c) ==
  \/ Contains(plan.scope, "vm") /\ c \in ToSet(Nodes) \cup {"rancher_lb"}
  \/ c = "proxy" /\ plan.digest \notin HasProxy

PreflightBegins(f, p) ==
  /\ preflights[f] = None /\ probing[f] = None
  /\ plans[p] # None /\ PlanState(p) = "PLANNED" /\ plans[p].digest \in configs
  /\ probing' = [probing EXCEPT ![f] = [plan |-> p, checks |-> <<>>]]
  /\ UNCHANGED <<now, configs, plans, preflights, available, flaps>>

\* The next check, answered by what is available at its own moment.
Check(plan, c) ==
  [name |-> c, status |-> IF Skips(plan, c) THEN "SKIPPED"
                          ELSE IF c \in available THEN "PASSED" ELSE "FAILED"]

Probe(f) ==
  /\ probing[f] # None
  /\ LET plan == plans[probing[f].plan]
         next == Len(probing[f].checks) + 1 IN
     /\ next \in DOMAIN Listed(plan)
     /\ probing' = [probing EXCEPT ![f].checks = Append(@, Check(plan, Listed(plan)[next]))]
  /\ UNCHANGED <<now, configs, plans, preflights, available, flaps>>

Verdict(checks) ==
  IF \E i \in DOMAIN checks : checks[i].status = "FAILED" THEN "FAILED" ELSE "PASSED"

\* Bug: the row gets a life of its own.
PreflightEndsAfresh(f) ==
  /\ probing[f] # None
  /\ LET p == probing[f].plan
         checks == probing[f].checks IN
     /\ Len(checks) = Len(Listed(plans[p]))
     /\ preflights' = [preflights EXCEPT ![f] =
          [plan |-> p, digest |-> plans[p].digest, expires |-> now + TTL,
           state |-> Verdict(checks), checks |-> checks]]
  /\ probing' = [probing EXCEPT ![f] = None]
  /\ UNCHANGED <<now, configs, plans, available, flaps>>

\* save_preflight: the row expires with its plan.
PreflightEnds(f) ==
  /\ probing[f] # None
  /\ LET p == probing[f].plan
         checks == probing[f].checks IN
     /\ Len(checks) = Len(Listed(plans[p]))
     /\ preflights' = [preflights EXCEPT ![f] =
          [plan |-> p, digest |-> plans[p].digest, expires |-> plans[p].expires,
           state |-> Verdict(checks), checks |-> checks]]
  /\ probing' = [probing EXCEPT ![f] = None]
  /\ UNCHANGED <<now, configs, plans, available, flaps>>

\* A check raises something no handler takes, or the process stops: no row.
PreflightStops(f) ==
  /\ probing[f] # None
  /\ probing' = [probing EXCEPT ![f] = None]
  /\ UNCHANGED <<now, configs, plans, preflights, available, flaps>>

-----------------------------------------------------------------------------

Flap(c) ==
  /\ flaps < MaxFlaps /\ flaps' = flaps + 1
  /\ available' = IF c \in available THEN available \ {c} ELSE available \cup {c}
  /\ UNCHANGED <<now, configs, plans, preflights, probing>>

Tick ==
  /\ now < MaxTime /\ now' = now + 1
  /\ UNCHANGED <<configs, plans, preflights, probing, available, flaps>>

Init ==
  /\ now = 0 /\ configs = {}
  /\ plans = [p \in PlanIds |-> None]
  /\ preflights = [f \in PreflightIds |-> None]
  /\ probing = [f \in PreflightIds |-> None]
  /\ available = Checks /\ flaps = 0

Next ==
  \/ \E d \in Digests : ValidateConfig(d)
  \/ \E p \in PlanIds, d \in Digests, requested \in Requested : BuildPlan(p, d, requested)
  \/ \E f \in PreflightIds :
       \/ \E p \in PlanIds : PreflightBegins(f, p)
       \/ Probe(f) \/ PreflightEnds(f) \/ PreflightStops(f)
  \/ \E c \in Checks : Flap(c)
  \/ Tick

Spec == Init /\ [][Next]_vars

-----------------------------------------------------------------------------
(* Properties.                                                             *)

Position(c) == CHOOSE i \in 1..5 : ComponentOrder[i] = c
Ordered(scope) ==
  \A i, j \in DOMAIN scope : i < j => Position(scope[i]) < Position(scope[j])

\* The components of a plan are in dependency order and none is there twice, whatever
\* order the client named them in, and a plan says it is executable exactly when
\* start_run or start_workflow takes its scope, in the mode it names: one component,
\* or everything from vm up to some component (service.py:252-287, 1327-1339).
PlansAreRunnable ==
  \A p \in PlanIds : plans[p] # None =>
    LET s == plans[p].scope
        chain == \A i \in DOMAIN s : Position(s[i]) = i
    IN /\ s # <<>> /\ Ordered(s) /\ plans[p].digest \in configs
       /\ plans[p].executable <=> Len(s) = 1 \/ chain
       /\ plans[p].mode = "WORKFLOW" <=> Len(s) > 1 /\ chain

\* A plan holds every component the client named and no other, and names that are not
\* known, or "all" next to others, lead to no plan at all (service.py:1327-1339).
PlannedAsAsked ==
  \A p \in PlanIds : plans[p] # None =>
    ToSet(plans[p].scope) =
      IF plans[p].asked = <<"all">> THEN Components ELSE ToSet(plans[p].asked)

\* What has to be there before the components of a plan can be executed: nodes and
\* load balancer only when the plan does not create them itself.
Needs(plan) ==
  {"secrets", "control_host", "vsphere", "registry"}
  \cup (IF plan.digest \in HasProxy THEN {"proxy"} ELSE {})
  \cup (IF "vm" \in ToSet(plan.scope) THEN {"known_hosts"} ELSE ToSet(Nodes))
  \cup (IF "downstream" \in ToSet(plan.scope) /\ "vm" \notin ToSet(plan.scope)
        THEN {"rancher_lb"} ELSE {})

\* A preflight that PASSED answered every check its plan needs, and one that FAILED
\* has a check that did not: a deferred check is neither (preflight.py:127-208).
PassedMeansAnswered ==
  \A f \in PreflightIds : preflights[f] # None =>
    LET checks == preflights[f].checks
        Answer(c) == {checks[i].status : i \in {j \in DOMAIN checks : checks[j].name = c}}
        needs == Needs(plans[preflights[f].plan])
    IN /\ \A c \in needs : Answer(c) \in {{"PASSED"}, {"FAILED"}}
       /\ preflights[f].state = "PASSED" <=> \A c \in needs : Answer(c) = {"PASSED"}

\* A preflight that get_preflight still reports PASSED stands for a plan that get_plan
\* still reports PLANNED, for the plan's own configuration, however long the probes
\* took and whatever expired meanwhile (service.py:304-382).
CurrentPreflightHasCurrentPlan ==
  \A f \in PreflightIds :
    preflights[f] # None /\ PreflightState(f) = "PASSED" =>
      /\ PlanState(preflights[f].plan) = "PLANNED"
      /\ preflights[f].digest = plans[preflights[f].plan].digest

\* Once a reply said PASSED, only the expiry takes it back, and an expired plan or
\* preflight never becomes current again.
ExpiryIsFinal ==
  [][/\ \A p \in PlanIds : plans[p] # None /\ PlanState(p) = "EXPIRED" => PlanState(p)' = "EXPIRED"
     /\ \A f \in PreflightIds : preflights[f] # None =>
          PreflightState(f)' \in {PreflightState(f), "EXPIRED"}]_vars
=============================================================================
