------------------------------- MODULE Router -------------------------------
(***************************************************************************)
(* Model routing (krepis/router.py): the callers of one process find a     *)
(* registry, resolve a group or a pinned model to a route, send the        *)
(* request to the router edge or to a provider, and name the model to      *)
(* bill.  The edge is a process of its own with its own copy of the        *)
(* registry.  The registry comes from a path, from AppConfig by way of a   *)
(* cache file that all callers share, or from a walk up the file system.   *)
(* get_router builds the in-process router from the same registry.         *)
(***************************************************************************)
EXTENDS Registry

CONSTANTS Callers, InProcess,  \* threads; those that use get_router
          Versions, RegistryOf, \* the registries ever deployed
          MaxDeploys,           \* bound: deployments after the first
          MaxPolls,             \* bound: cache expiries
          MaxAgain,             \* bound: calls after the first, of all callers
          None                  \* no value yet

Torn == "torn"  \* what a reader finds while the file is rewritten

Answers == {"ok", "picked", "RegistryNotFound", "UnboundLocalError", "ValueError", "RuntimeError",
            "TransportError", "LLMConfigError"}
Serveds == [id : Ids, version : Versions, reported : WireNames \cup [cooling : SUBSET Ids]]

ASSUME RegistriesAssumption == \A v \in Versions : IsRegistry(RegistryOf[v])
ASSUME CallersAssumption == InProcess \subseteq Callers
ASSUME NoneAssumption == None \notin Callers \cup Versions \cup Answers \cup Serveds \cup {Torn}

VARIABLES
  source,     \* how this process finds its registry: a path or a checkout
  deployed,   \* the version AppConfig, and the checkout, hold
  edge,       \* the version the edge has loaded
  file,       \* the cache file: a version, torn, or absent
  cached,     \* _appconfig_cached_path is set
  due,        \* _appconfig_next_poll_s has passed
  routerLock, \* _router_lock: the caller that made it, or none
  held,       \* which caller holds the lock each caller made
  router,     \* _router: the version it was built from, or none
  call,       \* what each caller is doing
  deploys, polls, again
routerVars == <<source, deployed, edge, file, cached, due, routerLock, held, router, call, deploys, polls, again>>

Requests == [what: {"group"}, group: Groups, requires: SUBSET Caps, context: Contexts, wire: Wires]
            \cup [what: {"model"}, model: Ids]
            \cup [what: {"inprocess"}, group: Groups]
(* The route: over the edge by a name, or to one entry directly.           *)
EdgeRoute(r, name, primary) ==
  [by |-> "edge", name |-> name, primary |-> primary, primaryModel |-> r.models[primary].model,
   model |-> r.models[primary].model, skips |-> {}]
DirectRoute(r, m, primary, skips) ==
  [by |-> "direct", name |-> IdName(m), primary |-> primary, primaryModel |-> r.models[primary].model,
   model |-> r.models[m].model, skips |-> skips]
Served(m, version, reported) == [id |-> m, version |-> version, reported |-> reported]
Resting == [pc |-> "idle", request |-> None, lock |-> None, version |-> None, resolvedBy |-> None,
         route |-> None, served |-> None, billed |-> None, answer |-> None]

RouterInit ==
  /\ source \in {"file", "appconfig", "nowhere"}
  /\ deployed \in Versions /\ edge = deployed
  /\ file = None /\ cached = FALSE /\ due = TRUE
  /\ routerLock = None /\ held = [c \in Callers |-> None] /\ router = None
  /\ call = [c \in Callers |-> Resting] /\ deploys = 0 /\ polls = 0 /\ again = 0

Updated(p, fields) == [f \in DOMAIN p |-> IF f \in DOMAIN fields THEN fields[f] ELSE p[f]]
\* The quantifier has TLC evaluate the fields once.
Set(c, fields) == \E fs \in {fields} : call' = [call EXCEPT ![c] = Updated(@, fs)]
Go(c, pc) == Set(c, [pc |-> pc])
Fail(c, why) == Set(c, [pc |-> "done", answer |-> why])
\* A with-block releases its lock; an exception leaves them all.
ReleaseForgotten(c) == UNCHANGED held
Release(c) == held' = IF call[c].lock = None THEN held ELSE [held EXCEPT ![call[c].lock] = None]
Free(c) == held' = [l \in Callers |-> IF held[l] = c THEN None ELSE held[l]]
FindVars == <<file, cached, due>>
LockVars == <<routerLock, held, router>>
World == <<source, deployed, edge, deploys, polls, again>>

-----------------------------------------------------------------------------
(***************************************************************************)
(* get_router: a new lock object for every caller that finds no router,    *)
(* then the lock that the global names by then.                            *)
(***************************************************************************)
Begin(c, request) ==
  /\ call[c].pc = "idle" /\ (request.what = "inprocess") = (c \in InProcess)
  /\ IF request.what = "inprocess"
     THEN IF router # None THEN Set(c, [pc |-> "pick", request |-> request, version |-> router])
          ELSE Set(c, [pc |-> "newlock", request |-> request])
     ELSE Set(c, [pc |-> "find", request |-> request])
  /\ UNCHANGED <<World, FindVars, LockVars>>
NewLock(c) ==
  /\ call[c].pc = "newlock" /\ routerLock' = c /\ Go(c, "takelock")
  /\ UNCHANGED <<World, FindVars, held, router>>
NameLock(c) ==
  /\ call[c].pc = "takelock" /\ Set(c, [pc |-> "waitlock", lock |-> routerLock])
  /\ UNCHANGED <<World, FindVars, LockVars>>
TakeLock(c) ==
  /\ call[c].pc = "waitlock" /\ held[call[c].lock] = None
  /\ IF router # None
     THEN Set(c, [pc |-> "pick", version |-> router]) /\ UNCHANGED held
     ELSE held' = [held EXCEPT ![call[c].lock] = c] /\ Go(c, "find")
  /\ UNCHANGED <<World, FindVars, routerLock, router>>

(***************************************************************************)
(* _find_registry: an explicit path is final; AppConfig is asked first     *)
(* when it is opted in; what AppConfig cannot give is sought in the file   *)
(* system, which a box or a Lambda does not have.  The lock is the one     *)
(* get_router made, and while nobody has made one, a lock of one's own.    *)
(***************************************************************************)
WalkFails(c) == Free(c) /\ Fail(c, "RegistryNotFound")
Find(c) ==
  /\ call[c].pc = "find"
  /\ CASE source = "appconfig" -> Set(c, [pc |-> "enter", lock |-> routerLock]) /\ UNCHANGED held
       [] source = "nowhere" -> WalkFails(c)
       [] OTHER -> Set(c, [pc |-> "load", version |-> deployed]) /\ UNCHANGED held
  /\ UNCHANGED <<World, FindVars, routerLock, router>>
Lockable(c) == call[c].lock \in {None} \cup {l \in Callers : held[l] = None}
Hold(c) == held' = IF call[c].lock = None THEN held ELSE [held EXCEPT ![call[c].lock] = c]
ServeCached(c) ==
  /\ call[c].pc = "enter" /\ Lockable(c) /\ cached /\ file # None /\ ~ due
  /\ Go(c, "load")
  /\ UNCHANGED <<World, FindVars, LockVars>>
StartPoll(c) ==
  /\ call[c].pc = "enter" /\ Lockable(c) /\ ~ (cached /\ file # None /\ ~ due)
  /\ Hold(c) /\ Go(c, "poll")
  /\ UNCHANGED <<World, FindVars, routerLock, router>>
\* The poll fails before poll_interval is bound, and the handler reads it.
PollFails(c) ==
  /\ call[c].pc = "poll"
  /\ Free(c) /\ Fail(c, IF cached /\ file # None THEN "UnboundLocalError" ELSE "RegistryNotFound")
  /\ UNCHANGED <<World, FindVars, routerLock, router>>
PollIsEmpty(c) ==
  /\ call[c].pc = "poll" /\ WalkFails(c)
  /\ UNCHANGED <<World, FindVars, routerLock, router>>
\* write_bytes truncates the file that other callers may be reading.
PollAnswers(c) ==
  /\ call[c].pc = "poll" /\ file' = Torn /\ Set(c, [pc |-> "write", version |-> deployed])
  /\ UNCHANGED <<World, cached, due, LockVars>>
Write(c) ==
  /\ call[c].pc = "write" /\ file' = call[c].version /\ cached' = TRUE /\ due' = FALSE
  /\ Release(c) /\ Go(c, "load")
  /\ UNCHANGED <<World, routerLock, router>>
WriteFails(c) ==
  /\ call[c].pc = "write"
  /\ IF cached THEN Release(c) /\ Go(c, "load") ELSE WalkFails(c)
  /\ UNCHANGED <<World, FindVars, routerLock, router>>

-----------------------------------------------------------------------------
(***************************************************************************)
(* load_registry, outside any lock of the poll; then what the caller       *)
(* wanted it for: the resolution, the in-process router, or the bill.      *)
(***************************************************************************)
Load(c) ==
  LET version == IF source = "appconfig" THEN file ELSE call[c].version IN
  /\ call[c].pc = "load"
  /\ IF version = Torn THEN Free(c) /\ Fail(c, "ValueError")
     ELSE /\ UNCHANGED held
          /\ Set(c, [version |-> version,
                     resolvedBy |-> IF call[c].served = None THEN version ELSE call[c].resolvedBy,
                     pc |-> CASE call[c].served # None -> "bill"
                              [] c \in InProcess -> "build"
                              [] OTHER -> "resolve"])
  /\ UNCHANGED <<World, FindVars, routerLock, router>>
Build(c) ==
  /\ call[c].pc = "build" /\ router' = call[c].version /\ Free(c) /\ Go(c, "pick")
  /\ UNCHANGED <<World, FindVars, routerLock>>

PickFrom(chain, cooling) ==
  LET warm == {i \in DOMAIN chain : chain[i] \notin cooling}
  IN IF warm = {} THEN Leader(chain) ELSE chain[First(warm)]
Pick(c, cooling) ==
  LET version == call[c].version
      g == call[c].request.group IN
  /\ call[c].pc = "pick"
  /\ IF g \in LiveGroups(RegistryOf[version])
     THEN LET m == PickFrom(Chain(RegistryOf[version], GroupName(g)), cooling)
          IN Set(c, [pc |-> "done", answer |-> "picked",
                     served |-> Served(m, version, [cooling |-> cooling]),
                     billed |-> RegistryOf[version].models[m].model])
     ELSE Fail(c, "picked")  \* the group's own name, as it was given
  /\ UNCHANGED <<World, FindVars, LockVars>>

-----------------------------------------------------------------------------
(***************************************************************************)
(* The resolution: what the registry refuses, then the edge's admission,   *)
(* then for a group the walk over its entries.  A pinned model has none.   *)
(***************************************************************************)
Refusal(r, request) ==
  IF request.what = "model" THEN ~ Active(r, request.model)
  ELSE request.group \notin DOMAIN r.groups \/ DOMAIN LiveIds(r, request.group, request.requires) = {}
Refuse(c) ==
  /\ call[c].pc = "resolve" /\ Refusal(RegistryOf[call[c].version], call[c].request)
  /\ Fail(c, "ValueError")
  /\ UNCHANGED <<World, FindVars, LockVars>>
Primary(r, request) == Leader(LiveIds(r, request.group, request.requires))
(* The edge answers its health probe, and a credential is found in the     *)
(* environment, in a file or in SSM.  A consumer's own key cannot          *)
(* authenticate at the process behind the edge, over plaintext loopback.   *)
Credentials == SUBSET {"environment", "secrets.env", "SSM"}
Admitted(answers, found) == answers /\ found # {}
CannotAuthenticate(ownKey, loopback) == ownKey /\ loopback
Admit(c, refused) ==
  LET r == RegistryOf[call[c].version]
      request == call[c].request IN
  /\ call[c].pc = "resolve" /\ ~ Refusal(r, request)
  /\ IF refused THEN Fail(c, "RuntimeError")
     ELSE Set(c, [pc |-> "send", route |->
            IF request.what = "model" THEN EdgeRoute(r, IdName(request.model), request.model)
            ELSE EdgeRoute(r, WireName(request.group, request.requires), Primary(r, request))])
  /\ UNCHANGED <<World, FindVars, LockVars>>
(* The entries the walk passes over, given the egress proxies that answer. *)
HasEndpoint(r, m, wire) == wire \in r.models[m].wires
ProxyIsUp(r, m, up) == r.models[m].route = "egress_proxy" => m \in up
Passes(r, m, request, up) ==
  /\ Admissible(r, m, request.requires)
  /\ ReachableFrom(r, m, request.context)
  /\ HasEndpoint(r, m, request.wire)
  /\ ProxyIsUp(r, m, up)
Walkable(r, m, request, up) == Known(r, m) /\ Passes(r, m, request, up)
NotAdmitted(c, up) ==
  LET r == RegistryOf[call[c].version]
      request == call[c].request
      ids == r.groups[request.group]
      open == {i \in DOMAIN ids : Walkable(r, ids[i], request, up)} IN
  /\ call[c].pc = "resolve" /\ ~ Refusal(r, request)
  /\ CASE request.what = "model" -> Fail(c, "RuntimeError")
       [] request.what = "group" /\ open = {} -> Fail(c, "ValueError")
       [] OTHER -> Set(c, [pc |-> "send", route |->
            DirectRoute(r, ids[First(open)], Primary(r, request),
                        {ids[i] : i \in {j \in 1..First(open)-1 : Known(r, ids[j])}})])
  /\ UNCHANGED <<World, FindVars, LockVars>>
RouteIsDegraded(route) == route.by = "direct" /\ route.primary # route.name.id

-----------------------------------------------------------------------------
(***************************************************************************)
(* The request.  The edge serves the name from its own registry: a member  *)
(* of the chain after those before it have failed.  It echoes the name it  *)
(* was asked for unless it fell back, and then reports the deployment, or  *)
(* the provider's own name for the model.                                  *)
(***************************************************************************)
SendDirect(c) ==
  LET route == call[c].route
      m == route.name.id
      u == RegistryOf[call[c].version].models[m].model IN
  /\ call[c].pc = "send" /\ route.by = "direct"
  /\ Set(c, [pc |-> "done", answer |-> "ok", billed |-> u,
             served |-> Served(m, call[c].version, UpstreamName(u))])
  /\ UNCHANGED <<World, FindVars, LockVars>>
Unserved(c) ==
  /\ call[c].pc = "send" /\ Fail(c, "TransportError")
  /\ UNCHANGED <<World, FindVars, LockVars>>
EdgeChain(r, name) ==
  IF "group" \in DOMAIN name
  THEN IF name \in Names(r) THEN Chain(r, name) ELSE <<>>
  ELSE IF Active(r, name.id) THEN <<name.id>> ELSE <<>>
EdgeServes(c, i, asDeployment) ==
  LET r == RegistryOf[edge]
      name == call[c].route.name
      chain == EdgeChain(r, name)
      reported == CASE i = First(DOMAIN chain) -> name
                    [] i # First(DOMAIN chain) /\ asDeployment -> DeploymentName(name.group, chain[i])
                    [] OTHER -> UpstreamName(r.models[chain[i]].model) IN
  /\ call[c].pc = "send" /\ call[c].route.by = "edge" /\ i \in DOMAIN chain
  /\ Set(c, [served |-> Served(chain[i], edge, reported),
             \* an echo of a group needs no registry, a deployment's name does
             pc |-> IF "id" \in DOMAIN reported THEN "find" ELSE "bill"])
  /\ UNCHANGED <<World, FindVars, LockVars>>

(***************************************************************************)
(* _resolve_group_served_model: the model to bill.  The echo of a group is *)
(* its primary, as the resolution knew it; a deployment's name is looked   *)
(* up in the registry as it is now; a name of neither form is billed as it *)
(* is.  What cannot be resolved is refused.                                *)
(***************************************************************************)
BillableVerbatim(r, route, reported) ==
  CASE "upstream" \in DOMAIN reported -> {reported.upstream}
    [] "id" \in DOMAIN reported -> {reported.id}
    [] OTHER -> {route.primaryModel}
Billable(r, route, reported) ==
  CASE "upstream" \in DOMAIN reported -> {reported.upstream}
    [] "id" \in DOMAIN reported -> UpstreamsOf(r, reported)
    [] OTHER -> {route.primaryModel}
Bill(c) ==
  LET models == Billable(RegistryOf[call[c].version], call[c].route, call[c].served.reported) IN
  /\ call[c].pc = "bill"
  /\ IF models = {} THEN Fail(c, "LLMConfigError")
     ELSE \E u \in models : Set(c, [pc |-> "done", answer |-> "ok", billed |-> u])
  /\ UNCHANGED <<World, FindVars, LockVars>>
(* _stamp_fallback_facts compares names, and reads no registry.            *)
FallbackUsedByModel(c) == call[c].billed # call[c].route.primaryModel
FallbackUsed(c) == call[c].served.reported # call[c].route.name
Again(c) ==
  /\ call[c].pc = "done" /\ again < MaxAgain /\ again' = again + 1
  /\ call' = [call EXCEPT ![c] = Resting]
  /\ UNCHANGED <<source, deployed, edge, deploys, polls, FindVars, LockVars>>

-----------------------------------------------------------------------------
(* The world: a deployment, the edge's reload, the end of a poll interval. *)
Deploy ==
  /\ deploys < MaxDeploys /\ deploys' = deploys + 1
  /\ deployed' \in Versions \ {deployed}
  /\ UNCHANGED <<source, edge, polls, again, FindVars, LockVars, call>>
EdgeReloads ==
  /\ edge # deployed /\ edge' = deployed
  /\ UNCHANGED <<source, deployed, deploys, polls, again, FindVars, LockVars, call>>
PollIsDue ==
  /\ ~ due /\ polls < MaxPolls /\ polls' = polls + 1 /\ due' = TRUE
  /\ UNCHANGED <<source, deployed, edge, deploys, again, file, cached, LockVars, call>>

Resolve(c) ==
  \/ Refuse(c)
  \/ /\ call[c].pc = "resolve"
     /\ \E admitted \in {Admitted(answers, found) : answers \in BOOLEAN, found \in Credentials} :
          IF admitted
          THEN \E refused \in {CannotAuthenticate(own, loop) : own, loop \in BOOLEAN} : Admit(c, refused)
          ELSE \E up \in SUBSET Ids : NotAdmitted(c, up)
Step(c) ==
  \/ NewLock(c) \/ NameLock(c) \/ TakeLock(c)
  \/ Find(c) \/ ServeCached(c) \/ StartPoll(c)
  \/ PollFails(c) \/ PollIsEmpty(c) \/ PollAnswers(c) \/ Write(c) \/ WriteFails(c)
  \/ Load(c) \/ Build(c) \/ (call[c].pc = "pick" /\ \E cooling \in SUBSET Ids : Pick(c, cooling))
  \/ Resolve(c)
  \/ SendDirect(c) \/ Unserved(c)
  \/ /\ call[c].pc = "send" /\ call[c].route.by = "edge"
     /\ \E i \in DOMAIN EdgeChain(RegistryOf[edge], call[c].route.name), d \in BOOLEAN : EdgeServes(c, i, d)
  \/ Bill(c)
RouterNext ==
  \/ \E c \in Callers : Step(c) \/ Again(c) \/ \E request \in Requests : Begin(c, request)
  \/ Deploy \/ EdgeReloads \/ PollIsDue
RouterSpec == RouterInit /\ [][RouterNext]_routerVars /\ \A c \in Callers : WF_routerVars(Step(c))

-----------------------------------------------------------------------------
Ended(c) == call[c].pc = "done" /\ call[c].answer = "ok"
Picked(c) == call[c].answer = "picked" /\ call[c].served # None

(***************************************************************************)
(* A call is served by an entry that the registry of whoever chose it      *)
(* calls active, that declares what the caller requires, wherever in the   *)
(* chain it stands, and that a direct route can reach from the caller's    *)
(* context in its wire format; a pinned model by that model and over the   *)
(* edge only (_resolve_group_json, _parse_registry, _resolve_model_json).  *)
(* The in-process router picks a live member, and one that is cooling down *)
(* only when every one of them is (resolve_group).                         *)
(***************************************************************************)
PickIsWarm(s, chain) ==
  /\ s.id \in Range(chain)
  /\ s.id \in s.reported.cooling => Range(chain) \subseteq s.reported.cooling
ServedIsEligible ==
  \A c \in Callers : Ended(c) \/ Picked(c) =>
    LET s == call[c].served
        request == call[c].request
        r == RegistryOf[s.version] IN
    /\ Active(r, s.id)
    /\ Picked(c) => PickIsWarm(s, LiveIds(r, request.group, {}))
    /\ request.what = "model" => s.id = request.model /\ call[c].route.by = "edge"
    /\ request.what = "group" =>
         /\ request.requires \subseteq r.models[s.id].caps
         /\ s.id \in Range(r.groups[request.group])
         /\ call[c].route.by = "direct" =>
              ReachableFrom(r, s.id, request.context) /\ request.wire \in r.models[s.id].wires

(***************************************************************************)
(* A call is billed to a provider's model, never to a group or to a        *)
(* deployment, whatever the two registries hold; and to the model that     *)
(* served it when the edge and the consumer read the same one.             *)
(***************************************************************************)
BilledIsServed ==
  \A c \in Callers : Ended(c) =>
    LET s == call[c].served IN
    /\ call[c].billed \in Upstreams
    /\ s.version = call[c].version /\ s.version = call[c].resolvedBy =>
         call[c].billed = RegistryOf[s.version].models[s.id].model

(***************************************************************************)
(* fallback_used says that another entry served than the edge's first for  *)
(* the name, also while the edge and the consumer read different           *)
(* registries and also when the two entries share a model; a group that    *)
(* names its first entry again may fall back to it.  A direct route        *)
(* that is not the primary's says so, names every member it passed over,   *)
(* and has passed over one that needs no egress proxy only for what the    *)
(* registry says of it (route_is_degraded).                                *)
(***************************************************************************)
FallThroughIsJustified(r, request, route) ==
  LET ids == r.groups[request.group] IN
  /\ RouteIsDegraded(route) = (route.primary \in route.skips)
  /\ \A i \in DOMAIN ids : ids[i] \in route.skips =>
       ~ Passes(r, ids[i], request, {m \in DOMAIN r.models : r.models[m].route # "egress_proxy"})
  /\ \E i \in DOMAIN ids : ids[i] = route.name.id /\ \A j \in 1..i-1 : Known(r, ids[j]) => ids[j] \in route.skips
FallbackIsReported ==
  \A c \in Callers : Ended(c) =>
    LET s == call[c].served
        route == call[c].route IN
    /\ route.by = "edge" =>
         LET chain == EdgeChain(RegistryOf[s.version], route.name) IN
         /\ s.id # Leader(chain) => FallbackUsed(c)
         /\ FallbackUsed(c) => \E i \in DOMAIN chain \ {First(DOMAIN chain)} : chain[i] = s.id
    /\ route.by = "direct" => FallThroughIsJustified(RegistryOf[call[c].resolvedBy], call[c].request, route)

(***************************************************************************)
(* Every call ends, unless a get_router holds the lock it waits for.       *)
(***************************************************************************)
LockedOut(c) == call[c].pc = "enter" /\ call[c].lock # None /\ held[call[c].lock] = c
CallEnds ==
  \A c \in Callers : (call[c].pc # "idle") ~> (call[c].pc = "done" \/ \E k \in InProcess : LockedOut(k))

(***************************************************************************)
(* router.py:704-705, "Thread-safe behind _router_lock (reused from the    *)
(* Router singleton)": a call that was made ends.  get_router holds the    *)
(* lock, which is not re-entrant, while it looks for the registry.         *)
(***************************************************************************)
GetRouterReturns == \A c \in Callers : (call[c].pc # "idle") ~> (call[c].pc = "done")
=============================================================================
