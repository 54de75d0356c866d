------------------------------ MODULE Registry ------------------------------
(***************************************************************************)
(* The model registry (krepis/model_registry.py) and the tables            *)
(* krepis/router.py derives from it.  A registry is a record of the        *)
(* declared groups, each an ordered chain of ids, and of the entries; an   *)
(* id of a chain need not have an entry.  Names on the wire are records of *)
(* their parts, never strings; an upstream id is named by the entry.       *)
(***************************************************************************)
EXTENDS Integers, Sequences, SequencesExt, FiniteSets

CONSTANTS Ids,       \* registry ids
          Groups,    \* model groups
          Caps,      \* ROUTABLE_CAPABILITIES
          Contexts,  \* EXEC_CONTEXTS
          Wires,     \* WIRE_FORMATS
          Upstreams  \* the providers' model ids

Excluded == {"deprecated", "unavailable"}
Undeclared == {"undeclared"}
Entries == [status: {"active"} \cup Excluded, caps: SUBSET Caps,
            from: SUBSET Contexts \cup {Undeclared}, wires: SUBSET Wires,
            route: {"egress_proxy", "openrouter", "direct"}, model: Upstreams]
IsRegistry(r) == /\ DOMAIN r.groups \subseteq Groups
                 /\ \A g \in DOMAIN r.groups : r.groups[g] \in Seq(Ids)
                 /\ DOMAIN r.models \subseteq Ids
                 /\ \A m \in DOMAIN r.models : r.models[m] \in Entries

(***************************************************************************)
(* The gates one entry passes, and the chain of a group that is left: its  *)
(* ids at the places that pass, in declared order.                         *)
(***************************************************************************)
Known(r, m) == m \in DOMAIN r.models
Active(r, m) == Known(r, m) /\ r.models[m].status \notin Excluded
Declares(r, m, requires) == requires \subseteq r.models[m].caps
ReachableFrom(r, m, context) ==
  r.models[m].from # Undeclared /\ context \in r.models[m].from
Admissible(r, m, requires) == Active(r, m) /\ Declares(r, m, requires)
LiveIds(r, g, requires) ==
  Restrict(r.groups[g], {i \in DOMAIN r.groups[g] : Admissible(r, r.groups[g][i], requires)})
LiveGroups(r) == {g \in DOMAIN r.groups : DOMAIN LiveIds(r, g, {}) # {}}
First(places) == CHOOSE i \in places : \A j \in places : i <= j
Leader(chain) == chain[First(DOMAIN chain)]

(***************************************************************************)
(* The names a request may carry.                                          *)
(***************************************************************************)
GroupName(g) == [group |-> g]
DeploymentName(g, m) == [group |-> g, id |-> m]
IdName(m) == [id |-> m]
UpstreamName(u) == [upstream |-> u]
CapabilityName(g, caps) == [group |-> g, caps |-> caps]
WireName(g, requires) == IF requires = {} THEN GroupName(g) ELSE CapabilityName(g, requires)
WireNames == [group : Groups] \cup [group : Groups, caps : SUBSET Caps] \cup [group : Groups, id : Ids]
             \cup [id : Ids] \cup [upstream : Upstreams]

(***************************************************************************)
(* _parse_registry: the deployments, which entry each stands for, and the  *)
(* fallback chain of each name.  A capability group is a deployment with   *)
(* the parameters of its first capable member.                             *)
(***************************************************************************)
Deployments(r) == UNION {{DeploymentName(g, m) : m \in Range(LiveIds(r, g, {}))} : g \in LiveGroups(r)}
Capable(r, g, caps) ==
  LET live == LiveIds(r, g, {})
  IN Restrict(live, {i \in DOMAIN live : \A c \in caps : live[i] \in Range(LiveIds(r, g, {c}))})
CapabilityGroups(r) ==
  {x \in LiveGroups(r) \X (SUBSET Caps \ {{}}) : DOMAIN Capable(r, x[1], x[2]) # {}}
Names(r) == Deployments(r) \cup {GroupName(g) : g \in LiveGroups(r)}
            \cup {CapabilityName(x[1], x[2]) : x \in CapabilityGroups(r)}

(* The members that may serve a name: the target and then its chain.  The  *)
(* primary's own name has the group's chain.                               *)
ChainUnfiltered(r, name) ==
  CASE "caps" \in DOMAIN name -> LiveIds(r, name.group, {})
    [] DOMAIN name = {"group"} -> LiveIds(r, name.group, {})
    [] OTHER -> IF name.id = Leader(LiveIds(r, name.group, {}))
                THEN LiveIds(r, name.group, {}) ELSE <<name.id>>
Chain(r, name) ==
  CASE "caps" \in DOMAIN name -> Capable(r, name.group, name.caps)
    [] DOMAIN name = {"group"} -> LiveIds(r, name.group, {})
    [] OTHER -> IF name.id = Leader(LiveIds(r, name.group, {}))
                THEN LiveIds(r, name.group, {}) ELSE <<name.id>>

(* served_model_for_deployment: the upstream model of a derived name, or   *)
(* of a bare id; None when this registry does not have it.  The status is  *)
(* not looked at: what was billed yesterday stays billable.                *)
UpstreamsOf(r, name) ==
  IF "upstream" \in DOMAIN name \/ "id" \notin DOMAIN name \/ ~ Known(r, name.id) THEN {}
  ELSE IF "group" \notin DOMAIN name THEN {r.models[name.id].model}
  ELSE IF name.group \in DOMAIN r.groups /\ Contains(r.groups[name.group], name.id)
       THEN {r.models[name.id].model} ELSE {}
=============================================================================
