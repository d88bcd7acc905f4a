------------------------------ MODULE Deployment ------------------------------
(***************************************************************************)
(* From a machine to the spaces of a reservation manager: the topology is  *)
(* discovered, reservation_manager_configurator::build turns it and the    *)
(* application's settings into configurations, and the constructor of      *)
(* memory_reservation_manager turns those into memory spaces, which        *)
(* callers find by tier and device and requests select by strategy.        *)
(***************************************************************************)
EXTENDS TopologyDiscovery, SequencesExt

CONSTANT Setups   \* what the setters of the configurator may have left in it

\* The fields that build reads; a count or a capacity of 0 was not set.
SettingsType ==
  [ids : Seq(Nat), count : Nat, totalHost : Nat, perHost : Nat, disk : Nat]

ASSUME DeploymentAssumption == Setups \subseteq SettingsType

VARIABLES
  settings,   \* the fields of the configurator
  configs,    \* what build returned
  given,      \* history: the GPUs of the topology that build was given
  stage,      \* "none", "filing" (in the constructor), "up", in shutdown, "down"
  spaces,     \* spaces_ of the manager, each <<tier, device>>
  all,        \* all_spaces_: pointers, that is, places in spaces
  tiers       \* tier_spaces_: for each tier, pointers too

manager        == <<stage, spaces, all, tiers>>
deploymentVars == <<topologyVars, settings, configs, given, manager>>

Tiers == {"GPU", "HOST", "DISK"}

\* The setters are called before build, in any order: DeploymentInit has their outcome.
DeploymentInit ==
  /\ TopologyInit
  /\ settings \in Setups
  /\ configs = <<>> /\ given = {}
  /\ stage = "none" /\ spaces = <<>> /\ all = <<>>
  /\ tiers = [tier \in Tiers |-> <<>>]

-----------------------------------------------------------------------------
(* reservation_manager_configurator::build *)

\* Mutation: the list of ids is ignored, only its length counts.
DeviceIdsInOrder(topologyGpus) ==
  LET n == IF settings.ids # <<>> THEN Len(settings.ids)
           ELSE IF settings.count > 0 THEN settings.count ELSE topologyGpus
  IN [i \in 1 .. n |-> i - 1]

\* The given ids, or as many as were asked for, or as many as were discovered.
DeviceIds(topologyGpus) ==
  LET n == IF settings.count > 0 THEN settings.count ELSE topologyGpus
  IN IF settings.ids # <<>> THEN settings.ids ELSE [i \in 1 .. n |-> i - 1]

HostConfig ==
  IF settings.totalHost = 0 /\ settings.perHost = 0 THEN <<>>
  ELSE <<[tier |-> "HOST", device |-> 0,
          capacity |-> IF settings.totalHost > 0 THEN settings.totalHost
                       ELSE settings.perHost]>>

DiskConfig ==
  IF settings.disk = 0 THEN <<>>
  ELSE <<[tier |-> "DISK", device |-> None, capacity |-> settings.disk]>>

\* The configurations.  The limits of a GPU's, which the constructor of the
\* manager does not read, are left out.
Built(topologyGpus) ==
  LET ids == DeviceIds(topologyGpus) IN
     [i \in DOMAIN ids |-> [tier |-> "GPU", device |-> ids[i], capacity |-> 0]]
  \o HostConfig \o DiskConfig

\* build(topology), whatever discover has made of it, or build().
Build(withTopology) ==
  /\ ~scanning /\ stage = "none"
  /\ configs' = Built(IF withTopology THEN numGpus ELSE 0)
  /\ given' = IF withTopology /\ discovered THEN Gpus ELSE {}
  /\ UNCHANGED <<topologyVars, settings, manager>>

-----------------------------------------------------------------------------
(* memory_reservation_manager: construction *)

\* The constructor makes no space for a disk.
HasSpace(config) == config.tier \in {"GPU", "HOST"}

\* The spaces that the constructor makes, in the order of their configurations.
SpacesOf(cfgs) ==
  LET made[n \in 0 .. Len(cfgs)] ==
        IF n = 0 THEN <<>>
        ELSE IF HasSpace(cfgs[n])
             THEN Append(made[n - 1], <<cfgs[n].tier, cfgs[n].device>>)
             ELSE made[n - 1]
  IN made[Len(cfgs)]

\* The first loop of the constructor.
MakeSpaces ==
  /\ stage = "none" /\ ~scanning
  /\ stage' = "filing"
  /\ spaces' = SpacesOf(configs)
  /\ UNCHANGED <<topologyVars, settings, configs, given, all, tiers>>

\* Mutation: the newest space of a tier comes first.
FileSpaceFirst ==
  LET i == Len(all) + 1 IN
  /\ stage = "filing" /\ i <= Len(spaces)
  /\ tiers' = [tiers EXCEPT ![spaces[i][1]] = <<i>> \o @]
  /\ all' = Append(all, i)
  /\ UNCHANGED <<topologyVars, settings, configs, given, stage, spaces>>

\* A turn of the second loop: a pointer to the next space goes to each view.
FileSpace ==
  LET i == Len(all) + 1 IN
  /\ stage = "filing" /\ i <= Len(spaces)
  /\ tiers' = [tiers EXCEPT ![spaces[i][1]] = Append(@, i)]
  /\ all' = Append(all, i)
  /\ UNCHANGED <<topologyVars, settings, configs, given, stage, spaces>>

Constructed ==
  /\ stage = "filing" /\ Len(all) = Len(spaces)
  /\ stage' = "up"
  /\ UNCHANGED <<topologyVars, settings, configs, given, spaces, all, tiers>>

-----------------------------------------------------------------------------
(* memory_reservation_manager: shutdown, as callers of the getters see it *)

ClearAllSpaces ==
  /\ stage = "up"
  /\ stage' = "all cleared" /\ all' = <<>>
  /\ UNCHANGED <<topologyVars, settings, configs, given, spaces, tiers>>

\* Mutation: the spaces go before the pointers to them by tier.
ClearTierSpacesLast ==
  /\ stage = "all cleared"
  /\ stage' = "views cleared" /\ spaces' = <<>>
  /\ UNCHANGED <<topologyVars, settings, configs, given, all, tiers>>

ClearTierSpaces ==
  /\ stage = "all cleared"
  /\ stage' = "views cleared" /\ tiers' = [tier \in Tiers |-> <<>>]
  /\ UNCHANGED <<topologyVars, settings, configs, given, spaces, all>>

ClearSpaces ==
  /\ stage = "views cleared"
  /\ stage' = "down" /\ spaces' = <<>>
  /\ UNCHANGED <<topologyVars, settings, configs, given, all, tiers>>

-----------------------------------------------------------------------------
(* memory_reservation_manager: finding a space *)

\* The first pointer of a view that points to one of the spaces; 0 for none.
FirstIn(view, places) ==
  LET at == {k \in DOMAIN view : view[k] \in places}
  IN IF at = {} THEN 0 ELSE view[Min(at)]

\* get_memory_space: the first of its tier with this device.
GetMemorySpace(tier, device) ==
  FirstIn(tiers[tier], {i \in DOMAIN spaces : spaces[i][2] = device})

\* The strategies: the spaces that a request may use.
InTiers(some)           == {i \in DOMAIN spaces : spaces[i][1] \in some}
Preferred(tier, device) == {i \in InTiers({tier}) : device < 0 \/ spaces[i][2] = device}
WithId(id)              == {i \in DOMAIN spaces : spaces[i] = id}
ToDowngrade             == {i \in DOMAIN spaces : spaces[i][1] = "GPU"}
ToUpgrade               == {i \in DOMAIN spaces : spaces[i][1] # "GPU"}

\* request_reservation walks all_spaces_: the first that it may use.
FirstAsked(places) == FirstIn(all, places)

-----------------------------------------------------------------------------

DeploymentNext ==
  \/ TopologyNext /\ UNCHANGED <<settings, configs, given, manager>>
  \/ \E withTopology \in BOOLEAN : Build(withTopology)
  \/ MakeSpaces \/ FileSpace \/ Constructed
  \/ ClearAllSpaces \/ ClearTierSpaces \/ ClearSpaces

DeploymentSpec == DeploymentInit /\ [][DeploymentNext]_deploymentVars

-----------------------------------------------------------------------------
(* Properties *)

DevicesOf(tier) == {spaces[i][2] : i \in InTiers({tier})}

\* The GPU spaces of a manager are those that were asked for: the ids given, else
\* as many as were given; else, without the application naming any, one for each
\* GPU that discovery had found when build was given its topology.  There is a
\* space for the host exactly if it has a capacity (configurator 50-88, manager
\* 81-96).
GpuAndHostSpacesAreTheRequested ==
  stage \in {"filing", "up"} /\ configs # <<>> =>
    /\ CASE settings.ids # <<>> -> DevicesOf("GPU") = ToSet(settings.ids)
         [] settings.ids = <<>> /\ settings.count > 0 ->
              DevicesOf("GPU") = 0 .. settings.count - 1
         [] OTHER -> DevicesOf("GPU") = given
    /\ DevicesOf("HOST") # {} <=> settings.totalHost + settings.perHost > 0

\* Lookups and requests go through views that are filled one by one, and come to
\* the same space: the one that get_memory_space finds is the first that a request
\* for its id asks, and one that prefers its device; what the view of a tier lists
\* is what a request for the tier may use, and what is drained of a GPU
\* (lines 35-73, 97-112, 138-166).
LookupsAndRequestsAgree ==
  stage = "up" =>
    /\ \A tier \in Tiers, d \in 0 .. MaxGpus :
         /\ GetMemorySpace(tier, d) = FirstAsked(WithId(<<tier, d>>))
         /\ GetMemorySpace(tier, d) = FirstAsked(Preferred(tier, d))
    /\ \A tier \in Tiers : ToSet(tiers[tier]) = ToSet(all) \cap InTiers({tier})
    /\ ToSet(tiers["GPU"]) = ToSet(all) \ ToUpgrade
    /\ ToSet(tiers["GPU"]) = ToSet(all) \cap ToDowngrade

\* No view ever holds a pointer to a space that is gone, and while the manager is
\* up a space is missing from neither (lines 97-102, 189-194).
NoDanglingView ==
  /\ ToSet(all) \subseteq DOMAIN spaces
  /\ \A tier \in Tiers : ToSet(tiers[tier]) \subseteq DOMAIN spaces
  /\ stage = "up" =>
       DOMAIN spaces = ToSet(all) /\ DOMAIN spaces = UNION {ToSet(tiers[tier]) : tier \in Tiers}
=============================================================================
