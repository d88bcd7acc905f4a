-------------------------- MODULE TopologyDiscovery --------------------------
(***************************************************************************)
(* topology_discovery::discover (cucascade/memory/topology_discovery.hpp): *)
(* for each GPU that HIP numbers, the NUMA node and the CPUs that sysfs    *)
(* shows for the drm device in the same PCI slot, and the links to the     *)
(* other GPUs.  One step per GPU.                                          *)
(*                                                                         *)
(* The machine is external: HIP numbers GPUs and the kernel numbers drm    *)
(* devices, each in its own order, and any file may be missing.            *)
(***************************************************************************)
EXTENDS Integers, Sequences, FiniteSets, FiniteSetsExt

CONSTANTS
  Machines,   \* the machines to be discovered, see MachineType
  Boards,     \* what a PCI slot is without its function
  MaxGpus,
  Renders,    \* numbers of renderD devices (the code's 128 .. 199)
  Cards,      \* numbers of card devices (the code's 0 .. 31)
  None, Garbage

NumaNodes == {-1, 0, 1}

SlotType == [board : Boards, function : {0, 1}]

\* A drm device: its uevent gives a slot or nothing, its files a NUMA node, text
\* that is no number, or nothing (the file cannot be opened).
DeviceType ==
  [slot : SlotType \cup {None}, numa : NumaNodes \cup {Garbage, None},
   cpus : Boards \cup {None}]

MachineType ==
  [gpus : UNION {[0 .. n - 1 -> SlotType \cup {None}] : n \in 0 .. MaxGpus},
   peers : SUBSET ((0 .. MaxGpus - 1) \X (0 .. MaxGpus - 1)),
   render : [Renders -> DeviceType], card : [Cards -> DeviceType],
   numa : [Boards -> NumaNodes]]

\* sysfs shows in the directory of a drm device what belongs to the board behind it.
Genuine(device, m) ==
  device.slot # None =>
    /\ device.numa \in {m.numa[device.slot.board], Garbage, None}
    /\ device.cpus \in {device.slot.board, None}

ASSUME TopologyAssumption ==
  /\ MaxGpus \in Nat
  /\ Renders \subseteq Nat /\ Cards \subseteq Nat
  /\ IsFiniteSet(Renders) /\ IsFiniteSet(Cards)
  /\ {None, Garbage} \cap NumaNodes = {}
  /\ None \notin SlotType
  /\ Machines \subseteq MachineType
  /\ \A m \in Machines :
       /\ \A d \in Renders : Genuine(m.render[d], m)
       /\ \A d \in Cards : Genuine(m.card[d], m)

VARIABLES
  machine,      \* external: what HIP and sysfs show
  numGpus,      \* topology_.num_gpus
  gpus,         \* topology_.gpus
  numaCount,    \* topology_.num_numa_nodes
  discovered,   \* discovered_
  scanning      \* discover is running

topologyVars == <<machine, numGpus, gpus, numaCount, discovered, scanning>>

Gpus == DOMAIN machine.gpus

TopologyInit ==
  /\ machine \in Machines
  /\ numGpus = 0 /\ gpus = <<>> /\ numaCount = 0
  /\ discovered = FALSE /\ scanning = FALSE

-----------------------------------------------------------------------------
(* Files *)

\* pci_buses_match, which ignores the function; no slot matches nothing.
SlotsMatch(a, b) == a # None /\ b # None /\ a.board = b.board

\* matches_gpu_pci and matches_card_pci.
Matches(device, gpu) == SlotsMatch(machine.gpus[gpu], device.slot)

\* Mutation: the card with the number of the GPU is taken for its card.
HitsByNumber(devices, gpu, file) ==
  {d \in DOMAIN devices : d = gpu /\ devices[d][file] # None}

\* The devices of a GPU whose file can be opened.
Hits(devices, gpu, file) ==
  {d \in DOMAIN devices : Matches(devices[d], gpu) /\ devices[d][file] # None}

\* The scan of the render devices in order, then of the cards: the first file
\* that opens is the answer.
ReadFile(gpu, file) ==
  LET renders == Hits(machine.render, gpu, file)
      cards   == Hits(machine.card, gpu, file)
  IN CASE renders # {} -> machine.render[Min(renders)][file]
       [] renders = {} /\ cards # {} -> machine.card[Min(cards)][file]
       [] OTHER -> None

\* read_sysfs_numa_node: -1 for no file and for text that is no number.
NumaNode(gpu) ==
  LET text == ReadFile(gpu, "numa") IN IF text \in NumaNodes THEN text ELSE -1

\* read_sysfs_cpulist.
CpuList(gpu) == ReadFile(gpu, "cpus")

\* hipDeviceCanAccessPeer.
CanAccess(a, b) == <<a, b>> \in machine.peers

\* Mutation: the way back is not asked for.
InterconnectOneWay(a, b) ==
  IF CanAccess(a, b) /\ NumaNode(a) >= 0 /\ NumaNode(a) = NumaNode(b)
    THEN "XGMI" ELSE "PCIe"

\* detect_interconnect_type.
Interconnect(a, b) ==
  IF /\ CanAccess(a, b) /\ CanAccess(b, a)
     /\ NumaNode(a) >= 0 /\ NumaNode(a) = NumaNode(b)
    THEN "XGMI" ELSE "PCIe"

\* gpu_topology_info of a GPU; the peers and their links are one function here.
Describe(i) ==
  [id |-> i, numa |-> NumaNode(i), slot |-> machine.gpus[i], cpus |-> CpuList(i),
   links |-> [j \in {p \in Gpus : p # i /\ CanAccess(i, p)} |-> Interconnect(i, j)]]

-----------------------------------------------------------------------------
(* discover *)

\* Without a device, and when the count cannot be had, discover returns false
\* and changes nothing.
Discover ==
  /\ ~scanning
  /\ Gpus # {}
  /\ numGpus' = Cardinality(Gpus)
  /\ gpus' = <<>>
  /\ scanning' = TRUE
  /\ UNCHANGED <<machine, numaCount, discovered>>

ScanGpu ==
  /\ scanning
  /\ Len(gpus) < numGpus
  /\ gpus' = Append(gpus, Describe(Len(gpus)))
  /\ UNCHANGED <<machine, numGpus, numaCount, discovered, scanning>>

NodesSeen == {gpus[i].numa : i \in DOMAIN gpus} \ {-1}

FinishDiscovery ==
  /\ scanning
  /\ Len(gpus) = numGpus
  /\ numaCount' = IF NodesSeen = {} THEN 1 ELSE Cardinality(NodesSeen)
  /\ discovered' = TRUE
  /\ scanning' = FALSE
  /\ UNCHANGED <<machine, numGpus, gpus>>

TopologyNext == Discover \/ ScanGpu \/ FinishDiscovery

-----------------------------------------------------------------------------
(* Properties *)

\* What is well formed: the files of all devices of a GPU's board hold numbers.
ReadableNuma(gpu) ==
  LET devices == {machine.render[d] : d \in Renders} \cup {machine.card[d] : d \in Cards}
      own == {d \in devices : Matches(d, gpu) /\ d.numa # None}
  IN own # {} /\ \A d \in own : d.numa # Garbage

\* A GPU gets the NUMA node and the CPUs of the board it sits on or none, in
\* whatever order HIP and drm number the devices and whichever files are missing
\* (lines 157-161: the index "could read the wrong GPU's numa_node"); and it
\* gets the node whenever its files can be read.
NumaIsItsOwn ==
  \A i \in DOMAIN gpus :
    LET g == gpus[i]
        board == IF g.slot = None THEN None ELSE g.slot.board
    IN /\ g.numa # -1 => g.numa = machine.numa[board]
       /\ g.cpus \in {None, board}
       /\ ReadableNuma(g.id) => g.numa = machine.numa[board]

\* Two GPUs agree about the link between them, although each is described in a
\* pass of its own that reads the files again, and only GPUs that are on one
\* known node are said to be linked by XGMI (lines 275-286).
LinksAreMutual ==
  \A i, j \in DOMAIN gpus :
    LET a == gpus[i]  b == gpus[j] IN
    b.id \in DOMAIN a.links /\ a.links[b.id] = "XGMI" =>
      /\ a.id \in DOMAIN b.links /\ b.links[a.id] = "XGMI"
      /\ a.numa = b.numa /\ a.numa >= 0
=============================================================================
