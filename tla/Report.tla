------------------------------- MODULE Report -------------------------------
(***************************************************************************)
(* The Report value of report.go and the operations on it: the layer       *)
(* registry (topologyNames and its three sublists), the per-field          *)
(* selectors, the paired walks, MakeReport, Copy, UnsafeMerge and          *)
(* UnsafeUnMerge.                                                          *)
(*                                                                         *)
(* A Report is a record.  Its per-layer fields are grouped by kind: the    *)
(* field r.topology[l] stands for the Go field selected by topology(l)     *)
(* (e.g. r.Host for "host"), r.parents[l] for topologyParent(l) (e.g.      *)
(* r.HostParents), and likewise r.adjacency and r.sets.  The report ID is  *)
(* left out: no property tells two IDs apart.                              *)
(***************************************************************************)
EXTENDS Integers, Sequences, Functions, Sidecars

CONSTANTS
    Node,       \* node identifiers that reports may mention
    Domain,     \* DNS names
    Addr,       \* resolved addresses
    Nil         \* the nil pointer a selector returns for an unknown name

ASSUME Nil \notin STRING

(***************************************************************************)
(* Topology and DNSRecords are collaborators whose code is not under src/. *)
(* From the spec: a Topology is the set of its node IDs, merge absorbs the *)
(* argument's nodes and unmerge removes them; a DNS table maps a name to   *)
(* its addresses and merging keeps every name, uniting the addresses.      *)
(***************************************************************************)
MakeTopology == {}

TopologyCopy(t) == t

TopologyUnsafeMerge(t, o) == t \cup o

TopologyUnsafeUnMerge(t, o) == t \ o

TopologyAddNode(t, n) == t \cup {n}

DNSCopy(d) == d

DNSMerge(a, b) ==
    [k \in DOMAIN a \cup DOMAIN b |->
        (IF k \in DOMAIN a THEN a[k] ELSE {}) \cup (IF k \in DOMAIN b THEN b[k] ELSE {})]

(***************************************************************************)
(* The layer registry: the canonical walk order of every field kind.       *)
(***************************************************************************)
topologyNames ==
    << "endpoint", "process", "container", "container_image", "cloud_provider",
       "cloud_region", "kubernetes_cluster", "pod", "service", "namespace",
       "host", "overlay" >>

topologyAdjacencyNames == << "endpoint" >>

topologyParentNames ==
    << "endpoint", "process", "container", "container_image", "cloud_region",
       "kubernetes_cluster", "pod", "service", "namespace", "host", "overlay" >>

topologySetNames == << "container", "overlay" >>

(***************************************************************************)
(* The selectors: the switch of each returns the field for a name it       *)
(* knows, and nil otherwise.                                               *)
(***************************************************************************)
topology(name) ==
    IF name \in {"endpoint", "process", "container", "container_image",
                 "cloud_provider", "cloud_region", "kubernetes_cluster", "pod",
                 "service", "namespace", "host", "overlay"}
    THEN name ELSE Nil

topologyAdjacency(name) == IF name = "endpoint" THEN name ELSE Nil

\* Mutant: the case for "overlay" missing from the parents switch.
topologyParentMissingOverlay(name) ==
    IF name \in {"endpoint", "process", "container", "container_image",
                 "cloud_region", "kubernetes_cluster", "pod", "service",
                 "namespace", "host"}
    THEN name ELSE Nil

topologyParent(name) ==
    IF name \in {"endpoint", "process", "container", "container_image",
                 "cloud_region", "kubernetes_cluster", "pod", "service",
                 "namespace", "host", "overlay"}
    THEN name ELSE Nil

topologySet(name) == IF name \in {"container", "overlay"} THEN name ELSE Nil

\* Report.Topology(name): the topology and true, or an empty one and false.
ReportTopology(r, name) ==
    IF topology(name) # Nil THEN << r.topology[topology(name)], TRUE >>
                            ELSE << MakeTopology, FALSE >>

(***************************************************************************)
(* The fields the Report struct declares, per kind.                        *)
(***************************************************************************)
TopologyFields ==
    {"endpoint", "process", "container", "cloud_provider", "cloud_region",
     "kubernetes_cluster", "pod", "service", "namespace", "container_image",
     "host", "overlay"}

AdjacencyFields == {"endpoint"}

ParentsFields == TopologyFields \ {"cloud_provider"}

SetsFields == {"container", "overlay"}

\* MakeReport: every field allocated empty, zero TS and Window.
MakeReport ==
    [ TS        |-> 0,
      DNS       |-> EmptyMap,
      Window    |-> 0,
      Shortcut  |-> FALSE,
      topology  |-> [l \in TopologyFields |-> MakeTopology],
      adjacency |-> [l \in AdjacencyFields |-> MakeTopologyAdjacency],
      parents   |-> [l \in ParentsFields |-> MakeParents],
      sets      |-> [l \in SetsFields |-> MakeTopologySets] ]

(***************************************************************************)
(* The paired walks.  A walk visits the field each name of its registry    *)
(* list selects and applies the walk's function to the receiver's field   *)
(* and the other report's; fields no name selects keep their value.  The   *)
(* function is passed as its pointwise result f[field] = f(ours, theirs),  *)
(* and the walk returns the receiver's new fields of that kind.  With the  *)
(* registry as it is every name selects a field; a name its selector did  *)
(* not know would give nil, which the Go functions dereference.           *)
(***************************************************************************)
TopologiesWalked == {topology(topologyNames[i]) : i \in DOMAIN topologyNames}

AdjacenciesWalked ==
    {topologyAdjacency(topologyAdjacencyNames[i]) : i \in DOMAIN topologyAdjacencyNames}

ParentsWalked == {topologyParent(topologyParentNames[i]) : i \in DOMAIN topologyParentNames}

SetsWalked == {topologySet(topologySetNames[i]) : i \in DOMAIN topologySetNames}

WalkPaired(ours, walked, f) ==
    [field \in DOMAIN ours |-> IF field \in walked THEN f[field] ELSE ours[field]]

WalkPairedTopologies(r, f) == WalkPaired(r.topology, TopologiesWalked, f)

WalkPairedAdjacencies(r, f) == WalkPaired(r.adjacency, AdjacenciesWalked, f)

WalkPairedParents(r, f) == WalkPaired(r.parents, ParentsWalked, f)

WalkPairedSets(r, f) == WalkPaired(r.sets, SetsWalked, f)

(***************************************************************************)
(* Copy: scalar fields and DNS copied, per-layer fields start as Go zero   *)
(* values (empty) and are filled by the four walks.                        *)
(***************************************************************************)
\* Mutant: the sets walk left out, so the copy's sets keep their zero value.
ReportCopySkipSets(r) ==
    LET new == [ TS |-> r.TS, DNS |-> DNSCopy(r.DNS), Window |-> r.Window,
                 Shortcut |-> r.Shortcut,
                 topology  |-> [l \in TopologyFields |-> MakeTopology],
                 adjacency |-> [l \in AdjacencyFields |-> EmptyMap],
                 parents   |-> [l \in ParentsFields |-> EmptyMap],
                 sets      |-> [l \in SetsFields |-> EmptyMap] ]
    IN [ new EXCEPT
           !.topology  = WalkPairedTopologies(new, [l \in TopologyFields |-> TopologyCopy(r.topology[l])]),
           !.adjacency = WalkPairedAdjacencies(new, [l \in AdjacencyFields |-> TopologyAdjacencyCopy(r.adjacency[l])]),
           !.parents   = WalkPairedParents(new, [l \in ParentsFields |-> ParentsCopy(r.parents[l])]) ]

ReportCopy(r) ==
    LET new == [ TS |-> r.TS, DNS |-> DNSCopy(r.DNS), Window |-> r.Window,
                 Shortcut |-> r.Shortcut,
                 topology  |-> [l \in TopologyFields |-> MakeTopology],
                 adjacency |-> [l \in AdjacencyFields |-> EmptyMap],
                 parents   |-> [l \in ParentsFields |-> EmptyMap],
                 sets      |-> [l \in SetsFields |-> EmptyMap] ]
    IN [ new EXCEPT
           !.topology  = WalkPairedTopologies(new, [l \in TopologyFields |-> TopologyCopy(r.topology[l])]),
           !.adjacency = WalkPairedAdjacencies(new, [l \in AdjacencyFields |-> TopologyAdjacencyCopy(r.adjacency[l])]),
           !.parents   = WalkPairedParents(new, [l \in ParentsFields |-> ParentsCopy(r.parents[l])]),
           !.sets      = WalkPairedSets(new, [l \in SetsFields |-> TopologySetsCopy(r.sets[l])]) ]

\* Mutant: the comparison reversed (other.TS.After(r.TS)).
MergedTSLatest(r, o) == IF o.TS # 0 /\ (r.TS = 0 \/ r.TS < o.TS) THEN o.TS ELSE r.TS

\* The merged report keeps the earliest non-zero timestamp.
MergedTS(r, o) == IF o.TS # 0 /\ (r.TS = 0 \/ o.TS < r.TS) THEN o.TS ELSE r.TS

(***************************************************************************)
(* UnsafeMerge and UnsafeUnMerge, one operator per in-place statement of   *)
(* the Go method, in code order; each method is their composition.        *)
(***************************************************************************)

\* Mutant: the DNS table replaced by other's instead of merged.
MergeScalarsReplaceDNS(r, o) ==
    [r EXCEPT !.TS = MergedTS(r, o), !.DNS = DNSCopy(o.DNS), !.Window = r.Window + o.Window]

\* TS keeps the earliest non-zero time, DNS is merged, Window is added.
MergeScalars(r, o) ==
    [r EXCEPT !.TS = MergedTS(r, o), !.DNS = DNSMerge(r.DNS, o.DNS), !.Window = r.Window + o.Window]

MergeTopologies(r, o) ==
    [r EXCEPT !.topology = WalkPairedTopologies(r,
        [l \in TopologyFields |-> TopologyUnsafeMerge(r.topology[l], o.topology[l])])]

MergeAdjacencies(r, o) ==
    [r EXCEPT !.adjacency = WalkPairedAdjacencies(r,
        [l \in AdjacencyFields |-> TopologyAdjacencyUnsafeMerge(r.adjacency[l], o.adjacency[l])])]

MergeParents(r, o) ==
    [r EXCEPT !.parents = WalkPairedParents(r,
        [l \in ParentsFields |-> ParentsUnsafeMerge(r.parents[l], o.parents[l])])]

MergeSets(r, o) ==
    [r EXCEPT !.sets = WalkPairedSets(r,
        [l \in SetsFields |-> TopologySetsUnsafeMerge(r.sets[l], o.sets[l])])]

UnsafeMerge(r, o) ==
    MergeSets(MergeParents(MergeAdjacencies(MergeTopologies(MergeScalars(r, o), o), o), o), o)

\* Mutant: Window left out of the retraction, like DNS in the TODO.
UnMergeWindowSkipped(r, o) == r

UnMergeWindow(r, o) == [r EXCEPT !.Window = r.Window - o.Window]

\* Mutant: the topology walk left out of the retraction.
UnMergeTopologiesSkipped(r, o) == r

UnMergeTopologies(r, o) ==
    [r EXCEPT !.topology = WalkPairedTopologies(r,
        [l \in TopologyFields |-> TopologyUnsafeUnMerge(r.topology[l], o.topology[l])])]

UnMergeAdjacencies(r, o) ==
    [r EXCEPT !.adjacency = WalkPairedAdjacencies(r,
        [l \in AdjacencyFields |-> TopologyAdjacencyUnsafeUnMerge(r.adjacency[l], o.adjacency[l])])]

UnMergeParents(r, o) ==
    [r EXCEPT !.parents = WalkPairedParents(r,
        [l \in ParentsFields |-> ParentsUnsafeUnMerge(r.parents[l], o.parents[l])])]

UnMergeSets(r, o) ==
    [r EXCEPT !.sets = WalkPairedSets(r,
        [l \in SetsFields |-> TopologySetsUnsafeUnMerge(r.sets[l], o.sets[l])])]

\* UnsafeUnMerge: only Window and the topologies are retracted; the sidecar
\* unmerges are empty.
UnsafeUnMerge(r, o) ==
    UnMergeSets(UnMergeParents(UnMergeAdjacencies(UnMergeTopologies(UnMergeWindow(r, o), o), o), o), o)

=============================================================================
