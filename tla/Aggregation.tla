---------------------------- MODULE Aggregation ----------------------------
(***************************************************************************)
(* The data flow of the spec around report.go: probes build Reports with   *)
(* the sidecar add operations, publish them, and one aggregation worker    *)
(* folds each published Report into its running Report with UnsafeMerge,  *)
(* retracts the oldest contribution with UnsafeUnMerge when it leaves the  *)
(* rolling window, and hands readers a snapshot made with Copy.  The       *)
(* worker is the single writer the spec requires, so every merge, unmerge  *)
(* and copy is one step.                                                   *)
(*                                                                         *)
(* The probe and collector loops are not under src/; their steps here come *)
(* from the spec (section 2, data flow) and call the operations of Report. *)
(***************************************************************************)
EXTENDS Report, SequencesExt, FiniteSetsExt

CONSTANTS
    Probe,        \* probes producing reports
    ProbeLayers,  \* layers the probes put nodes, parents and sets in
    ParentVal,    \* Parent records (the ancestor chain of a node)
    SetVal,       \* identity Sets values
    TSVal,        \* report timestamps; 0 is the zero time.Time
    WindowVal,    \* report windows (time.Duration)
    MaxBuild,     \* bound: add operations a probe makes on one report
    MaxMerges     \* bound: reports the worker merges in one behaviour

ASSUME /\ ProbeLayers \subseteq TopologyFields
       /\ 0 \in TSVal /\ TSVal \subseteq Nat
       /\ WindowVal \subseteq Nat
       /\ MaxBuild \in Nat /\ MaxMerges \in Nat

VARIABLES
    probe,      \* probe -> the Report it is building
    built,      \* probe -> add operations made on it since it was published
    adjAdded,   \* probe -> <<node, id>> pairs passed to AddAdjacency since then
    rpt,        \* the aggregation worker's running Report
    live,       \* contributions merged and not yet retracted, oldest first
    history,    \* every contribution merged, in merge order
    snapshot    \* the last Copy handed to a reader

vars == << probe, built, adjAdded, rpt, live, history, snapshot >>

SidecarKinds == {"adjacency", "parents", "sets"}

Init ==
    /\ probe = [p \in Probe |-> MakeReport]
    /\ built = [p \in Probe |-> 0]
    /\ adjAdded = [p \in Probe |-> {}]
    /\ rpt = MakeReport
    /\ live = << >>
    /\ history = << >>
    /\ snapshot = MakeReport

\* One add operation of probe p on its report.
Build(p, r2) ==
    /\ built[p] < MaxBuild
    /\ probe' = [probe EXCEPT ![p] = r2]
    /\ built' = [built EXCEPT ![p] = @ + 1]

AddNode(p, l, n) ==
    /\ Build(p, [probe[p] EXCEPT !.topology[l] = TopologyAddNode(@, n)])
    /\ UNCHANGED << adjAdded, rpt, live, history, snapshot >>

ProbeAddAdjacency(p, n, id) ==
    /\ Build(p, [probe[p] EXCEPT !.adjacency["endpoint"] = AddAdjacency(@, n, id)])
    /\ adjAdded' = [adjAdded EXCEPT ![p] = @ \cup {<< n, id >>}]
    /\ UNCHANGED << rpt, live, history, snapshot >>

ProbeAddParent(p, l, n, v) ==
    /\ Build(p, [probe[p] EXCEPT !.parents[l] = AddParent(@, n, v)])
    /\ UNCHANGED << adjAdded, rpt, live, history, snapshot >>

ProbeAddSet(p, l, n, s) ==
    /\ Build(p, [probe[p] EXCEPT !.sets[l] = AddSet(@, n, s)])
    /\ UNCHANGED << adjAdded, rpt, live, history, snapshot >>

ProbeAddDNS(p, d, a) ==
    /\ Build(p, [probe[p] EXCEPT !.DNS = DNSMerge(@, d :> {a})])
    /\ UNCHANGED << adjAdded, rpt, live, history, snapshot >>

\* Probe p stamps its report with a time and window and publishes it; the
\* worker merges it into the running report and the probe starts afresh.
Publish(p, ts, w) ==
    LET sent == [probe[p] EXCEPT !.TS = ts, !.Window = w]
    IN /\ Len(history) < MaxMerges
       /\ rpt' = UnsafeMerge(rpt, sent)
       /\ live' = Append(live, sent)
       /\ history' = Append(history, sent)
       /\ probe' = [probe EXCEPT ![p] = MakeReport]
       /\ built' = [built EXCEPT ![p] = 0]
       /\ adjAdded' = [adjAdded EXCEPT ![p] = {}]
       /\ UNCHANGED snapshot

\* The oldest contribution leaves the rolling window and is unmerged.
Expire ==
    /\ live # << >>
    /\ rpt' = UnsafeUnMerge(rpt, Head(live))
    /\ live' = Tail(live)
    /\ UNCHANGED << probe, built, adjAdded, history, snapshot >>

\* A reader takes a snapshot while the worker is between operations.
TakeCopy ==
    /\ snapshot' = ReportCopy(rpt)
    /\ UNCHANGED << probe, built, adjAdded, rpt, live, history >>

\* One add operation of probe p on the report it is building.
ProbeStep(p) ==
    \/ \E l \in ProbeLayers, n \in Node : AddNode(p, l, n)
    \/ \E n, id \in Node : ProbeAddAdjacency(p, n, id)
    \/ \E l \in ProbeLayers \cap ParentsFields, n \in Node, v \in ParentVal :
          ProbeAddParent(p, l, n, v)
    \/ \E l \in ProbeLayers \cap SetsFields, n \in Node, s \in SetVal :
          ProbeAddSet(p, l, n, s)
    \/ \E d \in Domain, a \in Addr : ProbeAddDNS(p, d, a)

Next ==
    \/ \E p \in Probe :
          \/ ProbeStep(p)
          \/ \E ts \in TSVal, w \in WindowVal : Publish(p, ts, w)
    \/ Expire
    \/ TakeCopy

Spec == Init /\ [][Next]_vars

-----------------------------------------------------------------------------
(***************************************************************************)
(* Properties                                                              *)
(***************************************************************************)
ReportType ==
    [ TS : Nat, DNS : UNION {[D -> SUBSET Addr] : D \in SUBSET Domain},
      Window : Int, Shortcut : BOOLEAN,
      topology : [TopologyFields -> SUBSET Node],
      adjacency : [AdjacencyFields -> UNION {[D -> SUBSET Node] : D \in SUBSET Node}],
      parents : [ParentsFields -> UNION {[D -> ParentVal] : D \in SUBSET Node}],
      sets : [SetsFields -> UNION {[D -> SetVal] : D \in SUBSET Node}] ]

TypeOK ==
    /\ probe \in [Probe -> ReportType]
    /\ built \in [Probe -> 0..MaxBuild]
    /\ adjAdded \in [Probe -> SUBSET (Node \X Node)]
    /\ rpt \in ReportType /\ snapshot \in ReportType
    /\ live \in Seq(ReportType) /\ history \in Seq(ReportType)

\* Window accounting (Report.Window comment, UnsafeMerge/UnsafeUnMerge): after
\* any sequence of merges and rolling-window retractions the running
\* report's Window is the sum of the windows of the contributions still in it.
WindowMatchesLive ==
    rpt.Window = FoldSeq(LAMBDA c, acc : c.Window + acc, 0, live)

\* Timestamp rule of UnsafeMerge: the running report carries the earliest
\* non-zero timestamp of every report ever merged (retraction does not move
\* it), and the zero time when none had one.
TSIsEarliestMerged ==
    LET stamps == {history[i].TS : i \in DOMAIN history} \ {0}
    IN rpt.TS = IF stamps = {} THEN 0 ELSE Min(stamps)

\* Sidecar overwrite policy of UnsafeMerge through the walks: for every
\* sidecar kind, layer and node, the running report holds exactly the entry
\* of the last merged report that had one, and none if no merged report
\* had one -- unmerges and later reports without the node leave it alone.
SidecarsAreLastWrite ==
    \A k \in SidecarKinds : \A l \in DOMAIN rpt[k] : \A n \in Node :
        LET writers == {i \in DOMAIN history : n \in DOMAIN history[i][k][l]}
        IN IF writers = {} THEN n \notin DOMAIN rpt[k][l]
           ELSE /\ n \in DOMAIN rpt[k][l]
                /\ rpt[k][l][n] = history[Max(writers)][k][l][n]

\* Topology retraction: every node in a running topology was reported, in
\* that layer, by a contribution still in the window.
TopologyFromLive ==
    \A l \in TopologyFields :
        rpt.topology[l] \subseteq UNION {live[i].topology[l] : i \in DOMAIN live}

\* DNS merge keeps names: every name any merged report resolved is still
\* in the running table with at least the addresses it was reported with.
DNSKeepsEveryName ==
    \A i \in DOMAIN history : \A d \in DOMAIN history[i].DNS :
        d \in DOMAIN rpt.DNS /\ history[i].DNS[d] \subseteq rpt.DNS[d]

\* Copy is content-equal to its source (spec section 8): every snapshot a
\* reader takes equals, field for field, the running report it copied --
\* the walks fill every per-layer field Copy starts as a zero value.
CopyIsFaithful == [][snapshot' # snapshot => snapshot' = rpt]_snapshot

\* The registry lists, the selector switches and the Report struct agree:
\* each paired walk visits exactly the fields of its kind that the running
\* report has.  A list name without its switch case hands the walk
\* function nil, and a field no name selects is skipped by UnsafeMerge and
\* UnsafeUnMerge and left at its zero value by Copy -- for every layer, not
\* only the ones the probes of this model fill.
WalksCoverFields ==
    /\ TopologiesWalked = DOMAIN rpt.topology
    /\ AdjacenciesWalked = DOMAIN rpt.adjacency
    /\ ParentsWalked = DOMAIN rpt.parents
    /\ SetsWalked = DOMAIN rpt.sets

(***************************************************************************)
(* Properties the code is checked against and found not to have.          *)
(***************************************************************************)

\* The UnsafeUnMerge comment: it "removes any information from r that would
\* be added by merging other" -- so after retracting a contribution no
\* sidecar entry remains that only retracted contributions supplied.
UnMergeRemovesSidecars ==
    \A k \in SidecarKinds : \A l \in DOMAIN rpt[k] : \A n \in DOMAIN rpt[k][l] :
        \E i \in DOMAIN live : n \in DOMAIN live[i][k][l]

\* AddAdjacency records the adjacency: after AddAdjacency(n, id) the
\* probe's endpoint adjacency lists id among n's neighbours.
AdjacencyRecorded ==
    \A p \in Probe : \A pair \in adjAdded[p] :
        LET adj == probe[p].adjacency["endpoint"]
        IN pair[1] \in DOMAIN adj /\ pair[2] \in adj[pair[1]]

=============================================================================
