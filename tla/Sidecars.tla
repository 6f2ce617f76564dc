------------------------------ MODULE Sidecars ------------------------------
(***************************************************************************)
(* The three sidecar containers a Report carries beside its topologies     *)
(* (report.go): TopologyAdjacency (node -> IDList), TopologySets           *)
(* (node -> Sets) and Parents (node -> Parent).  A Go map is a TLA+        *)
(* function whose DOMAIN is the set of keys present.  An IDList is the set *)
(* of its members; a Sets or Parent value is an opaque model value, since  *)
(* the sidecar code only stores, copies and overwrites it.                 *)
(*                                                                         *)
(* Go maps are reference types, but every operation here is modelled as   *)
(* the value the receiver holds afterwards.                                *)
(***************************************************************************)
EXTENDS TLC

\* An empty Go map (make(map[string]...)).
EmptyMap == [k \in {} |-> k]

(***************************************************************************)
(* IDList, the identifier list kept per node by TopologyAdjacency.  Its    *)
(* code is not under src/: the spec says its add is idempotent and that a *)
(* value copy is independent, so a list is the set of its members.  The   *)
(* Go method has a value receiver and returns the extended list.          *)
(***************************************************************************)
MakeIDList(id) == {id}

IDListAdd(list, id) == list \cup {id}

(***************************************************************************)
(* TopologyAdjacency                                                       *)
(***************************************************************************)
MakeTopologyAdjacency == EmptyMap

\* Copy: a new map holding the same (shared) IDList values.
TopologyAdjacencyCopy(t) == [k \in DOMAIN t |-> t[k]]

\* UnsafeMerge: every key of o is written into t with o's value.
TopologyAdjacencyUnsafeMerge(t, o) == o @@ t

\* UnsafeUnMerge has an empty body.
TopologyAdjacencyUnsafeUnMerge(t, o) == t

\* AddAdjacency: a new node gets a one-element list; for a node already
\* present the list returned by IDList.Add is discarded (t[nodeId].Add(id)
\* on a map element), so the map keeps the list it had.
AddAdjacency(t, nodeId, id) ==
    IF nodeId \notin DOMAIN t
    THEN t @@ (nodeId :> MakeIDList(id))
    ELSE LET discarded == IDListAdd(t[nodeId], id) IN t

(***************************************************************************)
(* TopologySets                                                            *)
(***************************************************************************)
MakeTopologySets == EmptyMap

AddSet(p, nodeId, sets) == (nodeId :> sets) @@ p

TopologySetsCopy(t) == [k \in DOMAIN t |-> t[k]]

TopologySetsUnsafeMerge(t, o) == o @@ t

TopologySetsUnsafeUnMerge(t, o) == t

(***************************************************************************)
(* Parents                                                                 *)
(***************************************************************************)
MakeParents == EmptyMap

AddParent(p, nodeId, parents) == (nodeId :> parents) @@ p

ParentsMerge(t, o) == o @@ t

ParentsCopy(t) == [k \in DOMAIN t |-> t[k]]

\* Mutant: entries already in t win over o's.
ParentsUnsafeMergeKeepOurs(t, o) == t @@ o

ParentsUnsafeMerge(t, o) == o @@ t

ParentsUnsafeUnMerge(t, o) == t

=============================================================================
