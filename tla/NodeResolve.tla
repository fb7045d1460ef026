------------------------------ MODULE NodeResolve ------------------------------
(***************************************************************************)
(* Which box prim an envelope's (cluster, node) resolves to: the node      *)
(* index read from the topology service, the names the last discovery has  *)
(* indexed, and the dev fake mapping that gives a node neither knows some  *)
(* prim of the index for the rest of the extension's life.                 *)
(*                                                                         *)
(* A box is a <<cluster, prim name>> pair.  Guess stands for the spelling  *)
(* rules: the prim name a node's own name spells, with or without the      *)
(* BOX_ prefix.  Two boxes of one cluster have different names, and the    *)
(* topology service gives one well-formed answer or none.                  *)
(***************************************************************************)
EXTENDS Integers, FiniteSets

CONSTANTS
  Cluster, Node, PrimName,
  Index,      \* the topology's rows <<cluster, node, prim name>>
  Guess,      \* [Node -> PrimName \cup {None}]
  Hash,       \* [Node -> Nat], fixed for one process
  Place,      \* [Box -> Nat]: the order of boxes, as sorted and as traversed
  FakeEnabled, \* DEV_FAKE_NODE_MAPPING
  None

Box == Cluster \X PrimName

ASSUME ResolveAssumption ==
  /\ Index \subseteq Cluster \X Node \X PrimName
  /\ IsFiniteSet(Index)
  /\ \A r, s \in Index : r[1] = s[1] /\ r[2] = s[2] => r = s
  /\ Guess \in [Node -> PrimName \cup {None}]
  /\ Hash \in [Node -> Nat]
  /\ Place \in [Box -> Nat]
  /\ \A a, b \in Box : Place[a] = Place[b] => a = b
  /\ FakeEnabled \in BOOLEAN
  /\ None \notin Cluster \cup PrimName \cup Box

VARIABLES
  answer,    \* the topology's answer is held: _topology_api_data is not None
  attempted, \* _topology_api_fetch_attempted
  scene,     \* boxes the last discovery indexed
  mode,      \* how it found them: "clustered", "flat" or "api"
  assigned   \* _dev_fake_assigned, None where it has no entry

vars == <<answer, attempted, scene, mode, assigned>>

\* _cluster_node_to_prim, filled together with _topology_api_data.
index == IF answer THEN Index ELSE {}

TypeOK ==
  /\ answer \in BOOLEAN
  /\ attempted \in BOOLEAN
  /\ scene \subseteq Box
  /\ mode \in {"clustered", "flat", "api"}
  /\ assigned \in [Node -> Box \cup {None}]

\* on_startup reads the node index, or fails to and goes on without.
Init ==
  /\ answer \in BOOLEAN
  /\ attempted = FALSE
  /\ scene = {}
  /\ mode = "clustered"
  /\ assigned = [n \in Node |-> None]
-----------------------------------------------------------------------------
(* The node index and the discovered boxes                                 *)

BoxesOf(rows) == {<<r[1], r[3]>> : r \in rows}

\* discover_topology after initialize cleared the indexes: they hold whatever
\* boxes the stage has by now.
Discover ==
  /\ mode' \in {"clustered", "flat"}
  /\ scene' \in SUBSET Box
  /\ UNCHANGED <<answer, attempted, assigned>>

\* No rack found by its name: the boxes of the topology's answer are looked
\* for; an answer that is not held is asked for once more, and only once.
DiscoverByApi ==
  /\ \/ answer /\ UNCHANGED <<answer, attempted>>
     \/ ~answer /\ ~attempted /\ attempted' = TRUE /\ answer' \in BOOLEAN
     \/ ~answer /\ attempted /\ UNCHANGED <<answer, attempted>>
  /\ mode' = "api"
  /\ scene' \in IF answer' THEN SUBSET Box ELSE {{}}
  /\ UNCHANGED assigned

\* cleanup, and initialize before its discovery: the indexes of the stage are
\* cleared, the node index and the assignments stay.
ClearIndexes ==
  /\ scene' = {}
  /\ UNCHANGED <<answer, attempted, mode, assigned>>

First(boxes) ==
  IF boxes = {} THEN None
  ELSE CHOOSE b \in boxes : \A x \in boxes : Place[b] <= Place[x]

\* _cluster_box_index under "cluster/prim", which the flat discovery lacks.
Qualified(c, p) == IF mode # "flat" /\ <<c, p>> \in scene THEN <<c, p>> ELSE None

\* _cluster_box_index under the prim name alone.
Unqualified(p) ==
  First({b \in scene : b[2] = p /\ mode # "clustered"})

\* The keys of _server_index that end in the name.
BySuffix(p) == First({b \in scene : b[2] = p})

Else(path, other) == IF path # None THEN path ELSE other

Indexed(c, n) == {r[3] : r \in {s \in index : s[1] = c /\ s[2] = n}}

\* Steps 1 and 2 of _resolve_prim_path: a node in the index is looked up by
\* its prim name or not at all, any other by the name it spells.
KnownPath(c, n) ==
  IF Indexed(c, n) # {}
  THEN LET p == CHOOSE q \in Indexed(c, n) : TRUE
       IN  Else(Qualified(c, p), Unqualified(p))
  ELSE Else(Qualified(c, Guess[n]),
            Else(Unqualified(Guess[n]), BySuffix(Guess[n])))
-----------------------------------------------------------------------------
(* The dev fake mapping                                                    *)

Candidates == BoxesOf(index)
Used == {assigned[n] : n \in Node} \ {None}

\* Position of a box in the sorted list of candidates, and how far a probe
\* that starts at the node's hash has to go to it.
Position(b) == Cardinality({x \in Candidates : Place[x] < Place[b]})
Distance(n, b) == (Position(b) - Hash[n]) % Cardinality(Candidates)

NeedsFake(c, n) == FakeEnabled /\ Indexed(c, n) = {} /\ KnownPath(c, n) = None

\* Slip: the probe looks at what another node holds too.
MutEndsAt(n, b) ==
  \A x \in Candidates : Distance(n, b) <= Distance(n, x)

\* Linear probing ends at the nearest candidate no other node holds.
EndsAt(n, b) ==
  /\ b \notin Used
  /\ \A x \in Candidates \ Used : Distance(n, b) <= Distance(n, x)

\* Slip: one candidate is always left over.
MutFull == Cardinality(Used) + 1 >= Cardinality(Candidates)

Full == Cardinality(Used) >= Cardinality(Candidates)

\* Slip: a node that has its prim probes again.
MutAssign(n) ==
  \/ Full /\ UNCHANGED assigned
  \/ /\ ~Full
     /\ \E b \in Candidates :
          EndsAt(n, b) /\ assigned' = [assigned EXCEPT ![n] = b]

\* Slip: the cluster of the box is forgotten.
MutAssignName(n) ==
  \/ (assigned[n] # None \/ Full) /\ UNCHANGED assigned
  \/ /\ assigned[n] = None /\ ~Full
     /\ \E b \in Candidates :
          EndsAt(n, b) /\ assigned' = [assigned EXCEPT ![n] = b[2]]

\* _dev_fake_resolve, the assignment.
Assign(n) ==
  \/ (assigned[n] # None \/ Full) /\ UNCHANGED assigned
  \/ /\ assigned[n] = None /\ ~Full
     /\ \E b \in Candidates :
          EndsAt(n, b) /\ assigned' = [assigned EXCEPT ![n] = b]

\* The path _resolve_prim_path returns with the assignments it leaves.
PathOf(c, n) ==
  IF ~NeedsFake(c, n) THEN KnownPath(c, n)
  ELSE IF assigned[n] = None THEN None
  ELSE Else(Qualified(assigned[n][1], assigned[n][2]), Unqualified(assigned[n][2]))

\* An envelope or a metrics row of this node arrives; its cluster may be missing.
Resolve(c, n) ==
  /\ IF NeedsFake(c, n) THEN Assign(n) ELSE UNCHANGED assigned
  /\ UNCHANGED <<answer, attempted, scene, mode>>

Next ==
  \/ Discover
  \/ DiscoverByApi
  \/ ClearIndexes
  \/ \E c \in Cluster \cup {None}, n \in Node : Resolve(c, n)

Spec == Init /\ [][Next]_vars
-----------------------------------------------------------------------------
(* Properties                                                              *)

\* "1 node = 1 prim" (_dev_fake_resolve): in a scene discovered by clusters,
\* nodes that were given a box resolve to different prims, in whatever order
\* they appear.  The lookup without the cluster breaks it in the other modes.
FakePathsApart ==
  mode = "clustered" =>
    \A c, d \in Cluster \cup {None}, m, n \in Node :
      /\ m # n /\ NeedsFake(c, m) /\ NeedsFake(d, n)
      /\ PathOf(c, m) # None
      => PathOf(c, m) # PathOf(d, n)

\* An assignment is for good, whatever the stage and the index do.
FakeSticky ==
  [][\A n \in Node : assigned[n] # None => assigned'[n] = assigned[n]]_vars

\* Comparing sizes is enough: a node is refused an assignment only when every
\* box of the index is taken, and otherwise the probe ends, at one box whatever
\* the hash ("should not happen given the length check above", at the return
\* after the probe).  The sizes are those of a dictionary that outlives every
\* stage and of an index that may arrive late.
FullIsExact ==
  IF Full THEN Candidates \subseteq Used
  ELSE \A n \in Node : \E b \in Candidates : \A a \in Candidates : EndsAt(n, a) <=> a = b

=============================================================================
