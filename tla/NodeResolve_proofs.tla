--------------------------- MODULE NodeResolve_proofs ---------------------------
(* Safety of NodeResolve for any topology, any set of nodes and any hash.     *)
EXTENDS NodeResolve, FiniteSetTheorems, WellFoundedInduction, TLAPS

\* No box is held by two nodes.
Injective ==
  \A m, n \in Node : m # n /\ assigned[m] # None => assigned[m] # assigned[n]

\* The boxes held are boxes of the index: it is filled before the first one is
\* handed out, and nothing empties it.
IInv ==
  /\ TypeOK
  /\ Used \subseteq Candidates
  /\ Injective

LEMMA InitInv == Init => IInv
BY DEF Init, IInv, TypeOK, Used, Candidates, BoxesOf, Injective

LEMMA CandidatesAreBoxes ==
  Candidates \subseteq Box
BY ResolveAssumption DEF Candidates, BoxesOf, Box, index

\* An assignment changes at most the node's own entry, and only a missing one.
LEMMA AssignEffect ==
  ASSUME IInv, NEW n \in Node, Assign(n)
  PROVE  \/ UNCHANGED assigned
         \/ \E b \in Candidates \ Used :
              assigned[n] = None /\ assigned' = [assigned EXCEPT ![n] = b]
BY DEF Assign, EndsAt

LEMMA ResolveInv ==
  ASSUME IInv, NEW c \in Cluster \cup {None}, NEW n \in Node, Resolve(c, n)
  PROVE  IInv'
<1>1. UNCHANGED <<answer, attempted, scene, mode>> /\ UNCHANGED Candidates
  BY DEF Resolve, Candidates, index
<1>2. CASE UNCHANGED assigned
  BY <1>1, <1>2 DEF IInv, TypeOK, Used, Injective
<1>3. CASE \E b \in Candidates \ Used :
             assigned[n] = None /\ assigned' = [assigned EXCEPT ![n] = b]
  <2>1. PICK b \in Candidates \ Used :
          assigned[n] = None /\ assigned' = [assigned EXCEPT ![n] = b]
    BY <1>3
  <2>2. b \in Box /\ assigned \in [Node -> Box \cup {None}]
    BY CandidatesAreBoxes DEF IInv, TypeOK
  <2>3. TypeOK'
    BY <1>1, <2>1, <2>2 DEF IInv, TypeOK
  <2>4. \A m \in Node : assigned'[m] = IF m = n THEN b ELSE assigned[m]
    BY <2>1, <2>2
  <2>5. \A m \in Node : assigned[m] # b
    BY <2>1, <2>2, ResolveAssumption DEF Used
  <2>6. (Used \subseteq Candidates)'
    BY <1>1, <2>1, <2>4 DEF IInv, Used
  <2>7. Injective'
    BY <2>4, <2>5 DEF IInv, Injective
  <2>8. QED
    BY <2>3, <2>6, <2>7 DEF IInv
<1>4. QED
  BY <1>2, <1>3, AssignEffect DEF Resolve

\* The index changes only from empty, when nothing is assigned yet.
LEMMA DiscoverByApiInv ==
  ASSUME IInv, DiscoverByApi
  PROVE  IInv'
<1>1. UNCHANGED assigned /\ answer' \in BOOLEAN /\ attempted' \in BOOLEAN
  BY DEF DiscoverByApi, IInv, TypeOK
<1>2. scene' \subseteq Box
  BY <1>1 DEF DiscoverByApi
<1>3. TypeOK'
  BY <1>1, <1>2 DEF DiscoverByApi, IInv, TypeOK
<1>4. answer => UNCHANGED Candidates
  BY DEF DiscoverByApi, Candidates, index
<1>5. ~answer => Used = {}
  BY DEF IInv, Candidates, BoxesOf, index
<1>6. UNCHANGED Used
  BY <1>1 DEF Used
<1>7. (Used \subseteq Candidates)'
  BY <1>4, <1>5, <1>6 DEF IInv
<1>8. QED
  BY <1>1, <1>3, <1>7 DEF IInv, Injective

LEMMA NextInv == IInv /\ [Next]_vars => IInv'
<1> SUFFICES ASSUME IInv, [Next]_vars PROVE IInv'
  OBVIOUS
<1> USE DEF IInv, TypeOK, Used, Candidates, Injective, index
<1>1. CASE Discover
  BY <1>1 DEF Discover
<1>2. CASE DiscoverByApi
  BY <1>2, DiscoverByApiInv
<1>3. CASE ClearIndexes
  BY <1>3 DEF ClearIndexes
<1>4. CASE \E c \in Cluster \cup {None}, n \in Node : Resolve(c, n)
  BY <1>4, ResolveInv
<1>5. CASE UNCHANGED vars
  BY <1>5 DEF vars
<1>6. QED
  BY <1>1, <1>2, <1>3, <1>4, <1>5 DEF Next

LEMMA Inductive == Spec => []IInv
BY InitInv, NextInv, PTL DEF Spec

\* Type correctness: whatever is assigned is a box, never half of one.
THEOREM TypeCorrect == Spec => []TypeOK
<1>1. IInv => TypeOK
  BY DEF IInv
<1>2. QED
  BY <1>1, Inductive, PTL

-----------------------------------------------------------------------------

\* In a scene discovered by clusters a name alone finds nothing, so a node
\* with an assignment resolves to its own box or to none.
LEMMA ClusteredPath ==
  ASSUME IInv, mode = "clustered",
         NEW c \in Cluster \cup {None}, NEW n \in Node, NeedsFake(c, n)
  PROVE  PathOf(c, n) \in {None, assigned[n]}
<1>1. CASE assigned[n] = None
  BY <1>1 DEF PathOf
<1>2. CASE assigned[n] # None
  <2> DEFINE a == assigned[n]
  <2>1. a \in Box /\ <<a[1], a[2]>> = a
    BY <1>2 DEF IInv, TypeOK, Box
  <2>2. Qualified(a[1], a[2]) \in {None, a}
    BY <2>1 DEF Qualified
  <2>3. Unqualified(a[2]) = None
    BY DEF Unqualified, First
  <2>4. QED
    BY <1>2, <2>2, <2>3 DEF PathOf, Else
<1>3. QED
  BY <1>1, <1>2

\* The docstring's "1 node = 1 prim" for a scene discovered by clusters, for
\* any number of nodes and any hash function.
THEOREM FakePathsApartAlways == Spec => []FakePathsApart
<1>1. IInv => FakePathsApart
  <2> SUFFICES ASSUME IInv, mode = "clustered",
                      NEW c \in Cluster \cup {None}, NEW d \in Cluster \cup {None},
                      NEW m \in Node, NEW n \in Node,
                      m # n, NeedsFake(c, m), NeedsFake(d, n),
                      PathOf(c, m) # None
               PROVE  PathOf(c, m) # PathOf(d, n)
    BY DEF FakePathsApart
  <2>1. PathOf(c, m) = assigned[m] /\ assigned[m] # None
    BY ClusteredPath
  <2>2. assigned[m] # assigned[n]
    BY <2>1 DEF IInv, Injective
  <2>3. PathOf(d, n) \in {None, assigned[n]}
    BY ClusteredPath
  <2>4. QED
    BY <2>1, <2>2, <2>3
<1>2. QED
  BY <1>1, Inductive, PTL

\* An assignment is for good: discoveries, closed stages, a late index and
\* other nodes' assignments leave it alone.
THEOREM FakeStickyAlways == Spec => FakeSticky
<1>1. IInv /\ [Next]_vars =>
        [\A n \in Node : assigned[n] # None => assigned'[n] = assigned[n]]_vars
  <2> SUFFICES ASSUME IInv, Next, NEW n \in Node, assigned[n] # None
               PROVE  assigned'[n] = assigned[n]
    OBVIOUS
  <2>1. CASE UNCHANGED assigned
    BY <2>1
  <2>2. CASE \E c \in Cluster \cup {None}, m \in Node : Resolve(c, m)
    <3>1. PICK m \in Node : UNCHANGED assigned \/ Assign(m)
      BY <2>2 DEF Resolve
    <3>2. \/ UNCHANGED assigned
          \/ \E b \in Candidates \ Used :
               assigned[m] = None /\ assigned' = [assigned EXCEPT ![m] = b]
      BY <3>1, AssignEffect
    <3>3. assigned \in [Node -> Box \cup {None}]
      BY DEF IInv, TypeOK
    <3>4. QED
      BY <3>2, <3>3
  <2>3. QED
    BY <2>1, <2>2 DEF Next, Discover, DiscoverByApi, ClearIndexes
<1>2. QED
  BY <1>1, Inductive, PTL DEF Spec, FakeSticky

-----------------------------------------------------------------------------

LEMMA BoxesFinite ==
  ASSUME NEW rows, IsFiniteSet(rows)
  PROVE  IsFiniteSet(BoxesOf(rows))
<1> DEFINE f == [r \in rows |-> <<r[1], r[3]>>]
<1>1. f \in Surjection(rows, BoxesOf(rows))
  BY DEF Surjection, BoxesOf
<1> HIDE DEF f
<1>2. QED
  BY <1>1, FS_Surjection

\* A set of numbers has a smallest one.
LEMMA Smallest ==
  ASSUME NEW T, T \subseteq Nat, T # {}
  PROVE  \E x \in T : \A y \in T : x <= y
<1>1. PICK x \in T : \A y \in T : <<y, x>> \notin OpToRel(<, Nat)
  BY NatLessThanWellFounded, WFMin, Zenon
<1>2. \A y \in T : ~(y < x)
  BY <1>1 DEF OpToRel
<1>3. QED
  BY <1>2

\* Two places of the list of candidates are at different distances from any hash.
LEMMA ModApart ==
  ASSUME NEW N \in Nat \ {0}, NEW h \in Nat, NEW p \in 0..(N - 1), NEW q \in 0..(N - 1),
         p < q
  PROVE  (p - h) % N # (q - h) % N
<1> SUFFICES ASSUME (p - h) % N = (q - h) % N PROVE FALSE
  OBVIOUS
<1> DEFINE d(x) == (x - h) \div N
           m(x) == (x - h) % N
<1>1. \A x \in {p, q} : d(x) \in Int /\ m(x) \in 0..(N - 1) /\ x - h = N * d(x) + m(x)
  OBVIOUS
<1>2. PICK a \in Int, b \in Int, r \in 0..(N - 1) : p - h = N * a + r /\ q - h = N * b + r
  <2>1. m(p) = m(q)
    OBVIOUS
  <2> HIDE DEF d, m
  <2>2. QED
    BY <1>1, <2>1
<1>3. q - p = N * (b - a) /\ q - p > 0 /\ q - p < N
  <2>1. N * (b - a) = N * b - N * a
    OBVIOUS
  <2>2. QED
    BY <1>2, <2>1
<1>4. CASE b - a >= 1
  <2>1. N * (b - a - 1) >= 0
    BY <1>4
  <2>2. N * (b - a - 1) = N * (b - a) - N
    OBVIOUS
  <2>3. QED
    BY <1>3, <2>1, <2>2
<1>5. CASE b - a <= 0
  <2>1. N * (a - b) >= 0
    BY <1>5
  <2>2. N * (a - b) = 0 - N * (b - a)
    OBVIOUS
  <2>3. QED
    BY <1>3, <2>1, <2>2
<1>6. QED
  BY <1>4, <1>5

LEMMA CandidatesFinite == IsFiniteSet(Candidates) /\ Cardinality(Candidates) \in Nat
<1>1. IsFiniteSet(index)
  BY ResolveAssumption, FS_EmptySet DEF index
<1>2. QED
  BY <1>1, BoxesFinite, FS_CardinalityType DEF Candidates

\* The sorted list has one place for each candidate, and so has the probe.
LEMMA PositionsApart ==
  ASSUME NEW n \in Node
  PROVE  /\ \A x \in Candidates : Distance(n, x) \in Nat
         /\ \A x, y \in Candidates : Distance(n, x) = Distance(n, y) => x = y
<1> DEFINE before(b) == {x \in Candidates : Place[x] < Place[b]}
           N == Cardinality(Candidates)
<1>0. N \in Nat /\ IsFiniteSet(Candidates) /\ Hash[n] \in Nat
  BY CandidatesFinite, ResolveAssumption
<1>1. \A x \in Candidates : x \in Box /\ Place[x] \in Nat
  BY CandidatesAreBoxes, ResolveAssumption
<1>2. \A x \in Candidates : IsFiniteSet(before(x)) /\ Position(x) \in Nat
  BY <1>0, FS_Subset, FS_CardinalityType DEF Position
<1>3. ASSUME NEW x \in Candidates, NEW T \in SUBSET Candidates, before(x) \cup {x} \subseteq T
      PROVE  Position(x) < Cardinality(T)
  <2>1. x \notin before(x)
    BY <1>1
  <2>2. IsFiniteSet(before(x) \cup {x}) /\ Cardinality(before(x) \cup {x}) = Position(x) + 1
    BY <1>2, <2>1, FS_AddElement DEF Position
  <2>3. IsFiniteSet(T) /\ Cardinality(T) \in Nat
    BY <1>0, FS_Subset, FS_CardinalityType
  <2>4. Cardinality(before(x) \cup {x}) <= Cardinality(T)
    BY <1>3, <2>3, FS_Subset
  <2>5. Position(x) \in Nat
    BY <1>2
  <2> HIDE DEF before
  <2>6. QED
    BY <2>2, <2>3, <2>4, <2>5
<1>4. \A x \in Candidates : Position(x) \in 0..(N - 1) /\ N \in Nat \ {0}
  <2> TAKE x \in Candidates
  <2>1. Position(x) < N
    BY <1>3
  <2>2. Position(x) \in Nat /\ N \in Nat
    BY <1>0, <1>2
  <2> HIDE DEF N
  <2>3. QED
    BY <2>1, <2>2
<1>5. ASSUME NEW x \in Candidates, NEW y \in Candidates, Place[x] < Place[y]
      PROVE  Position(x) < Position(y)
  <2>1. \A z \in before(x) : Place[z] < Place[y]
    BY <1>1, <1>5
  <2>2. before(x) \cup {x} \subseteq before(y) /\ before(y) \in SUBSET Candidates
    BY <1>5, <2>1
  <2>3. QED
    BY <1>3, <2>2 DEF Position
<1>6. \A x \in Candidates : Distance(n, x) \in Nat
  <2> TAKE x \in Candidates
  <2>1. Position(x) - Hash[n] \in Int /\ N \in Nat \ {0}
    BY <1>0, <1>4
  <2> HIDE DEF N
  <2>2. (Position(x) - Hash[n]) % N \in Nat
    BY <2>1
  <2>3. QED
    BY <2>2 DEF Distance, N
<1>7. ASSUME NEW x \in Candidates, NEW y \in Candidates, Place[x] < Place[y]
      PROVE  Distance(n, x) # Distance(n, y)
  BY <1>0, <1>4, <1>5, <1>7, ModApart DEF Distance
<1>8. QED
  <2>1. ASSUME NEW x \in Candidates, NEW y \in Candidates,
               Distance(n, x) = Distance(n, y)
        PROVE  Place[x] = Place[y]
    BY <1>1, <1>7, <2>1
  <2>2. QED
    BY <1>1, <1>6, <2>1, ResolveAssumption

\* The probe ends at exactly one box if any is free.
LEMMA ProbeEnds ==
  ASSUME NEW n \in Node, Candidates \ Used # {}
  PROVE  \E b \in Candidates : \A a \in Candidates : EndsAt(n, a) <=> a = b
<1> DEFINE free == Candidates \ Used
           T == {Distance(n, x) : x \in free}
<1>1. T \subseteq Nat /\ T # {}
  BY PositionsApart
<1>2. PICK d \in T : \A y \in T : d <= y
  BY <1>1, Smallest
<1>3. PICK b \in free : d = Distance(n, b)
  OBVIOUS
<1>4. EndsAt(n, b)
  BY <1>2, <1>3 DEF EndsAt
<1>5. ASSUME NEW a \in Candidates, EndsAt(n, a)
      PROVE  a = b
  <2>1. a \in free /\ Distance(n, a) <= Distance(n, b)
    BY <1>5 DEF EndsAt
  <2>2. Distance(n, b) <= Distance(n, a)
    BY <1>2, <1>3, <2>1
  <2>3. Distance(n, a) \in Nat /\ Distance(n, b) \in Nat
    BY PositionsApart, <2>1
  <2>4. QED
    BY <2>1, <2>2, <2>3, PositionsApart
<1>6. QED
  BY <1>4, <1>5

\* Comparing the two sizes tells exactly whether every box of the index is
\* held, because only boxes of the index are; and while one is free the probe
\* ends at exactly one, for any hash and any order.
THEOREM FullIsExactAlways == Spec => []FullIsExact
<1>1. IInv => FullIsExact
  <2> SUFFICES ASSUME IInv PROVE FullIsExact
    OBVIOUS
  <2>1. IsFiniteSet(Candidates) /\ Used \subseteq Candidates
    BY CandidatesFinite DEF IInv
  <2>2. /\ Cardinality(Used) <= Cardinality(Candidates)
        /\ Cardinality(Used) = Cardinality(Candidates) => Used = Candidates
    BY <2>1, FS_Subset
  <2>3. Cardinality(Used) \in Nat /\ Cardinality(Candidates) \in Nat
    BY <2>1, FS_Subset, FS_CardinalityType
  <2>4. CASE Full
    BY <2>2, <2>3, <2>4 DEF FullIsExact, Full
  <2>5. CASE ~Full
    <3>1. Candidates \ Used # {}
      <4>1. Cardinality(Used) # Cardinality(Candidates)
        BY <2>3, <2>5 DEF Full
      <4>2. QED
        BY <2>1, <4>1
    <3>2. QED
      BY <2>5, <3>1, ProbeEnds DEF FullIsExact
  <2>6. QED
    BY <2>4, <2>5
<1>2. QED
  BY <1>1, Inductive, PTL
=============================================================================
