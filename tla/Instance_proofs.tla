-------------------------- MODULE Instance_proofs --------------------------
(***************************************************************************)
(* Theorems about compile() and the voices of what it compiled, for every  *)
(* set of well-formed blueprints and every block size.                     *)
(***************************************************************************)
EXTENDS Instance, SequenceTheorems, FiniteSetTheorems, WellFoundedInduction, NaturalsInduction, TLAPS

-----------------------------------------------------------------------------
(* Arithmetic.                                                              *)

LEMMA TwoToThe == ASSUME NEW n \in Nat PROVE 2^n \in Nat \ {0}
<1>1. IsFiniteSet(1..n) /\ Cardinality(1..n) = n  BY FS_Interval
<1>2. IsFiniteSet(SUBSET (1..n)) /\ Cardinality(SUBSET (1..n)) = 2^n  BY <1>1, FS_SUBSET
<1>3. Cardinality(SUBSET (1..n)) \in Nat  BY <1>2, FS_CardinalityType
<1>4. SUBSET (1..n) # {}  OBVIOUS
<1>5. Cardinality(SUBSET (1..n)) # 0  BY <1>2, <1>4, FS_EmptySet
<1>6. QED  BY <1>2, <1>3, <1>5

LEMMA PowersArePositive == \A p \in Powers : p \in Nat \ {0}
BY TwoToThe DEF Powers

\* What divides without a rest.
LEMMA Quotient ==
  ASSUME NEW a \in Nat \ {0}, NEW q \in Nat
  PROVE  (q * a) % a = 0 /\ (q * a) \div a = q
<1> DEFINE x == q * a
           d == x \div a
           r == x % a
<1>1. x \in Nat  OBVIOUS
<1>2. d \in Int /\ r \in 0..a-1 /\ x = a * d + r  BY <1>1
<1>3. x = a * q  OBVIOUS
<1> HIDE DEF x, d, r
<1>4. a * (q - d) = r /\ q - d \in Int
  <2>1. a * (q - d) = a * q - a * d  BY <1>2
  <2>2. a * q \in Int /\ a * d \in Int  BY <1>2
  <2>3. QED  BY <2>1, <2>2, <1>2, <1>3
<1>5. CASE q - d >= 1
  <2>1. a * (q - d) >= a * 1  BY <1>2, <1>5
  <2>2. QED  BY <2>1, <1>2, <1>4
<1>6. CASE q - d <= -1
  <2>1. a * (q - d) <= a * (-1)  BY <1>2, <1>6
  <2>2. a * (-1) = -a  OBVIOUS
  <2>3. QED  BY <2>1, <2>2, <1>2, <1>4
<1>7. CASE q = d
  BY <1>2, <1>3, <1>7 DEF x, d, r
<1>8. QED  BY <1>2, <1>5, <1>6, <1>7

\* The first multiple of a that is not below x.
LEMMA AlignedUp ==
  ASSUME NEW x \in Nat, NEW a \in Nat \ {0}
  PROVE  AlignUp(x, a) \in Nat /\ AlignUp(x, a) >= x /\ AlignUp(x, a) % a = 0
<1> DEFINE q == (x + (a - 1)) \div a
<1>1. q \in Nat /\ x + (a - 1) <= a * q + (a - 1)
  <2>1. x + (a - 1) \in Nat  OBVIOUS
  <2>2. QED  BY <2>1
<1>2. AlignUp(x, a) = q * a  BY DEF AlignUp
<1> HIDE DEF q
<1>3. q * a \in Nat /\ q * a = a * q  BY <1>1
<1>4. q * a >= x  BY <1>1, <1>3
<1>5. QED  BY <1>1, <1>2, <1>3, <1>4, Quotient

\* 2^0 is 1, so every node may start from the engine's rate.
LEMMA OneIsAPower == 1 \in Powers /\ 2^0 = 1
<1>1. IsFiniteSet({}) /\ Cardinality({}) = 0  BY FS_EmptySet
<1>2. Cardinality(SUBSET {}) = 2^0  BY <1>1, FS_SUBSET
<1>3. SUBSET {} = {{}}  OBVIOUS
<1>4. Cardinality({{}}) = 1  BY FS_Singleton
<1>5. 2^0 = 1  BY <1>2, <1>3, <1>4
<1>6. QED  BY <1>5 DEF Powers

-----------------------------------------------------------------------------
(* Ascending lists a set, each element once.                                *)

LEMMA Ascends ==
  ASSUME NEW S \in SUBSET Nat, IsFiniteSet(S)
  PROVE  /\ Ascending(S) \in Seq(S)
         /\ {Ascending(S)[n] : n \in DOMAIN Ascending(S)} = S
         /\ \A m, n \in DOMAIN Ascending(S) : Ascending(S)[m] = Ascending(S)[n] => m = n
<1> DEFINE Below(x) == {y \in S : y < x}
           rank == [x \in S |-> Cardinality(Below(x))]
           c == Cardinality(S)
           a == Ascending(S)
<1>1. c \in Nat  BY FS_CardinalityType
<1>2. \A x \in S : IsFiniteSet(Below(x)) /\ Cardinality(Below(x)) \in Nat
  BY FS_Subset, FS_CardinalityType
<1>3. ASSUME NEW x \in S PROVE rank[x] \in 0..c-1
  <2>1. Below(x) \in SUBSET S /\ Below(x) # S  OBVIOUS
  <2>2. Cardinality(Below(x)) <= c /\ Cardinality(Below(x)) # c  BY <2>1, FS_Subset
  <2>3. QED  BY <2>2, <1>1, <1>2
<1>4. ASSUME NEW x \in S, NEW z \in S, x < z PROVE rank[x] # rank[z]
  <2>1. Below(x) \in SUBSET Below(z) /\ x \in Below(z) /\ x \notin Below(x)
    <3>1. x \in Nat /\ z \in Nat /\ \A y \in S : y \in Nat  OBVIOUS
    <3>2. \A y \in S : y < x => y < z  BY <3>1, <1>4
    <3>3. Below(x) \in SUBSET Below(z)  BY <3>2
    <3>4. x \in Below(z)  BY <1>4
    <3>5. ~(x < x)  BY <3>1
    <3>6. x \notin Below(x)  BY <3>5
    <3>7. QED  BY <3>3, <3>4, <3>6
  <2>2. Cardinality(Below(z)) # Cardinality(Below(x))  BY <2>1, <1>2, FS_Subset
  <2>3. QED  BY <2>2
<1>5. \A x, z \in S : rank[x] = rank[z] => x = z
  <2>1. \A x, z \in S : x = z \/ x < z \/ z < x  OBVIOUS
  <2>2. QED  BY <2>1, <1>4
<1>6. rank \in Injection(S, 0..c-1)
  <2>1. rank \in [S -> 0..c-1]  BY <1>3
  <2>2. QED  BY <2>1, <1>5 DEF Injection, IsInjective
<1>7. IsFiniteSet(0..c-1) /\ Cardinality(0..c-1) = c
  <2>1. (IF 0 > c - 1 THEN 0 ELSE c - 1 - 0 + 1) = c  BY <1>1
  <2>2. QED  BY SMTT(30), <2>1, <1>1, FS_Interval
<1>8. rank \in Surjection(S, 0..c-1)  BY <1>6, <1>7, FS_Injection
<1>9. ASSUME NEW k \in 1..c PROVE \E x \in S : Cardinality(Below(x)) = k - 1
  <2>1. k - 1 \in 0..c-1  BY <1>1
  <2>2. QED  BY <2>1, <1>8 DEF Surjection
<1>10. a = [n \in 1..c |-> CHOOSE x \in S : Cardinality(Below(x)) = n - 1]
  BY DEF Ascending
<1>11. ASSUME NEW n \in 1..c PROVE a[n] \in S /\ rank[a[n]] = n - 1
  BY <1>9, <1>10
<1>12. DOMAIN a = 1..c /\ a = [n \in 1..c |-> a[n]]  BY <1>10
<1> HIDE DEF a, rank, c
<1>13. a \in Seq(S)
  <2>1. [n \in 1..c |-> a[n]] \in Seq(S)  BY <1>1, <1>11, IsASeq
  <2>2. QED  BY <2>1, <1>12
<1>14. \A m, n \in 1..c : a[m] = a[n] => m = n
  <2> SUFFICES ASSUME NEW m \in 1..c, NEW n \in 1..c, a[m] = a[n] PROVE m = n  OBVIOUS
  <2>1. rank[a[m]] = m - 1 /\ rank[a[n]] = n - 1  BY <1>11
  <2>2. m - 1 = n - 1  BY <2>1
  <2>3. QED  BY <2>2, <1>1
<1>15. ASSUME NEW x \in S PROVE \E n \in 1..c : a[n] = x
  <2>1. PICK k \in 0..c-1 : k = rank[x]  BY <1>3
  <2>2. k + 1 \in 1..c /\ k + 1 - 1 = k  BY <2>1, <1>1
  <2>3. rank[a[k + 1]] = k /\ a[k + 1] \in S  BY <2>2, <1>11
  <2>4. a[k + 1] = x  BY <2>1, <2>3, <1>5
  <2>5. QED  BY <2>2, <2>4
<1>16. {a[n] : n \in DOMAIN a} = S  BY <1>11, <1>12, <1>15
<1>17. QED  BY <1>12, <1>13, <1>14, <1>16 DEF a

-----------------------------------------------------------------------------
(* What compile() is given.                                                 *)

LEMMA EmptyIsWellFormed == WellFormed(Empty)
BY EmptySeq DEF WellFormed, Empty

LEMMA Given ==
  ASSUME NEW b, WellFormed(b)
  PROVE  /\ b.nodes \in Seq(NodeType) /\ Len(b.nodes) \in Nat /\ DOMAIN b.nodes = 1..Len(b.nodes)
         /\ \A v \in DOMAIN b.nodes : b.nodes[v] \in NodeType
         /\ \A v : IsFiniteSet(Into(b, v)) /\ Cardinality(Into(b, v)) \in Nat
         /\ \A v : \A i \in Into(b, v) : b.conns[i].src \in DOMAIN b.nodes
         /\ DOMAIN b.conns \in SUBSET Nat /\ IsFiniteSet(DOMAIN b.conns)
         /\ \A i \in DOMAIN b.conns : b.conns[i].dst \in DOMAIN b.nodes
<1>1. b.nodes \in Seq(NodeType) /\ b.conns \in Seq(Connection)  BY DEF WellFormed
<1>2. /\ Len(b.nodes) \in Nat /\ DOMAIN b.nodes = 1..Len(b.nodes)
      /\ Len(b.conns) \in Nat /\ DOMAIN b.conns = 1..Len(b.conns)
  BY <1>1, LenProperties
<1>3. \A v \in DOMAIN b.nodes : b.nodes[v] \in NodeType  BY <1>1, <1>2, ElementOfSeq
<1>4. DOMAIN b.conns \in SUBSET Nat /\ IsFiniteSet(DOMAIN b.conns)  BY <1>2, FS_Interval
<1>5. \A v : Into(b, v) \in SUBSET DOMAIN b.conns  BY DEF Into
<1>6. \A v : IsFiniteSet(Into(b, v)) /\ Cardinality(Into(b, v)) \in Nat
  BY <1>4, <1>5, FS_Subset, FS_CardinalityType
<1>7. \A i \in DOMAIN b.conns : b.conns[i].src \in DOMAIN b.nodes /\ b.conns[i].dst \in DOMAIN b.nodes
  BY DEF WellFormed
<1>8. QED  BY <1>1, <1>2, <1>3, <1>4, <1>6, <1>7 DEF Into

LEMMA Facts ==
  ASSUME Typed
  PROVE  /\ WellFormed(bp) /\ B \in Nat \ {0}
         /\ bp.nodes \in Seq(NodeType) /\ Len(bp.nodes) \in Nat /\ Nodes = 1..Len(bp.nodes)
         /\ \A v \in Nodes : Node(v) \in NodeType /\ Sources(v) \subseteq Nodes
         /\ \A v \in Nodes : region_rate[v] \in Nat \ {0} /\ out_stride(v) \in Nat \ {0}
         /\ queue \in Seq(Nodes) /\ DOMAIN queue = 1..Len(queue) /\ Len(queue) \in Nat
         /\ topo_order \in Seq(Nodes) /\ DOMAIN topo_order = 1..Len(topo_order)
         /\ Len(topo_order) \in Nat /\ Done \subseteq Nodes /\ Waiting \subseteq Nodes
<1>1. WellFormed(bp)  BY EmptyIsWellFormed, BlueprintsAssumption DEF Typed
<1>2. B \in Nat \ {0}  BY BlockSizesAssumption, PowersArePositive DEF Typed
<1>3. \A v \in Nodes : Node(v) \in NodeType /\ Sources(v) \subseteq Nodes
  BY <1>1, Given DEF Nodes, Node, Sources
<1>4. \A v \in Nodes : region_rate[v] \in Nat \ {0}  BY PowersArePositive DEF Typed
<1>5. \A a, b \in Nat \ {0} : a * b \in Nat \ {0}  OBVIOUS
<1>6. \A v \in Nodes : out_stride(v) \in Nat \ {0}  BY <1>2, <1>4, <1>5 DEF out_stride
<1>7. queue \in Seq(Nodes) /\ topo_order \in Seq(Nodes)  BY DEF Typed
<1>8. /\ DOMAIN queue = 1..Len(queue) /\ Len(queue) \in Nat
      /\ DOMAIN topo_order = 1..Len(topo_order) /\ Len(topo_order) \in Nat
  BY <1>7, LenProperties
<1>9. Done \subseteq Nodes /\ Waiting \subseteq Nodes
  BY <1>7, <1>8, ElementOfSeq DEF Done, Waiting
<1>10. QED  BY <1>1, <1>2, <1>3, <1>4, <1>6, <1>7, <1>8, <1>9, Given DEF Nodes

-----------------------------------------------------------------------------
(* The beginning.                                                           *)

LEMMA InitCompile == Init => CompileInv
<1> SUFFICES ASSUME Init PROVE CompileInv  OBVIOUS
<1>1. bp = Empty /\ bp.nodes = << >> /\ DOMAIN bp.nodes = {} /\ Nodes = {}
  BY DEF Init, Empty, Nodes
<1>2. << >> \in Seq(Nodes) /\ DOMAIN << >> = {} /\ \A S : << >> \in [{} -> S]
  BY EmptySeq
<1>3. Typed  BY <1>1, <1>2 DEF Init, Typed
<1>4. Sorting  BY <1>1, <1>2 DEF Init, Sorting
<1>5. Rated /\ LaidOut  BY DEF Init, Rated, LaidOut
<1>6. QED  BY <1>3, <1>4, <1>5 DEF CompileInv

LEMMA BeginCompile == ASSUME CompileInv, NEW b \in Blueprints, Begin(b) PROVE CompileInv'
<1>1. WellFormed(b)  BY BlueprintsAssumption
<1>2. /\ Len(b.nodes) \in Nat /\ DOMAIN b.nodes = 1..Len(b.nodes)
      /\ \A v : IsFiniteSet(Into(b, v)) /\ Cardinality(Into(b, v)) \in Nat
      /\ \A v : \A i \in Into(b, v) : b.conns[i].src \in DOMAIN b.nodes
  BY <1>1, Given
<1>3. /\ bp' = b /\ pass' = "sort" /\ topo_order' = << >> /\ next' = 1 /\ B' = B
      /\ in_degree' = [v \in DOMAIN b.nodes |-> Cardinality(Into(b, v))]
      /\ region_rate' = [v \in DOMAIN b.nodes |-> 1] /\ blk_exp' = [v \in DOMAIN b.nodes |-> 0]
      /\ node_block' = [v \in DOMAIN b.nodes |-> B] /\ calls' = [v \in DOMAIN b.nodes |-> 1]
  BY DEF Begin
<1>4. Nodes' = DOMAIN b.nodes  BY <1>3 DEF Nodes
<1> DEFINE S == {v \in DOMAIN b.nodes : Into(b, v) = {}}
<1>5. /\ queue' \in Seq(S) /\ {queue'[n] : n \in DOMAIN queue'} = S
      /\ \A m, n \in DOMAIN queue' : queue'[m] = queue'[n] => m = n
  <2>1. S \in SUBSET Nat  BY <1>2
  <2>2. IsFiniteSet(S)
    <3>1. IsFiniteSet(DOMAIN b.nodes)  BY <1>2, FS_Interval
    <3>2. QED  BY <3>1, FS_Subset
  <2>3. queue' = Ascending(S)  BY DEF Begin
  <2> HIDE DEF S
  <2>4. QED  BY <2>1, <2>2, <2>3, Ascends
<1>6. queue' \in Seq(Nodes')
  <2>1. S \subseteq Nodes'  BY <1>4
  <2>2. QED  BY <2>1, <1>5, SeqMonotonic
<1>7. B \in Nat \ {0} /\ B \in BlockSizes  BY Facts DEF CompileInv, Typed
<1>8. Typed'
  <2>1. << >> \in Seq(Nodes')  BY EmptySeq
  <2>2. 1 * B = 1 * B  OBVIOUS
  <2>3. QED  BY <2>1, <2>2, <1>3, <1>4, <1>6, <1>7, OneIsAPower DEF Typed
<1>9. Sorting'
  <2>1. DOMAIN topo_order' = {} /\ Done' = {}
    BY <1>3, EmptySeq DEF Done
  <2>2. Waiting' = S  BY <1>5 DEF Waiting
  <2>3. ASSUME NEW v \in Nodes'
        PROVE  /\ in_degree'[v] = Cardinality({i \in Into(bp', v) : bp'.conns[i].src \notin {}})
               /\ v \in S <=> Sources(v)' \subseteq {}
    <3>1. {i \in Into(b, v) : b.conns[i].src \notin {}} = Into(b, v)  OBVIOUS
    <3>2. Sources(v)' = {b.conns[i].src : i \in Into(b, v)}  BY <1>3 DEF Sources
    <3>3. QED  BY <3>1, <3>2, <1>3, <1>4
  <2>4. QED  BY <2>1, <2>2, <2>3, <1>3, <1>5 DEF Sorting
<1>10. Rated' /\ LaidOut'  BY <1>3 DEF Begin, Rated, LaidOut, AllOffsets
<1>11. QED  BY <1>8, <1>9, <1>10 DEF CompileInv

-----------------------------------------------------------------------------
(* Kahn's sort.                                                             *)

LEMMA Least == ASSUME NEW S, S \subseteq Nat, S # {} PROVE \E x \in S : \A y \in S : x <= y
<1> DEFINE Less == {p \in Nat \X Nat : p[1] < p[2]}
<1>1. IsWellFoundedOn(Less, Nat)  BY NatLessThanWellFounded, Zenon DEF OpToRel
<1>2. PICK x \in S : \A y \in S : ~(<<y, x>> \in Less)
  <2> HIDE DEF Less
  <2>1. QED  BY <1>1, WFMin
<1>3. ASSUME NEW y \in S PROVE x <= y
  <2>1. x \in Nat /\ y \in Nat /\ <<y, x>> \in Nat \X Nat  OBVIOUS
  <2>2. <<y, x>>[1] = y /\ <<y, x>>[2] = x  OBVIOUS
  <2>3. ~(y < x)  BY <1>2, <2>1, <2>2
  <2>4. QED  BY <2>1, <2>3
<1>4. QED  BY <1>3

\* The greatest has the fewest above it.
LEMMA Greatest ==
  ASSUME NEW S \in SUBSET Nat, IsFiniteSet(S), S # {}
  PROVE  \E x \in S : \A y \in S : y <= x
<1> DEFINE Above(x) == {y \in S : x < y}
           T == {Cardinality(Above(x)) : x \in S}
<1>1. \A x \in S : IsFiniteSet(Above(x)) /\ Cardinality(Above(x)) \in Nat
  BY FS_Subset, FS_CardinalityType
<1>2. \E m \in T : \A n \in T : m <= n
  <2>1. T \subseteq Nat /\ T # {}  BY <1>1
  <2> HIDE DEF T
  <2>2. QED  BY <2>1, Least
<1>3. PICK x \in S : \A y \in S : Cardinality(Above(x)) <= Cardinality(Above(y))
  BY <1>2
<1>4. ASSUME NEW y \in S, x < y PROVE FALSE
  <2>1. \A z \in S : y < z => x < z
    <3>1. x \in Nat /\ y \in Nat /\ \A z \in S : z \in Nat  OBVIOUS
    <3>2. QED  BY <3>1, <1>4
  <2>2. Above(y) \in SUBSET Above(x)  BY <2>1
  <2>3. y \in Above(x) /\ ~(y < y)  BY <1>4
  <2>4. Above(y) # Above(x)  BY <2>3
  <2>5. Cardinality(Above(y)) <= Cardinality(Above(x))
        /\ Cardinality(Above(y)) # Cardinality(Above(x))
    BY <2>2, <2>4, <1>1, FS_Subset
  <2>6. QED  BY <2>5, <1>1, <1>3
<1>5. \A y \in S : y <= x  BY <1>4
<1>6. QED  BY <1>5

\* Two lists without repetitions and with nothing in common.
LEMMA Joined ==
  ASSUME NEW S, NEW p \in Seq(S), NEW q \in Seq(S),
         \A m, n \in DOMAIN p : p[m] = p[n] => m = n,
         \A m, n \in DOMAIN q : q[m] = q[n] => m = n,
         \A m \in DOMAIN p, n \in DOMAIN q : p[m] # q[n]
  PROVE  /\ p \o q \in Seq(S)
         /\ {(p \o q)[n] : n \in DOMAIN (p \o q)} = {p[n] : n \in DOMAIN p} \cup {q[n] : n \in DOMAIN q}
         /\ \A m, n \in DOMAIN (p \o q) : (p \o q)[m] = (p \o q)[n] => m = n
<1> DEFINE r == p \o q
<1>1. /\ r \in Seq(S) /\ Len(r) = Len(p) + Len(q)
      /\ \A n \in 1..Len(p) + Len(q) : r[n] = IF n <= Len(p) THEN p[n] ELSE q[n - Len(p)]
  BY ConcatProperties
<1>2. /\ Len(p) \in Nat /\ DOMAIN p = 1..Len(p) /\ Len(q) \in Nat /\ DOMAIN q = 1..Len(q)
      /\ DOMAIN r = 1..Len(p) + Len(q)
  <2> HIDE DEF r
  <2>1. QED  BY <1>1, LenProperties
<1> HIDE DEF r
<1>3. \A n \in DOMAIN r : \/ n \in DOMAIN p /\ r[n] = p[n]
                          \/ n - Len(p) \in DOMAIN q /\ r[n] = q[n - Len(p)]
  BY <1>1, <1>2
<1>4. \A n \in DOMAIN p : n \in DOMAIN r /\ r[n] = p[n]  BY <1>1, <1>2
<1>5. \A n \in DOMAIN q : n + Len(p) \in DOMAIN r /\ r[n + Len(p)] = q[n]
  <2> SUFFICES ASSUME NEW n \in DOMAIN q
               PROVE  n + Len(p) \in DOMAIN r /\ r[n + Len(p)] = q[n]
    OBVIOUS
  <2>1. n + Len(p) \in 1..Len(p) + Len(q) /\ ~(n + Len(p) <= Len(p)) /\ n + Len(p) - Len(p) = n
    BY <1>2
  <2>2. QED  BY <2>1, <1>1, <1>2
<1>6. {r[n] : n \in DOMAIN r} = {p[n] : n \in DOMAIN p} \cup {q[n] : n \in DOMAIN q}
  <2>1. \A n \in DOMAIN r : r[n] \in {p[k] : k \in DOMAIN p} \cup {q[k] : k \in DOMAIN q}
    BY <1>3
  <2>2. QED  BY <2>1, <1>4, <1>5
<1>7. \A m, n \in DOMAIN r : r[m] = r[n] => m = n
  <2> SUFFICES ASSUME NEW m \in DOMAIN r, NEW n \in DOMAIN r, r[m] = r[n] PROVE m = n
    OBVIOUS
  <2>1. m \in Nat /\ n \in Nat  BY <1>2
  <2>2. CASE m \in DOMAIN p /\ r[m] = p[m] /\ n \in DOMAIN p /\ r[n] = p[n]  BY <2>2
  <2>3. CASE m - Len(p) \in DOMAIN q /\ r[m] = q[m - Len(p)]
             /\ n - Len(p) \in DOMAIN q /\ r[n] = q[n - Len(p)]
    <3>1. m - Len(p) = n - Len(p)  BY <2>3
    <3>2. QED  BY <3>1, <2>1, <1>2
  <2>4. QED  BY <2>2, <2>3, <1>3
<1>8. QED  BY <1>1, <1>6, <1>7 DEF r

\* What Sort does, told as sets: u is taken, and the nodes that waited for it alone
\* are queued.
LEMMA Taken ==
  ASSUME CompileInv, Sort, NEW u, u = Head(queue)
  PROVE  /\ u \in Nodes /\ u \in Waiting /\ u \notin Done /\ Sources(u) \subseteq Done
         /\ topo_order' = Append(topo_order, u) /\ topo_order' \in Seq(Nodes) /\ Done' = Done \cup {u}
         /\ \A v \in Nodes :
              in_degree'[v] = Cardinality({i \in Into(bp, v) : bp.conns[i].src \notin Done \cup {u}})
         /\ queue' \in Seq(Nodes)
         /\ \A m, n \in DOMAIN queue' : queue'[m] = queue'[n] => m = n
         /\ Waiting' = (Waiting \ {u})
              \cup {v \in Nodes : u \in Sources(v) /\ Sources(v) \subseteq Done \cup {u}}
<1> USE DEF CompileInv
<1>1. /\ queue \in Seq(Nodes) /\ DOMAIN queue = 1..Len(queue) /\ Len(queue) \in Nat
      /\ topo_order \in Seq(Nodes) /\ DOMAIN topo_order = 1..Len(topo_order)
      /\ Len(topo_order) \in Nat /\ WellFormed(bp) /\ pass = "sort" /\ queue # << >>
  BY Facts DEF Sort
<1>2. /\ \A m, n \in DOMAIN queue : queue[m] = queue[n] => m = n
      /\ Done \cap Waiting = {}
      /\ \A v \in Nodes :
            /\ in_degree[v] = Cardinality({i \in Into(bp, v) : bp.conns[i].src \notin Done})
            /\ v \in Done \cup Waiting <=> Sources(v) \subseteq Done
  BY <1>1 DEF Sorting
<1>3. Len(queue) # 0 /\ 1 \in DOMAIN queue /\ u = queue[1] /\ u \in Nodes
  BY <1>1, EmptySeq, HeadTailProperties
<1>4. u \in Waiting /\ u \notin Done /\ Sources(u) \subseteq Done
  <2>1. u \in Waiting  BY <1>3 DEF Waiting
  <2>2. u \in Done \cup Waiting <=> Sources(u) \subseteq Done  BY <1>2, <1>3
  <2>3. QED  BY <2>1, <2>2, <1>2
<1> DEFINE Out(v) == {i \in Into(bp, v) : bp.conns[i].src = u}
           Rest(v) == {i \in Into(bp, v) : bp.conns[i].src \notin Done}
           Frees(i) == LET c == bp.conns[i] IN
             /\ c.src = u /\ in_degree[c.dst] = Cardinality(Out(c.dst))
             /\ \A j \in Out(c.dst) : j <= i
           Freed == {i \in DOMAIN bp.conns : Frees(i)}
           a == Ascending(Freed)
           q == [j \in DOMAIN a |-> bp.conns[a[j]].dst]
           D == {v \in Nodes : u \in Sources(v) /\ Sources(v) \subseteq Done \cup {u}}
<1>5. /\ topo_order' = Append(topo_order, u)
      /\ in_degree' = [v \in Nodes |-> in_degree[v] - Cardinality(Out(v))]
      /\ queue' = Tail(queue) \o q
  BY DEF Sort
<1>6. /\ DOMAIN bp.conns \in SUBSET Nat /\ IsFiniteSet(DOMAIN bp.conns)
      /\ \A i \in DOMAIN bp.conns : bp.conns[i].dst \in Nodes
      /\ \A v : IsFiniteSet(Into(bp, v)) /\ Cardinality(Into(bp, v)) \in Nat
  BY <1>1, Given DEF Nodes
<1>7. ASSUME NEW v
      PROVE  /\ Out(v) \in SUBSET Rest(v) /\ IsFiniteSet(Out(v)) /\ IsFiniteSet(Rest(v))
             /\ Cardinality(Out(v)) \in Nat /\ Cardinality(Rest(v)) \in Nat
             /\ Cardinality(Rest(v) \ Out(v)) = Cardinality(Rest(v)) - Cardinality(Out(v))
             /\ {i \in Into(bp, v) : bp.conns[i].src \notin Done \cup {u}} = Rest(v) \ Out(v)
  <2>1. Out(v) \in SUBSET Rest(v) /\ Rest(v) \in SUBSET Into(bp, v)  BY <1>4
  <2>2. IsFiniteSet(Rest(v)) /\ IsFiniteSet(Out(v)) /\ Cardinality(Out(v)) \in Nat
        /\ Cardinality(Rest(v)) \in Nat
    BY <2>1, <1>6, FS_Subset, FS_CardinalityType
  <2>3. Rest(v) \cap Out(v) = Out(v)  BY <2>1
  <2>4. Cardinality(Rest(v) \ Out(v)) = Cardinality(Rest(v)) - Cardinality(Rest(v) \cap Out(v))
    BY <2>2, FS_Difference
  <2>5. QED  BY <2>1, <2>2, <2>3, <2>4
<1>8. topo_order' \in Seq(Nodes) /\ Done' = Done \cup {u}
  <2>1. /\ topo_order' \in Seq(Nodes) /\ Len(topo_order') = Len(topo_order) + 1
        /\ \A n \in 1..Len(topo_order) + 1 :
              topo_order'[n] = IF n <= Len(topo_order) THEN topo_order[n] ELSE u
    <3>1. /\ Append(topo_order, u) \in Seq(Nodes) /\ Len(Append(topo_order, u)) = Len(topo_order) + 1
          /\ \A n \in 1..Len(topo_order) : Append(topo_order, u)[n] = topo_order[n]
          /\ Append(topo_order, u)[Len(topo_order) + 1] = u
      BY <1>1, <1>3, AppendProperties
    <3>2. \A n \in 1..Len(topo_order) + 1 :
            (n <= Len(topo_order) /\ n \in 1..Len(topo_order))
            \/ (~(n <= Len(topo_order)) /\ n = Len(topo_order) + 1)
      BY <1>1
    <3>3. QED  BY <3>1, <3>2, <1>5
  <2>2. DOMAIN topo_order' = 1..Len(topo_order) + 1  BY <2>1, LenProperties
  <2>3. QED  BY SMTT(30), <1>1, <2>1, <2>2 DEF Done
<1>9. \A v \in Nodes :
        in_degree'[v] = Cardinality({i \in Into(bp, v) : bp.conns[i].src \notin Done \cup {u}})
  BY <1>2, <1>5, <1>7
\* Each end of a connection out of u that waits for nothing else is freed once.
<1>10. \A i \in Freed : i \in Out(bp.conns[i].dst) /\ \A j \in Out(bp.conns[i].dst) : j <= i
  BY DEF Into
<1>11. \A i, j \in Freed : bp.conns[i].dst = bp.conns[j].dst => i = j
  <2> SUFFICES ASSUME NEW i \in Freed, NEW j \in Freed, bp.conns[i].dst = bp.conns[j].dst
               PROVE  i = j
    OBVIOUS
  <2>1. i <= j /\ j <= i  BY <1>10
  <2>2. i \in Nat /\ j \in Nat  BY <1>6
  <2>3. QED  BY <2>1, <2>2
<1>12. {bp.conns[i].dst : i \in Freed} = D
  <2>1. ASSUME NEW i \in Freed PROVE bp.conns[i].dst \in D
    <3> DEFINE v == bp.conns[i].dst
    <3>1. v \in Nodes /\ i \in Out(v) /\ Cardinality(Rest(v)) = Cardinality(Out(v))
      BY <1>2, <1>6, <1>10
    <3>2. Rest(v) = Out(v)  BY <3>1, <1>7, FS_Subset
    <3>3. u \in Sources(v) /\ Sources(v) \subseteq Done \cup {u}
      BY <3>1, <3>2 DEF Sources
    <3>4. QED  BY <3>1, <3>3
  <2>2. ASSUME NEW v \in D PROVE \E i \in Freed : bp.conns[i].dst = v
    <3>1. Rest(v) = Out(v) /\ Out(v) # {}  BY <1>4 DEF Sources
    <3>2. Out(v) \in SUBSET Nat /\ Out(v) \in SUBSET DOMAIN bp.conns  BY <1>6 DEF Into
    <3>3. PICK i \in Out(v) : \A j \in Out(v) : j <= i
      <4>1. IsFiniteSet(Out(v))  BY <1>7
      <4>2. QED  BY <3>1, <3>2, <4>1, Greatest
    <3>4. bp.conns[i].dst = v /\ bp.conns[i].src = u /\ i \in DOMAIN bp.conns  BY <3>2 DEF Into
    <3>5. in_degree[v] = Cardinality(Out(v))  BY <1>2, <3>1
    <3>6. QED  BY <3>3, <3>4, <3>5
  <2>3. QED  BY ZenonT(30), <2>1, <2>2
<1>13. /\ a \in Seq(Freed) /\ {a[n] : n \in DOMAIN a} = Freed
       /\ \A m, n \in DOMAIN a : a[m] = a[n] => m = n
  <2>1. Freed \in SUBSET DOMAIN bp.conns  OBVIOUS
  <2>2. Freed \in SUBSET Nat /\ IsFiniteSet(Freed)
    <3> HIDE DEF Freed
    <3>1. QED  BY <2>1, <1>6, FS_Subset
  <2> HIDE DEF Freed
  <2>3. QED  BY <2>2, Ascends
<1>14. /\ q \in Seq(Nodes) /\ {q[n] : n \in DOMAIN q} = D
       /\ \A m, n \in DOMAIN q : q[m] = q[n] => m = n
  <2>1. Freed \subseteq DOMAIN bp.conns  OBVIOUS
  <2> HIDE DEF Freed, a
  <2>2. DOMAIN a = 1..Len(a) /\ Len(a) \in Nat  BY <1>13, LenProperties
  <2>3. \A j \in 1..Len(a) : bp.conns[a[j]].dst \in Nodes
    BY <1>6, <1>13, <2>1, <2>2
  <2>4. q = [j \in 1..Len(a) |-> bp.conns[a[j]].dst]  BY <2>2
  <2>5. q \in Seq(Nodes)
    <3>1. [j \in 1..Len(a) |-> bp.conns[a[j]].dst] \in Seq(Nodes)  BY <2>2, <2>3, IsASeq
    <3>2. QED  BY <2>4, <3>1
  <2>6. \A m, n \in DOMAIN q : q[m] = q[n] => m = n  BY <1>11, <1>13
  <2>7. {q[n] : n \in DOMAIN q} = {bp.conns[i].dst : i \in Freed}  BY <1>13
  <2> HIDE DEF q, D
  <2>8. QED  BY <2>5, <2>6, <2>7, <1>12
<1>15. LET t == Tail(queue) IN
       /\ t \in Seq(Nodes) /\ {t[n] : n \in DOMAIN t} = Waiting \ {u}
       /\ \A m, n \in DOMAIN t : t[m] = t[n] => m = n
  <2> DEFINE t == Tail(queue)
  <2>1. /\ t \in Seq(Nodes) /\ Len(t) = Len(queue) - 1
        /\ \A n \in 1..Len(t) : t[n] = queue[n + 1]
    BY <1>1, HeadTailProperties
  <2> HIDE DEF t
  <2>2. DOMAIN t = 1..Len(queue) - 1  BY <2>1, LenProperties
  <2>3. \A n \in DOMAIN t : t[n] = queue[n + 1] /\ n + 1 \in DOMAIN queue /\ n + 1 # 1 /\ n \in Int
    BY <2>1, <2>2, <1>1
  <2>4. \A n \in DOMAIN queue : n # 1 => n - 1 \in DOMAIN t /\ t[n - 1] = queue[n]
    <3> SUFFICES ASSUME NEW n \in DOMAIN queue, n # 1
                 PROVE  n - 1 \in DOMAIN t /\ t[n - 1] = queue[n]
      OBVIOUS
    <3>1. n - 1 \in 1..Len(queue) - 1 /\ n - 1 + 1 = n  BY <1>1
    <3>2. QED  BY <3>1, <2>1, <2>2
  <2>5. \A m, n \in DOMAIN t : t[m] = t[n] => m = n
    <3> SUFFICES ASSUME NEW m \in DOMAIN t, NEW n \in DOMAIN t, t[m] = t[n] PROVE m = n
      OBVIOUS
    <3>1. m + 1 = n + 1  BY <1>2, <2>3
    <3>2. QED  BY <3>1, <2>3
  <2>6. ASSUME NEW n \in DOMAIN t PROVE t[n] \in Waiting \ {u}
    BY <1>2, <1>3, <2>3 DEF Waiting
  <2>7. ASSUME NEW v \in Waiting \ {u} PROVE \E n \in DOMAIN t : t[n] = v
    <3>1. PICK n \in DOMAIN queue : queue[n] = v  BY DEF Waiting
    <3>2. n # 1  BY <1>3, <3>1
    <3>3. QED  BY <3>1, <3>2, <2>4
  <2>8. QED  BY <2>1, <2>5, <2>6, <2>7 DEF t
<1>16. D \cap Waiting = {}  BY <1>2, <1>4
<1>17. /\ queue' \in Seq(Nodes) /\ {queue'[n] : n \in DOMAIN queue'} = (Waiting \ {u}) \cup D
       /\ \A m, n \in DOMAIN queue' : queue'[m] = queue'[n] => m = n
  <2> DEFINE t == Tail(queue)
  <2>1. /\ t \in Seq(Nodes) /\ {t[n] : n \in DOMAIN t} = Waiting \ {u}
        /\ \A m, n \in DOMAIN t : t[m] = t[n] => m = n
    BY <1>15
  <2>2. queue' = t \o q  BY <1>5
  <2> HIDE DEF t, q, D
  <2>3. \A m \in DOMAIN t, n \in DOMAIN q : t[m] # q[n]
    <3>1. \A m \in DOMAIN t : t[m] \in Waiting  BY <2>1
    <3>2. \A n \in DOMAIN q : q[n] \in D  BY <1>14
    <3>3. QED  BY <3>1, <3>2, <1>16
  <2>4. /\ t \o q \in Seq(Nodes)
        /\ {(t \o q)[n] : n \in DOMAIN (t \o q)} = {t[n] : n \in DOMAIN t} \cup {q[n] : n \in DOMAIN q}
        /\ \A m, n \in DOMAIN (t \o q) : (t \o q)[m] = (t \o q)[n] => m = n
    BY <2>1, <2>3, <1>14, Joined
  <2>5. {(t \o q)[n] : n \in DOMAIN (t \o q)} = (Waiting \ {u}) \cup D
    BY <2>1, <2>4, <1>14
  <2> DEFINE r == t \o q
  <2> HIDE DEF r
  <2>6. r \in Seq(Nodes) /\ {r[n] : n \in DOMAIN r} = (Waiting \ {u}) \cup D
        /\ \A m, n \in DOMAIN r : r[m] = r[n] => m = n
    BY <2>4, <2>5 DEF r
  <2>7. queue' = r  BY <2>2 DEF r
  <2>8. QED  BY <2>6, <2>7
<1>18. Waiting' = (Waiting \ {u}) \cup D  BY <1>17 DEF Waiting
<1>19. QED  BY <1>3, <1>4, <1>5, <1>8, <1>9, <1>17, <1>18

LEMMA SortCompile == ASSUME CompileInv, Sort PROVE CompileInv'
<1> USE DEF CompileInv
<1> DEFINE u == Head(queue)
<1>1. /\ u \in Nodes /\ u \in Waiting /\ u \notin Done /\ Sources(u) \subseteq Done
      /\ topo_order' = Append(topo_order, u) /\ topo_order' \in Seq(Nodes) /\ Done' = Done \cup {u}
      /\ \A v \in Nodes :
           in_degree'[v] = Cardinality({i \in Into(bp, v) : bp.conns[i].src \notin Done \cup {u}})
      /\ queue' \in Seq(Nodes)
      /\ \A m, n \in DOMAIN queue' : queue'[m] = queue'[n] => m = n
      /\ Waiting' = (Waiting \ {u})
           \cup {v \in Nodes : u \in Sources(v) /\ Sources(v) \subseteq Done \cup {u}}
  BY Taken
<1> HIDE DEF u
<1>2. UNCHANGED <<bp, B, pass, next, rateVars, layoutVars>> /\ pass = "sort"
  BY DEF Sort
<1>3. Nodes' = Nodes /\ \A v : Sources(v)' = Sources(v) /\ Into(bp, v)' = Into(bp, v)
  BY <1>2 DEF Nodes, Sources, Into
<1>4. Typed'  BY <1>1, <1>2, <1>3 DEF Typed, rateVars
<1>5. topo_order \in Seq(Nodes) /\ DOMAIN topo_order = 1..Len(topo_order) /\ Len(topo_order) \in Nat
  BY Facts
<1>6. /\ DOMAIN topo_order' = 1..Len(topo_order) + 1
      /\ \A n \in DOMAIN topo_order : topo_order'[n] = topo_order[n] /\ topo_order[n] \in Done
      /\ topo_order'[Len(topo_order) + 1] = u
      /\ \A n \in DOMAIN topo_order' : n \in DOMAIN topo_order \/ n = Len(topo_order) + 1
  <2>1. Len(topo_order') = Len(topo_order) + 1  BY <1>1, <1>5, AppendProperties
  <2>2. \A n \in 1..Len(topo_order) : topo_order'[n] = topo_order[n]
    BY <1>1, <1>5, AppendProperties
  <2>3. topo_order'[Len(topo_order) + 1] = u  BY <1>1, <1>5, AppendProperties
  <2>4. DOMAIN topo_order' = 1..Len(topo_order) + 1  BY <1>1, <2>1, LenProperties
  <2>5. QED  BY <2>2, <2>3, <2>4, <1>5 DEF Done
<1>7. \A m, n \in DOMAIN topo_order' : topo_order'[m] = topo_order'[n] => m = n
  BY <1>1, <1>6 DEF Sorting
<1>8. ASSUME NEW n \in DOMAIN topo_order', NEW w \in Sources(topo_order'[n])
      PROVE  \E m \in 1..n - 1 : topo_order'[m] = w
  <2>1. CASE n \in DOMAIN topo_order
    <3>1. PICK m \in 1..n - 1 : topo_order[m] = w  BY <2>1, <1>6, <1>8 DEF Sorting
    <3>2. m \in DOMAIN topo_order  BY <2>1, <1>5
    <3>3. QED  BY <3>1, <3>2, <1>6
  <2>2. CASE n = Len(topo_order) + 1
    <3>1. w \in Done  BY <2>2, <1>1, <1>6, <1>8
    <3>2. PICK m \in DOMAIN topo_order : topo_order[m] = w  BY <3>1 DEF Done
    <3>3. m \in 1..n - 1  BY <2>2, <3>2, <1>5
    <3>4. QED  BY <3>2, <3>3, <1>6
  <2>3. QED  BY <2>1, <2>2, <1>6
<1>9. Done' \cap Waiting' = {}
      /\ \A v \in Nodes : v \in Done' \cup Waiting' <=> Sources(v) \subseteq Done'
  <2>1. Done \cap Waiting = {}  BY <1>2 DEF Sorting
  <2>2. \A v \in Nodes : v \in Done \cup Waiting <=> Sources(v) \subseteq Done
    BY <1>2 DEF Sorting
  <2> DEFINE D == {v \in Nodes : u \in Sources(v) /\ Sources(v) \subseteq Done \cup {u}}
  <2>3. \A v \in D : v \notin Done \cup Waiting  BY <1>1, <2>2
  <2>4. Waiting' = (Waiting \ {u}) \cup D /\ Done' = Done \cup {u}  BY <1>1
  <2>5. Done' \cap Waiting' = {}
    <3> HIDE DEF D
    <3>1. QED  BY <1>1, <2>1, <2>3, <2>4
  <2>6. Done' \cup Waiting' = Done \cup Waiting \cup D  BY <1>1, <2>4
  <2>7. ASSUME NEW v \in Nodes
        PROVE  v \in Done \cup Waiting \cup D <=> Sources(v) \subseteq Done \cup {u}
    <3>1. CASE Sources(v) \subseteq Done  BY <2>2, <3>1
    <3>2. CASE ~(Sources(v) \subseteq Done)  BY <2>2, <3>2
    <3>3. QED  BY <3>1, <3>2
  <2>8. QED  BY <2>4, <2>5, <2>6, <2>7
<1>10. Sorting'
  <2>1. next' = 1 /\ pass' = "sort"  BY <1>2 DEF Sorting
  <2>2. \A n : Sources(topo_order[n])' = Sources(topo_order'[n])
    BY <1>2 DEF Sources, Into
  <2>3. (\A n \in DOMAIN topo_order : \A w \in Sources(topo_order[n]) :
           \E m \in 1..n - 1 : topo_order[m] = w)'
    BY <1>8, <2>2
  <2>4. (\A v \in Nodes :
          /\ in_degree[v] = Cardinality({i \in Into(bp, v) : bp.conns[i].src \notin Done})
          /\ v \in Done \cup Waiting <=> Sources(v) \subseteq Done)'
    <3> SUFFICES ASSUME NEW v \in Nodes
                 PROVE  /\ in_degree'[v] = Cardinality({i \in Into(bp', v) : bp'.conns[i].src \notin Done'})
                        /\ v \in Done' \cup Waiting' <=> Sources(v)' \subseteq Done'
      BY <1>3
    <3>1. in_degree'[v] = Cardinality({i \in Into(bp, v) : bp.conns[i].src \notin Done'})
      BY <1>1
    <3>2. v \in Done' \cup Waiting' <=> Sources(v) \subseteq Done'  BY <1>9
    <3>3. bp' = bp /\ Into(bp', v) = Into(bp, v) /\ Sources(v)' = Sources(v)  BY <1>2, <1>3
    <3>4. QED  BY <3>1, <3>2, <3>3
  <2>5. QED  BY <1>1, <1>7, <1>9, <2>1, <2>3, <2>4 DEF Sorting
<1>11. Rated'  BY <1>2 DEF Rated
<1>12. LaidOut'  BY <1>2 DEF LaidOut, layoutVars, AllOffsets
<1>13. QED  BY <1>4, <1>10, <1>11, <1>12

\* The later passes leave the order alone.
LEMMA OrderKept ==
  ASSUME CompileInv, UNCHANGED <<bp, sortVars>>, pass' # "sort",
         pass' \in {"rates", "layout", "ok"} => Done = Nodes
  PROVE  Sorting' /\ Done' = Done /\ Nodes' = Nodes /\ queue' \in Seq(Nodes') /\ topo_order' \in Seq(Nodes')
<1>1. bp' = bp /\ topo_order' = topo_order /\ queue' = queue  BY DEF sortVars
<1>2. Done' = Done /\ Nodes' = Nodes  BY <1>1 DEF Done, Nodes
<1>3. \A n : Sources(topo_order[n])' = Sources(topo_order[n])  BY <1>1 DEF Sources, Into
<1>4. (\A n \in DOMAIN topo_order : \A w \in Sources(topo_order[n]) :
         \E m \in 1..n - 1 : topo_order[m] = w)'
  <2>1. \A n \in DOMAIN topo_order : \A w \in Sources(topo_order[n]) :
         \E m \in 1..n - 1 : topo_order[m] = w
    BY DEF CompileInv, Sorting
  <2>2. QED  BY <1>1, <1>3, <2>1
<1>5. \A m, n \in DOMAIN topo_order' : topo_order'[m] = topo_order'[n] => m = n
  BY <1>1 DEF CompileInv, Sorting
<1>6. Sorting'  BY <1>2, <1>4, <1>5 DEF Sorting
<1>7. QED  BY <1>1, <1>2, <1>6, Facts DEF CompileInv

\* What the blueprint and the rates say of a node.
LEMMA RatesKept ==
  ASSUME UNCHANGED <<bp, B, rateVars>>
  PROVE  /\ Nodes' = Nodes /\ Outputs' = Outputs /\ Bytes' = Bytes /\ Params' = Params
         /\ region_rate' = region_rate /\ blk_exp' = blk_exp /\ node_block' = node_block
         /\ calls' = calls
         /\ \A v : /\ Sources(v)' = Sources(v) /\ Arriving(v)' = Arriving(v) /\ Node(v)' = Node(v)
                  /\ Delta(v)' = Delta(v) /\ Block(blk_exp[v])' = Block(blk_exp[v])
BY DEF Nodes, Outputs, Bytes, Params, Sources, Into, Arriving, Node, Delta, Block, out_stride, rateVars

LEMMA SortedCompile == ASSUME CompileInv, Sorted PROVE CompileInv'
<1> USE DEF CompileInv
<1>1. UNCHANGED <<bp, B, sortVars, next, rateVars, layoutVars>> /\ pass = "sort"
      /\ pass' \in {"rates", "failed"}
      /\ (pass' = "rates" => Len(topo_order) = Len(bp.nodes))
  BY DEF Sorted
<1>2. Nodes' = Nodes /\ Done' = Done /\ Waiting' = Waiting /\ \A v : Sources(v)' = Sources(v)
  BY <1>1 DEF Nodes, Done, Waiting, Sources, Into, sortVars
<1>3. Typed'  BY <1>1, <1>2 DEF Typed, sortVars, rateVars
<1>4. ASSUME Len(topo_order) = Len(bp.nodes) PROVE Done = Nodes
  <2> DEFINE n == Len(bp.nodes)
             f == [k \in 1..n |-> topo_order[k]]
  <2>1. /\ Nodes = 1..n /\ n \in Nat /\ DOMAIN topo_order = 1..n /\ topo_order \in Seq(Nodes)
    BY <1>4, Facts
  <2>2. \A k \in 1..n : topo_order[k] \in Nodes  BY <2>1, <1>4, ElementOfSeq
  <2>3. f \in Injection(1..n, Nodes)
    BY <2>1, <2>2, <1>1 DEF Injection, IsInjective, Sorting
  <2>4. IsFiniteSet(1..n)  BY <2>1, FS_Interval
  <2>5. f \in Surjection(1..n, Nodes)
    <3> HIDE DEF f, n
    <3>1. QED  BY <2>1, <2>3, <2>4, FS_Injection
  <2>6. \A v \in Nodes : \E k \in 1..n : topo_order[k] = v  BY <2>5 DEF Surjection
  <2>7. QED  BY <2>1, <2>2, <2>6 DEF Done
<1>5. Sorting'  BY <1>1, <1>4, OrderKept
<1>6. Rated'
  <2>1. next' = 1 /\ topo_order' = topo_order  BY <1>1 DEF Sorting, sortVars
  <2>2. Len(topo_order) \in Nat  BY Facts
  <2>3. pass' = "rates" => Reached' = {}  BY <2>1 DEF Reached
  <2>4. QED  BY <1>1, <2>1, <2>2, <2>3 DEF Rated, Follows
<1>7. LaidOut'  BY <1>1 DEF LaidOut, layoutVars, AllOffsets
<1>8. QED  BY <1>3, <1>5, <1>6, <1>7

LEMMA PropagatedCompile == ASSUME CompileInv, Propagated PROVE CompileInv'
<1> USE DEF CompileInv
<1>1. UNCHANGED <<bp, B, sortVars, rateVars, layoutVars>> /\ pass = "rates"
      /\ pass' = "layout" /\ next' = 1 /\ next > Len(topo_order)
  BY DEF Propagated
<1>2. Nodes' = Nodes /\ Done' = Done /\ Outputs' = Outputs /\ calls' = calls
      /\ Bytes' = Bytes /\ Params' = Params
  BY <1>1 DEF Nodes, Done, Outputs, Bytes, Params, Node, out_stride, sortVars, rateVars
<1>3. Typed'  BY <1>1, <1>2 DEF Typed, sortVars, rateVars
<1>4. Sorting'
  <2>1. Done = Nodes  BY <1>1 DEF Sorting
  <2>2. QED  BY <1>1, <2>1, OrderKept
<1>5. Reached = Nodes /\ Reached' = Nodes
  <2>1. next = Len(topo_order) + 1 /\ next - 1 = Len(topo_order)
    <3>1. next \in Nat /\ next <= Len(topo_order) + 1  BY <1>1 DEF Rated, Typed
    <3>2. Len(topo_order) \in Nat  BY Facts
    <3>3. QED  BY <3>1, <3>2, <1>1
  <2>2. Reached = Done
    <3>1. DOMAIN topo_order = 1..Len(topo_order)  BY Facts
    <3>2. QED  BY <2>1, <3>1, <1>1 DEF Reached, Done
  <2>3. QED  BY <2>2, <1>1, <1>2 DEF Sorting, Reached
<1>6. Rated'
  <2>1. QED  BY <1>1, <1>5, RatesKept DEF Rated, Follows
<1>7. LaidOut'
  <2>1. AllOffsets' = {<< >>} /\ off' = [ctx |-> 0, out |-> 0, state |-> 0, param |-> 0]
    BY <1>1 DEF LaidOut, AllOffsets, layoutVars
  <2>2. /\ ctx_base' = << >> /\ out_base_sample' = << >> /\ state_offset' = << >>
        /\ param_base' = << >>
    BY <2>1 DEF AllOffsets
  <2>3. DOMAIN << >> = {} /\ << >> \in Seq(Nat) /\ Len(<< >>) = 0  BY EmptySeq
  <2>4. \A size, end : InARow(<< >>, size, end)  BY <2>3 DEF InARow
  <2>5. \A at \in AllOffsets' : at \in Seq(Nat) /\ Len(at) = next' - 1
    BY <2>1, <2>3, <1>1
  <2>6. next' <= Len(bp'.nodes) + 1  BY <1>1, Facts
  <2>7. InARow(ctx_base, calls, off.ctx)' /\ InARow(out_base_sample, Outputs, off.out)'
        /\ InARow(state_offset, Bytes, off.state)' /\ InARow(param_base, Params, off.param)'
    BY <2>2, <2>3 DEF InARow
  <2>8. QED  BY <1>1, <2>1, <2>5, <2>6, <2>7 DEF LaidOut
<1>8. QED  BY <1>3, <1>4, <1>6, <1>7

-----------------------------------------------------------------------------
(* Rates and block sizes.                                                   *)

LEMMA MismatchCompile == ASSUME CompileInv, Mismatch PROVE CompileInv'
<1> USE DEF CompileInv
<1>1. UNCHANGED <<bp, B, sortVars, next, rateVars, layoutVars>> /\ pass = "rates" /\ pass' = "failed"
  BY DEF Mismatch
<1>2. Sorting' /\ Nodes' = Nodes /\ queue' \in Seq(Nodes') /\ topo_order' \in Seq(Nodes')
  BY <1>1, OrderKept
<1>3. Typed'  BY <1>1, <1>2 DEF Typed, rateVars
<1>4. Rated' /\ LaidOut'  BY <1>1 DEF Rated, LaidOut
<1>5. QED  BY <1>2, <1>3, <1>4

\* A node starts from one rate and one exponent, those of all of its inputs.
LEMMA BaseIsOne ==
  ASSUME Typed, NEW v \in Nodes, NEW b \in Base(v)
  PROVE  /\ b[1] \in Nat \ {0} /\ b[2] \in Int
         /\ \A c \in Base(v) : c = b
         /\ \A a \in (IF Sources(v) = {} THEN {<<1, 0>>} ELSE Arriving(v)) : a = b
<1>1. CASE Sources(v) = {}
  <2>1. b = <<1, 0>> /\ Base(v) = {<<1, 0>>}  BY <1>1 DEF Base
  <2>2. QED  BY <1>1, <2>1
<1>2. CASE Sources(v) # {}
  <2>1. Base(v) = Arriving(v) /\ Cardinality(Arriving(v)) = 1 /\ b \in Arriving(v)
    BY <1>2 DEF Base
  <2> DEFINE f == [i \in Into(bp, v) |-> <<region_rate[bp.conns[i].src], blk_exp[bp.conns[i].src]>>]
  <2>2. IsFiniteSet(Into(bp, v))  BY Facts, Given
  <2>3. Arriving(v) = {f[i] : i \in Into(bp, v)}  BY DEF Arriving, Sources
  <2>4. f \in Surjection(Into(bp, v), Arriving(v))
    <3>1. f \in [Into(bp, v) -> Arriving(v)]  BY <2>3
    <3>2. \A a \in Arriving(v) : \E i \in Into(bp, v) : f[i] = a  BY <2>3
    <3> HIDE DEF f
    <3>3. QED  BY <3>1, <3>2 DEF Surjection
  <2>5. IsFiniteSet(Arriving(v))
    <3> HIDE DEF f
    <3>1. QED  BY <2>2, <2>4, FS_Surjection
  <2>6. PICK x : Arriving(v) = {x}  BY <2>1, <2>5, FS_Singleton
  <2>7. PICK u \in Sources(v) : b = <<region_rate[u], blk_exp[u]>>  BY <2>1 DEF Arriving
  <2>8. u \in Nodes  BY <2>7, Facts
  <2>9. region_rate[u] \in Nat \ {0} /\ blk_exp[u] \in Int  BY <2>8, Facts DEF Typed
  <2>10. QED  BY <1>2, <2>1, <2>6, <2>7, <2>9
<1>3. QED  BY <1>1, <1>2

LEMMA BlocksArePositive ==
  ASSUME B \in Nat \ {0}, NEW e \in Int, NEW nb \in Block(e) PROVE nb \in Nat \ {0}
<1>0. \A a, b \in Nat \ {0} : a * b \in Nat \ {0}  OBVIOUS
<1>1. CASE e >= 0
  <2>1. 2^e \in Nat \ {0}  BY <1>1, TwoToThe
  <2>2. nb = B * 2^e  BY <1>1 DEF Block
  <2>3. QED  BY <1>0, <2>1, <2>2
<1>2. CASE ~(e >= 0)
  <2>1. 2^(-e) \in Nat \ {0}
    <3>1. -e \in Nat  BY <1>2
    <3>2. QED  BY <3>1, TwoToThe
  <2>2. PICK d \in Nat \ {0} : d = 2^(-e)  BY <2>1
  <2>3. B % d = 0 /\ nb = B \div d  BY <1>2, <2>2 DEF Block
  <2>4. nb \in Nat /\ B = d * nb + (B % d)  BY <2>3
  <2>5. nb # 0
    <3>1. nb = 0 => B = 0  BY <2>3, <2>4
    <3>2. QED  BY <3>1
  <2>6. QED  BY <2>4, <2>5
<1>3. QED  BY <1>1, <1>2

\* What Plan accepts.
LEMMA Planned ==
  ASSUME Typed, NEW v \in Nodes, NEW p \in Plan(v)
  PROVE  /\ p.rate \in Powers /\ p.exp \in Int /\ p.block \in Nat \ {0}
         /\ (p.rate * B) \div p.block \in Nat \ {0}
         /\ ((p.rate * B) \div p.block) * p.block = p.rate * B
         /\ p.block \in Block(p.exp)
         /\ \A a \in (IF Sources(v) = {} THEN {<<1, 0>>} ELSE Arriving(v)) :
              /\ p.rate * Node(v).rden = a[1] * Node(v).rnum
              /\ \E d \in Delta(v) : p.exp = a[2] + d
<1>1. /\ Node(v).rnum \in Nat \ {0} /\ Node(v).rden \in Nat \ {0} /\ B \in Nat \ {0}
  BY Facts DEF NodeType
<1>2. /\ p \in Candidates(v) /\ (p.rate * B) % p.block = 0 /\ (p.rate * B) \div p.block > 0
  BY DEF Plan
<1>3. PICK b \in {c \in Base(v) : \E r \in Powers : c[1] * Node(v).rnum = r * Node(v).rden},
           d \in Delta(v), nb \in UNION {Block(c[2] + e) : c \in Base(v), e \in Delta(v)} :
        p = [rate |-> (b[1] * Node(v).rnum) \div Node(v).rden, exp |-> b[2] + d, block |-> nb]
  BY <1>2 DEF Candidates
<1>4. PICK r \in Powers : b[1] * Node(v).rnum = r * Node(v).rden  BY <1>3
<1>5. /\ b[1] \in Nat \ {0} /\ b[2] \in Int /\ \A c \in Base(v) : c = b
      /\ \A a \in (IF Sources(v) = {} THEN {<<1, 0>>} ELSE Arriving(v)) : a = b
  BY BaseIsOne
<1>6. d \in Int /\ \A e \in Delta(v) : e = d  BY DEF Delta
<1>7. r \in Nat \ {0}  BY PowersArePositive
<1>8. p.rate = r
  <2>1. (r * Node(v).rden) \div Node(v).rden = r  BY <1>1, <1>7, Quotient
  <2>2. QED  BY <1>3, <1>4, <2>1
<1>9. p.exp = b[2] + d /\ p.exp \in Int /\ p.block = nb  BY <1>3, <1>5, <1>6
<1>10. nb \in Block(p.exp)
  <2>1. PICK c \in Base(v), e \in Delta(v) : nb \in Block(c[2] + e)  BY <1>3
  <2>2. QED  BY <2>1, <1>5, <1>6, <1>9
<1>11. p.block \in Nat \ {0}  BY <1>1, <1>9, <1>10, BlocksArePositive
<1>12. /\ (p.rate * B) \div p.block \in Nat \ {0}
       /\ ((p.rate * B) \div p.block) * p.block = p.rate * B
  <2> DEFINE x == p.rate * B
  <2>1. x \in Nat  BY <1>1, <1>7, <1>8
  <2>2. x % p.block = 0 /\ x \div p.block > 0  BY <1>2
  <2> HIDE DEF x
  <2>3. x \div p.block \in Nat /\ x = p.block * (x \div p.block) + (x % p.block)
    BY <2>1, <1>11
  <2>4. x = (x \div p.block) * p.block  BY <2>2, <2>3, <1>11
  <2>5. QED  BY <2>2, <2>3, <2>4 DEF x
<1>13. QED  BY <1>4, <1>5, <1>8, <1>9, <1>10, <1>11, <1>12

LEMMA PropagateCompile == ASSUME CompileInv, Propagate PROVE CompileInv'
<1> USE DEF CompileInv
<1>1. /\ UNCHANGED <<bp, B, pass, sortVars, layoutVars>> /\ pass = "rates" /\ next' = next + 1
      /\ next <= Len(topo_order)
  BY DEF Propagate
<1> DEFINE v == topo_order[next]
<1>2. /\ next \in Nat \ {0} /\ Len(topo_order) \in Nat /\ topo_order \in Seq(Nodes)
      /\ DOMAIN topo_order = 1..Len(topo_order) /\ next \in DOMAIN topo_order /\ v \in Nodes
  <2>1. /\ next \in Nat \ {0} /\ Len(topo_order) \in Nat /\ topo_order \in Seq(Nodes)
        /\ DOMAIN topo_order = 1..Len(topo_order)
    BY Facts DEF Typed
  <2>2. next \in 1..Len(topo_order)  BY <1>1, <2>1
  <2>3. QED  BY <2>1, <2>2, ElementOfSeq
<1>3. PICK p \in Plan(v) :
        /\ region_rate' = [region_rate EXCEPT ![v] = p.rate]
        /\ blk_exp' = [blk_exp EXCEPT ![v] = p.exp]
        /\ node_block' = [node_block EXCEPT ![v] = p.block]
        /\ calls' = [calls EXCEPT ![v] = (p.rate * B) \div p.block]
  BY DEF Propagate
<1>4. /\ p.rate \in Powers /\ p.exp \in Int /\ p.block \in Nat \ {0}
      /\ (p.rate * B) \div p.block \in Nat \ {0}
      /\ ((p.rate * B) \div p.block) * p.block = p.rate * B
      /\ p.block \in Block(p.exp)
      /\ \A a \in (IF Sources(v) = {} THEN {<<1, 0>>} ELSE Arriving(v)) :
           /\ p.rate * Node(v).rden = a[1] * Node(v).rnum
           /\ \E d \in Delta(v) : p.exp = a[2] + d
  BY <1>2, Planned
<1>5. Sorting' /\ Nodes' = Nodes /\ queue' \in Seq(Nodes') /\ topo_order' \in Seq(Nodes')
      /\ topo_order' = topo_order
  <2>1. Done = Nodes  BY <1>1 DEF Sorting
  <2>2. QED  BY <1>1, <2>1, OrderKept DEF sortVars
<1>6. /\ region_rate \in [Nodes -> Powers] /\ blk_exp \in [Nodes -> Int]
      /\ node_block \in [Nodes -> Nat \ {0}] /\ calls \in [Nodes -> Nat \ {0}]
      /\ \A w \in Nodes : calls[w] * node_block[w] = region_rate[w] * B
  BY DEF Typed
<1> HIDE DEF v
<1>7. Typed'
  <2>1. /\ region_rate' \in [Nodes -> Powers] /\ blk_exp' \in [Nodes -> Int]
        /\ node_block' \in [Nodes -> Nat \ {0}] /\ calls' \in [Nodes -> Nat \ {0}]
    BY <1>2, <1>3, <1>4, <1>6
  <2>2. \A w \in Nodes : calls'[w] * node_block'[w] = region_rate'[w] * B
    BY <1>2, <1>3, <1>4, <1>6
  <2>3. next' \in Nat \ {0}  BY <1>1, <1>2
  <2>4. bp' = bp /\ B' = B /\ pass' = pass  BY <1>1
  <2>5. (\A w \in Nodes : calls[w] * node_block[w] = region_rate[w] * B)'
    BY <2>2, <2>4, <1>5
  <2> HIDE DEF CompileInv
  <2>6. bp \in Blueprints \cup {Empty} /\ B \in BlockSizes
        /\ pass \in {"idle", "sort", "rates", "layout", "ok", "failed"}
    BY DEF CompileInv, Typed
  <2>7. QED  BY <2>1, <2>3, <2>4, <2>5, <2>6, <1>5 DEF Typed
\* The sources of what was reached were reached before it.
<1>8. ASSUME NEW n \in 1..next PROVE v \notin Sources(topo_order[n])
  <2> SUFFICES ASSUME v \in Sources(topo_order[n]) PROVE FALSE  OBVIOUS
  <2>1. n \in DOMAIN topo_order  BY <1>2
  <2>2. PICK m \in 1..n - 1 : topo_order[m] = v  BY <2>1 DEF Sorting
  <2>3. m \in DOMAIN topo_order /\ m # next  BY <1>2, <2>1
  <2>4. QED  BY <2>2, <2>3, <1>2 DEF Sorting, v
<1>9. ASSUME NEW w, v \notin Sources(w), w \in Nodes
      PROVE  Sources(w)' = Sources(w) /\ Arriving(w)' = Arriving(w) /\ Node(w)' = Node(w)
             /\ Delta(w)' = Delta(w)
  <2>1. Sources(w)' = Sources(w) /\ Node(w)' = Node(w) /\ Delta(w)' = Delta(w)
    BY <1>1 DEF Sources, Into, Node, Delta
  <2>2. \A u \in Sources(w) : region_rate'[u] = region_rate[u] /\ blk_exp'[u] = blk_exp[u]
    <3>1. Sources(w) \subseteq Nodes  BY <1>9, Facts
    <3>2. QED  BY <3>1, <1>3, <1>6, <1>9
  <2>3. Arriving(w)' = Arriving(w)  BY <2>1, <2>2 DEF Arriving
  <2>4. QED  BY <2>1, <2>3
<1>10. Reached' = Reached \cup {v}
  <2>1. next' - 1 = next /\ 1..next = (1..next - 1) \cup {next}  BY <1>1, <1>2
  <2>2. Reached' = {topo_order[n] : n \in 1..next' - 1}  BY <1>1, <1>5 DEF Reached
  <2>3. Reached = {topo_order[n] : n \in 1..next - 1}  BY <1>1 DEF Reached
  <2>4. QED  BY <2>1, <2>2, <2>3 DEF v
<1>11. Rated'
  <2>1. next' <= Len(topo_order') + 1  BY <1>1, <1>2, <1>5
  <2>2. ASSUME NEW w \in Reached \cup {v}
        PROVE  \A a \in (IF Sources(w)' = {} THEN {<<1, 0>>} ELSE Arriving(w)') :
                  /\ region_rate'[w] * Node(w)'.rden = a[1] * Node(w)'.rnum
                  /\ \E d \in Delta(w)' : blk_exp'[w] = a[2] + d
                  /\ node_block'[w] \in Block(blk_exp'[w])
    <3>1. w \in Nodes /\ v \notin Sources(w)
      <4>1. CASE w = v
        <5>1. next \in 1..next  BY <1>2
        <5>2. QED  BY <4>1, <5>1, <1>2, <1>8 DEF v
      <4>2. CASE w \in Reached
        <5>1. PICK n \in 1..next - 1 : topo_order[n] = w  BY <4>2, <1>1 DEF Reached
        <5>2. n \in 1..next /\ n \in 1..Len(topo_order)  BY <1>2
        <5>3. QED  BY <5>1, <5>2, <1>2, <1>8, ElementOfSeq
      <4>3. QED  BY <4>1, <4>2
    <3>2. Sources(w)' = Sources(w) /\ Arriving(w)' = Arriving(w) /\ Node(w)' = Node(w)
          /\ Delta(w)' = Delta(w)
      BY <3>1, <1>9
    <3>3. CASE w = v
      <4>1. region_rate'[w] = p.rate /\ blk_exp'[w] = p.exp /\ node_block'[w] = p.block
        BY <3>3, <1>2, <1>3, <1>6
      <4>2. QED  BY <4>1, <3>2, <3>3, <1>4 DEF v
    <3>4. CASE w # v
      <4>1. region_rate'[w] = region_rate[w] /\ blk_exp'[w] = blk_exp[w]
            /\ node_block'[w] = node_block[w]
        BY <3>1, <3>4, <1>3, <1>6
      <4>2. w \in Reached  BY <3>4
      <4>3. QED  BY <4>1, <4>2, <3>2, <1>1 DEF Rated, Follows
    <3>5. QED  BY <3>3, <3>4
  <2>3. (\A w \in Reached :
           LET from == IF Sources(w) = {} THEN {<<1, 0>>} ELSE Arriving(w) IN
           \A a \in from : /\ region_rate[w] * Node(w).rden = a[1] * Node(w).rnum
                           /\ \E d \in Delta(w) : blk_exp[w] = a[2] + d
                           /\ node_block[w] \in Block(blk_exp[w]))'
    <3>1. \A e : Block(e)' = Block(e)  BY <1>1 DEF Block
    <3>2. \A w : Block(blk_exp[w])' = Block(blk_exp'[w])  BY <1>1 DEF Block
    <3>3. QED  BY <2>2, <3>2, <1>10
  <2>4. QED  BY <2>1, <2>3 DEF Rated, Follows
<1>12. LaidOut'  BY <1>1 DEF LaidOut, AllOffsets, layoutVars
<1>13. QED  BY <1>5, <1>7, <1>11, <1>12

-----------------------------------------------------------------------------
(* Offsets.                                                                 *)

\* One more range, from where the ones before it end or beyond.
LEMMA RowGrows ==
  ASSUME NEW at \in Seq(Nat), NEW size, NEW end \in Nat, NEW n, n = Len(at) + 1,
         \A v \in 1..n : size[v] \in Nat, InARow(at, size, end),
         NEW x \in Nat, NEW e \in Nat, end <= e, size[n] > 0 => end <= x /\ x + size[n] <= e
  PROVE  /\ Append(at, x) \in Seq(Nat) /\ Len(Append(at, x)) = n
         /\ InARow(Append(at, x), size, e)
         /\ \A v \in 1..n - 1 : Append(at, x)[v] = at[v]
         /\ Append(at, x)[n] = x
<1> DEFINE a == Append(at, x)
<1>1. /\ a \in Seq(Nat) /\ Len(a) = Len(at) + 1 /\ \A i \in 1..Len(at) : a[i] = at[i]
      /\ a[Len(at) + 1] = x
  BY AppendProperties
<1>2. Len(at) \in Nat /\ DOMAIN at = 1..Len(at) /\ \A i \in 1..Len(at) : at[i] \in Nat
  BY LenProperties, ElementOfSeq
<1> HIDE DEF a
<1>3. DOMAIN a = 1..n  BY <1>1, LenProperties
<1>4. n - 1 = Len(at) /\ n \in Nat /\ 1..n = 1..Len(at) \cup {n}  BY <1>2
<1>5. ASSUME NEW v \in 1..n, size[v] > 0
      PROVE  /\ a[v] + size[v] <= e
             /\ \A w \in 1..n : v < w /\ size[w] > 0 => a[v] + size[v] <= a[w]
  <2>1. size[v] \in Nat /\ v \in Nat  BY <1>4
  <2>2. CASE v \in 1..Len(at)
    <3>1. a[v] = at[v] /\ at[v] \in Nat /\ at[v] + size[v] <= end
          /\ \A w \in 1..Len(at) : v < w /\ size[w] > 0 => at[v] + size[v] <= at[w]
      BY <2>2, <1>1, <1>2, <1>5 DEF InARow
    <3>2. a[v] + size[v] <= e  BY <3>1, <2>1
    <3>3. ASSUME NEW w \in 1..n, v < w, size[w] > 0 PROVE a[v] + size[v] <= a[w]
      <4>1. CASE w \in 1..Len(at)  BY <4>1, <3>1, <3>3, <1>1
      <4>2. CASE w = n
        <5>1. end <= x /\ a[w] = x  BY <4>2, <3>3, <1>1
        <5>2. QED  BY <5>1, <3>1, <2>1
      <4>3. QED  BY <4>1, <4>2, <1>4
    <3>4. QED  BY <3>2, <3>3
  <2>3. CASE v = n
    <3>1. a[v] = x /\ x + size[v] <= e  BY <2>3, <1>1, <1>5
    <3>2. \A w \in 1..n : ~(v < w)  BY <2>3, <1>4
    <3>3. QED  BY <3>1, <3>2
  <2>4. QED  BY <2>2, <2>3, <1>4
<1>6. InARow(a, size, e)  BY <1>3, <1>5 DEF InARow
<1>7. QED  BY <1>1, <1>4, <1>6 DEF a

LEMMA PlaceCompile == ASSUME CompileInv, Place PROVE CompileInv'
<1> USE DEF CompileInv
<1> DEFINE nd == Node(next)
           at == IF nd.bytes > 0 THEN AlignUp(off.state, nd.align) ELSE 0
<1>1. /\ UNCHANGED <<bp, B, pass, sortVars, rateVars>> /\ pass = "layout" /\ next' = next + 1
      /\ next <= Len(bp.nodes)
      /\ ctx_base' = Append(ctx_base, off.ctx)
      /\ out_base_sample' = Append(out_base_sample, off.out)
      /\ state_offset' = Append(state_offset, at)
      /\ param_base' = Append(param_base, off.param)
      /\ off' = [ctx |-> off.ctx + calls[next],
                 out |-> off.out + nd.outs * out_stride(next),
                 state |-> IF nd.bytes > 0 THEN at + nd.bytes ELSE off.state,
                 param |-> off.param + nd.params]
  BY DEF Place
<1>2. /\ next \in Nat \ {0} /\ Len(bp.nodes) \in Nat /\ Nodes = 1..Len(bp.nodes)
      /\ \A v \in Nodes : Node(v) \in NodeType /\ calls[v] \in Nat \ {0} /\ out_stride(v) \in Nat \ {0}
  BY Facts DEF Typed
<1>3. next \in Nodes /\ \A v \in 1..next : v \in Nodes  BY <1>1, <1>2
<1>4. nd.outs \in Nat /\ nd.bytes \in Nat /\ nd.params \in Nat /\ nd.align \in Nat \ {0}
  BY <1>2, <1>3, PowersArePositive DEF NodeType
<1>5. /\ off.ctx \in Nat /\ off.out \in Nat /\ off.state \in Nat /\ off.param \in Nat
      /\ \A a \in AllOffsets : a \in Seq(Nat) /\ Len(a) = next - 1
      /\ InARow(ctx_base, calls, off.ctx) /\ InARow(out_base_sample, Outputs, off.out)
      /\ InARow(state_offset, Bytes, off.state) /\ InARow(param_base, Params, off.param)
      /\ \A v \in 1..next - 1 : Node(v).bytes > 0 => state_offset[v] % Node(v).align = 0
  BY <1>1 DEF LaidOut
<1>6. at \in Nat /\ (nd.bytes > 0 => off.state <= at /\ at % nd.align = 0)
  BY <1>4, <1>5, AlignedUp
<1>7. calls[next] \in Nat /\ nd.outs * out_stride(next) \in Nat
  <2>1. \A a, b \in Nat : a * b \in Nat  OBVIOUS
  <2>2. QED  BY <2>1, <1>2, <1>3, <1>4
<1>8. \A v \in 1..next : /\ calls[v] \in Nat /\ Outputs[v] \in Nat /\ Bytes[v] \in Nat
                         /\ Params[v] \in Nat
  <2>1. \A a, b \in Nat : a * b \in Nat  OBVIOUS
  <2>2. \A v \in Nodes : Node(v).outs \in Nat /\ Node(v).bytes \in Nat /\ Node(v).params \in Nat
    BY <1>2 DEF NodeType
  <2>3. QED  BY <2>1, <2>2, <1>2, <1>3 DEF Outputs, Bytes, Params
<1>9. /\ Outputs[next] = nd.outs * out_stride(next) /\ Bytes[next] = nd.bytes
      /\ Params[next] = nd.params
      /\ calls[next] \in Nat /\ Outputs[next] \in Nat /\ Params[next] \in Nat
  <2>1. next \in 1..next  BY <1>2
  <2>2. QED  BY <2>1, <1>3, <1>8 DEF Outputs, Bytes, Params
<1>10. /\ Nodes' = Nodes /\ Outputs' = Outputs /\ Bytes' = Bytes /\ Params' = Params
       /\ region_rate' = region_rate /\ blk_exp' = blk_exp /\ node_block' = node_block
       /\ calls' = calls
       /\ \A v : /\ Sources(v)' = Sources(v) /\ Arriving(v)' = Arriving(v) /\ Node(v)' = Node(v)
                 /\ Delta(v)' = Delta(v) /\ Block(blk_exp[v])' = Block(blk_exp[v])
  BY <1>1, RatesKept
<1>11. Sorting' /\ queue' \in Seq(Nodes') /\ topo_order' \in Seq(Nodes')
  <2>1. Done = Nodes  BY <1>1 DEF Sorting
  <2>2. QED  BY <1>1, <2>1, OrderKept
<1>12. Typed'
  <2>1. next' \in Nat \ {0}  BY <1>1, <1>2
  <2>2. QED  BY <2>1, <1>1, <1>10, <1>11 DEF Typed
<1>13. Rated'
  <2>1. Reached = Nodes /\ Reached' = Nodes  BY <1>1, <1>10 DEF Reached
  <2>2. QED  BY <2>1, <1>1, <1>10 DEF Rated, Follows
<1> HIDE DEF nd, at
<1>14. next = Len(ctx_base) + 1 /\ next = Len(out_base_sample) + 1 /\ next = Len(state_offset) + 1
       /\ next = Len(param_base) + 1
       /\ ctx_base \in Seq(Nat) /\ out_base_sample \in Seq(Nat) /\ state_offset \in Seq(Nat)
       /\ param_base \in Seq(Nat)
  BY <1>2, <1>5 DEF AllOffsets
<1>15. /\ off'.ctx = off.ctx + calls[next] /\ off'.out = off.out + Outputs[next]
       /\ off'.param = off.param + Params[next] /\ off'.state \in Nat
       /\ Bytes[next] = 0 => off'.state = off.state
       /\ Bytes[next] > 0 => off'.state = at + Bytes[next]
       /\ off' \in [ctx : Nat, out : Nat, state : Nat, param : Nat]
  <2>1. off'.ctx = off.ctx + calls[next] /\ off'.out = off.out + Outputs[next]
        /\ off'.param = off.param + Params[next]
        /\ off'.state = IF nd.bytes > 0 THEN at + nd.bytes ELSE off.state
    BY <1>1, <1>9
  <2>2. off'.ctx \in Nat /\ off'.out \in Nat /\ off'.param \in Nat
    BY SMTT(30), <2>1, <1>5, <1>9
  <2>3. off'.state \in Nat
    <3>1. CASE nd.bytes > 0  BY <3>1, <2>1, <1>4, <1>6
    <3>2. CASE ~(nd.bytes > 0)  BY <3>2, <2>1, <1>5
    <3>3. QED  BY <3>1, <3>2
  <2>4. off' = [ctx |-> off'.ctx, out |-> off'.out, state |-> off'.state, param |-> off'.param]
    BY <1>1
  <2>5. \A a, b, c, d \in Nat : [ctx |-> a, out |-> b, state |-> c, param |-> d]
          \in [ctx : Nat, out : Nat, state : Nat, param : Nat]
    OBVIOUS
  <2>6. off' \in [ctx : Nat, out : Nat, state : Nat, param : Nat]
    BY <2>2, <2>3, <2>4, <2>5
  <2>7. /\ Bytes[next] = 0 => off'.state = off.state
        /\ Bytes[next] > 0 => off'.state = at + Bytes[next]
    BY <2>1, <1>9
  <2>8. QED  BY <2>1, <2>3, <2>6, <2>7
<1>16. /\ ctx_base' \in Seq(Nat) /\ Len(ctx_base') = next
       /\ InARow(ctx_base, calls, off.ctx)'
  <2>1. /\ off'.ctx \in Nat /\ off.ctx <= off'.ctx
        /\ calls[next] > 0 => off.ctx \in Nat /\ off.ctx <= off.ctx /\ off.ctx + calls[next] <= off'.ctx
    BY <1>5, <1>9, <1>15
  <2>2. \A v \in 1..next : calls[v] \in Nat  BY <1>8
  <2>3. /\ ctx_base \in Seq(Nat) /\ next = Len(ctx_base) + 1 /\ InARow(ctx_base, calls, off.ctx)
        /\ off.ctx \in Nat /\ off.ctx \in Nat
    BY <1>5, <1>6, <1>14
  <2>4. /\ Append(ctx_base, off.ctx) \in Seq(Nat) /\ Len(Append(ctx_base, off.ctx)) = next
        /\ InARow(Append(ctx_base, off.ctx), calls, off'.ctx)
        /\ \A v \in 1..next - 1 : Append(ctx_base, off.ctx)[v] = ctx_base[v]
        /\ Append(ctx_base, off.ctx)[next] = off.ctx
    BY SMTT(30), SMTT(30), <2>1, <2>2, <2>3, RowGrows
  <2>5. QED  BY <2>4, <1>1, <1>10
<1>17. /\ out_base_sample' \in Seq(Nat) /\ Len(out_base_sample') = next
       /\ InARow(out_base_sample, Outputs, off.out)'
  <2>1. /\ off'.out \in Nat /\ off.out <= off'.out
        /\ Outputs[next] > 0 => off.out \in Nat /\ off.out <= off.out /\ off.out + Outputs[next] <= off'.out
    BY <1>5, <1>9, <1>15
  <2>2. \A v \in 1..next : Outputs[v] \in Nat  BY <1>8
  <2>3. /\ out_base_sample \in Seq(Nat) /\ next = Len(out_base_sample) + 1 /\ InARow(out_base_sample, Outputs, off.out)
        /\ off.out \in Nat /\ off.out \in Nat
    BY <1>5, <1>6, <1>14
  <2>4. /\ Append(out_base_sample, off.out) \in Seq(Nat) /\ Len(Append(out_base_sample, off.out)) = next
        /\ InARow(Append(out_base_sample, off.out), Outputs, off'.out)
        /\ \A v \in 1..next - 1 : Append(out_base_sample, off.out)[v] = out_base_sample[v]
        /\ Append(out_base_sample, off.out)[next] = off.out
    BY <2>1, <2>2, <2>3, RowGrows
  <2>5. QED  BY <2>4, <1>1, <1>10
<1>18. /\ state_offset' \in Seq(Nat) /\ Len(state_offset') = next
       /\ InARow(state_offset, Bytes, off.state)'
       /\ \A v \in 1..next - 1 : state_offset'[v] = state_offset[v]
       /\ state_offset'[next] = at
  <2>1. /\ off'.state \in Nat /\ off.state <= off'.state
        /\ Bytes[next] > 0 => at \in Nat /\ off.state <= at /\ at + Bytes[next] <= off'.state
    <3>1. Bytes[next] \in Nat  BY <1>4, <1>9
    <3>2. CASE Bytes[next] = 0  BY <3>2, <1>5, <1>15
    <3>3. CASE Bytes[next] > 0
      <4>1. off.state <= at /\ at \in Nat /\ off'.state = at + Bytes[next]  BY <3>3, <1>6, <1>9, <1>15
      <4>2. QED  BY <4>1, <3>1, <1>5
    <3>4. QED  BY <3>1, <3>2, <3>3
  <2>2. \A v \in 1..next : Bytes[v] \in Nat  BY <1>8
  <2>3. /\ state_offset \in Seq(Nat) /\ next = Len(state_offset) + 1 /\ InARow(state_offset, Bytes, off.state)
        /\ off.state \in Nat /\ at \in Nat
    BY <1>5, <1>6, <1>14
  <2>4. /\ Append(state_offset, at) \in Seq(Nat) /\ Len(Append(state_offset, at)) = next
        /\ InARow(Append(state_offset, at), Bytes, off'.state)
        /\ \A v \in 1..next - 1 : Append(state_offset, at)[v] = state_offset[v]
        /\ Append(state_offset, at)[next] = at
    BY <2>1, <2>2, <2>3, RowGrows
  <2>5. QED  BY <2>4, <1>1, <1>10
<1>19. /\ param_base' \in Seq(Nat) /\ Len(param_base') = next
       /\ InARow(param_base, Params, off.param)'
  <2>1. /\ off'.param \in Nat /\ off.param <= off'.param
        /\ Params[next] > 0 => off.param \in Nat /\ off.param <= off.param /\ off.param + Params[next] <= off'.param
    BY <1>5, <1>9, <1>15
  <2>2. \A v \in 1..next : Params[v] \in Nat  BY <1>8
  <2>3. /\ param_base \in Seq(Nat) /\ next = Len(param_base) + 1 /\ InARow(param_base, Params, off.param)
        /\ off.param \in Nat /\ off.param \in Nat
    BY <1>5, <1>6, <1>14
  <2>4. /\ Append(param_base, off.param) \in Seq(Nat) /\ Len(Append(param_base, off.param)) = next
        /\ InARow(Append(param_base, off.param), Params, off'.param)
        /\ \A v \in 1..next - 1 : Append(param_base, off.param)[v] = param_base[v]
        /\ Append(param_base, off.param)[next] = off.param
    BY <2>1, <2>2, <2>3, RowGrows
  <2>5. QED  BY <2>4, <1>1, <1>10
<1>20. \A v \in 1..next : Node(v).bytes > 0 => state_offset'[v] % Node(v).align = 0
  <2> SUFFICES ASSUME NEW v \in 1..next, Node(v).bytes > 0
               PROVE  state_offset'[v] % Node(v).align = 0
    OBVIOUS
  <2>1. CASE v \in 1..next - 1  BY <2>1, <1>5, <1>18
  <2>2. CASE v = next  BY <2>2, <1>6, <1>18 DEF nd
  <2>3. QED  BY <2>1, <2>2, <1>2
<1>21. LaidOut'
  <2>1. pass' = "layout" /\ next' - 1 = next /\ next' <= Len(bp'.nodes) + 1  BY <1>1, <1>2
  <2>2. \A a \in AllOffsets' : a \in Seq(Nat) /\ Len(a) = next' - 1
    BY <2>1, <1>16, <1>17, <1>18, <1>19 DEF AllOffsets
  <2>3. (\A v \in 1..next - 1 : Node(v).bytes > 0 => state_offset[v] % Node(v).align = 0)'
    BY <2>1, <1>10, <1>20
  <2>4. QED  BY <2>1, <2>2, <2>3, <1>15, <1>16, <1>17, <1>18, <1>19 DEF LaidOut
<1>22. QED  BY <1>11, <1>12, <1>13, <1>21

LEMMA PlacedCompile == ASSUME CompileInv, Placed PROVE CompileInv'
<1> USE DEF CompileInv
<1>1. UNCHANGED <<bp, B, sortVars, next, rateVars, layoutVars>> /\ pass = "layout" /\ pass' = "ok"
      /\ next > Len(bp.nodes)
  BY DEF Placed
<1>2. /\ Nodes' = Nodes /\ Outputs' = Outputs /\ Bytes' = Bytes /\ Params' = Params
      /\ region_rate' = region_rate /\ blk_exp' = blk_exp /\ node_block' = node_block
      /\ calls' = calls
      /\ \A v : /\ Sources(v)' = Sources(v) /\ Arriving(v)' = Arriving(v) /\ Node(v)' = Node(v)
                /\ Delta(v)' = Delta(v) /\ Block(blk_exp[v])' = Block(blk_exp[v])
  BY <1>1, RatesKept
<1>3. Sorting' /\ queue' \in Seq(Nodes') /\ topo_order' \in Seq(Nodes')
  <2>1. Done = Nodes  BY <1>1 DEF Sorting
  <2>2. QED  BY <1>1, <2>1, OrderKept
<1>4. Typed'  BY <1>1, <1>2, <1>3 DEF Typed
<1>5. Rated'
  <2>1. Reached = Nodes /\ Reached' = Nodes  BY <1>1, <1>2 DEF Reached
  <2>2. QED  BY <2>1, <1>1, <1>2 DEF Rated, Follows
<1>6. LaidOut'
  <2>1. next = Len(bp.nodes) + 1
    <3>1. next <= Len(bp.nodes) + 1 /\ next \in Nat /\ Len(bp.nodes) \in Nat
      BY <1>1, Facts DEF LaidOut, Typed
    <3>2. QED  BY <3>1, <1>1
  <2>2. /\ ctx_base' = ctx_base /\ out_base_sample' = out_base_sample
        /\ state_offset' = state_offset /\ param_base' = param_base /\ off' = off
        /\ AllOffsets' = AllOffsets
    BY <1>1 DEF layoutVars, AllOffsets
  <2>3. InARow(ctx_base, calls, off.ctx)' /\ InARow(out_base_sample, Outputs, off.out)'
        /\ InARow(state_offset, Bytes, off.state)' /\ InARow(param_base, Params, off.param)'
    BY <1>1, <1>2, <2>2 DEF LaidOut
  <2>4. (\A v \in 1..next - 1 : Node(v).bytes > 0 => state_offset[v] % Node(v).align = 0)'
    BY <1>1, <1>2, <2>2 DEF LaidOut
  <2>5. QED  BY <1>1, <2>1, <2>2, <2>3, <2>4 DEF LaidOut
<1>7. QED  BY <1>3, <1>4, <1>5, <1>6

LEMMA KeepCompile == ASSUME CompileInv, UNCHANGED vars PROVE CompileInv'
<1> USE DEF CompileInv
<1>1. UNCHANGED <<bp, B, pass, sortVars, next, rateVars, layoutVars>>
  BY DEF vars, sortVars, rateVars, layoutVars
<1>2. UNCHANGED <<bp, B, pass, in_degree, queue, topo_order, next, region_rate, blk_exp,
                  node_block, calls, off, ctx_base, out_base_sample, state_offset, param_base>>
  BY DEF vars
<1>3. Typed'  BY <1>2 DEF Typed, Nodes
<1>4. Sorting'
  <2>1. /\ topo_order' = topo_order /\ queue' = queue /\ in_degree' = in_degree
        /\ pass' = pass /\ next' = next /\ bp' = bp
        /\ Done' = Done /\ Nodes' = Nodes /\ Waiting' = Waiting
    BY <1>2 DEF Done, Nodes, Waiting
  <2>2. /\ \A v : Sources(v)' = Sources(v) /\ Into(bp, v)' = Into(bp, v)
        /\ \A n : Sources(topo_order[n])' = Sources(topo_order[n])
    BY <2>1 DEF Sources, Into
  <2>3. /\ (\A m, n \in DOMAIN topo_order : topo_order[m] = topo_order[n] => m = n)'
        /\ (\A n \in DOMAIN topo_order : \A u \in Sources(topo_order[n]) :
               \E m \in 1..n - 1 : topo_order[m] = u)'
        /\ (pass \in {"rates", "layout", "ok"} => Done = Nodes)'
    BY <2>1, <2>2 DEF Sorting
  <2>4. (pass = "sort" =>
           /\ next = 1
           /\ \A m, n \in DOMAIN queue : queue[m] = queue[n] => m = n
           /\ Done \cap Waiting = {})'
    BY <2>1 DEF Sorting
  <2>5. (pass = "sort" =>
           \A v \in Nodes :
             /\ in_degree[v] = Cardinality({i \in Into(bp, v) : bp.conns[i].src \notin Done})
             /\ v \in Done \cup Waiting <=> Sources(v) \subseteq Done)'
    BY <2>1, <2>2 DEF Sorting
  <2>6. QED  BY <2>3, <2>4, <2>5 DEF Sorting
<1>5. /\ Nodes' = Nodes /\ Outputs' = Outputs /\ Bytes' = Bytes /\ Params' = Params
      /\ calls' = calls
      /\ \A v : Node(v)' = Node(v)
  BY <1>1, RatesKept
<1>6. Rated'
  <2>1. Reached' = Reached  BY <1>2 DEF Reached, Nodes
  <2>2. QED  BY <2>1, <1>1, <1>2, RatesKept DEF Rated, Follows
<1>7. LaidOut'
  <2>1. /\ AllOffsets' = AllOffsets /\ ctx_base' = ctx_base /\ out_base_sample' = out_base_sample
        /\ state_offset' = state_offset /\ param_base' = param_base /\ off' = off
        /\ pass' = pass /\ next' = next /\ bp' = bp
    BY <1>2 DEF AllOffsets
  <2>2. (pass \in {"sort", "rates"} =>
           AllOffsets = {<< >>} /\ off = [ctx |-> 0, out |-> 0, state |-> 0, param |-> 0])'
    BY <2>1 DEF LaidOut
  <2>3. (pass \in {"layout", "ok"} =>
           /\ InARow(ctx_base, calls, off.ctx) /\ InARow(out_base_sample, Outputs, off.out)
           /\ InARow(state_offset, Bytes, off.state) /\ InARow(param_base, Params, off.param))'
    BY <2>1, <1>5 DEF LaidOut
  <2>4. (pass \in {"layout", "ok"} =>
           \A v \in 1..next - 1 : Node(v).bytes > 0 => state_offset[v] % Node(v).align = 0)'
    BY <2>1, <1>5 DEF LaidOut
  <2>5. QED  BY <2>1, <2>2, <2>3, <2>4 DEF LaidOut
<1>8. QED  BY <1>3, <1>4, <1>6, <1>7

\* compile() in whatever program calls it, with voices being run in between.
LEMMA CompileStep == ASSUME CompileInv, [InstanceNext]_instanceVars PROVE CompileInv'
<1>1. ASSUME NEW b \in Blueprints, Begin(b) PROVE CompileInv'  BY <1>1, BeginCompile
<1>2. CASE Next
  BY <1>2, SortCompile, SortedCompile, PropagateCompile, MismatchCompile, PropagatedCompile,
     PlaceCompile, PlacedCompile DEF Next
<1>3. CASE VoiceNext
  <2>1. Build \/ Tune \/ StartCycle \/ Call \/ EndCycle  BY <1>3 DEF VoiceNext
  <2>2. UNCHANGED vars
    BY <2>1 DEF Build, Tune, InitParameter, SetParameter, Tuned, StartCycle, Call, EndCycle
  <2>3. QED  BY <2>2, KeepCompile
<1>4. CASE UNCHANGED instanceVars  BY <1>4, KeepCompile DEF instanceVars
<1>5. QED  BY <1>1, <1>2, <1>3, <1>4 DEF InstanceNext, Registering, Compiling

\* What each pass of compile() relies on holds whenever it runs.
THEOREM CompileInvariance == InstanceSpec => []CompileInv
<1>1. InstanceInit => CompileInv  BY InitCompile DEF InstanceInit
<1>2. CompileInv /\ [InstanceNext]_instanceVars => CompileInv'  BY CompileStep
<1>3. QED  BY <1>1, <1>2, PTL DEF InstanceSpec

\* Ranges in a row have nothing in common.
LEMMA RowIsApart ==
  ASSUME NEW at, NEW size, NEW end \in Nat, InARow(at, size, end),
         \A v \in DOMAIN at : at[v] \in Nat /\ size[v] \in Nat,
         DOMAIN at \subseteq Nat
  PROVE  /\ \A v, w \in DOMAIN at : v # w => Span(at[v], size[v]) \cap Span(at[w], size[w]) = {}
         /\ \A v \in DOMAIN at : Span(at[v], size[v]) \subseteq 0..(end - 1)
<1>1. ASSUME NEW v \in DOMAIN at, NEW w \in DOMAIN at, v < w
      PROVE  Span(at[v], size[v]) \cap Span(at[w], size[w]) = {}
  <2> SUFFICES ASSUME NEW s \in Span(at[v], size[v]), s \in Span(at[w], size[w]) PROVE FALSE
    OBVIOUS
  <2>1. at[v] \in Nat /\ size[v] \in Nat /\ at[w] \in Nat /\ size[w] \in Nat  OBVIOUS
  <2>2. s \in Int /\ at[v] <= s /\ s <= at[v] + size[v] - 1 /\ at[w] <= s /\ s <= at[w] + size[w] - 1
    BY <2>1 DEF Span
  <2>3. size[v] > 0 /\ size[w] > 0  BY <2>1, <2>2
  <2>4. at[v] + size[v] <= at[w]  BY <2>3, <1>1 DEF InARow
  <2>5. QED  BY <2>1, <2>2, <2>4
<1>2. ASSUME NEW v \in DOMAIN at, NEW s \in Span(at[v], size[v]) PROVE s \in 0..end - 1
  <2>1. at[v] \in Nat /\ size[v] \in Nat  OBVIOUS
  <2>2. s \in Int /\ at[v] <= s /\ s <= at[v] + size[v] - 1  BY <2>1 DEF Span
  <2>3. size[v] > 0  BY <2>1, <2>2
  <2>4. at[v] + size[v] <= end  BY <2>3 DEF InARow
  <2>5. QED  BY <2>1, <2>2, <2>4
<1>3. \A v, w \in DOMAIN at : v # w => v < w \/ w < v  OBVIOUS
<1>4. QED  BY <1>1, <1>2, <1>3

LEMMA Disjoint == CompileInv => LayoutIsDisjoint
<1> SUFFICES ASSUME CompileInv, pass = "ok"
             PROVE  LET contexts(v) == Span(ctx_base[v], calls[v])
                        outputs(v) == Span(out_base_sample[v], Node(v).outs * out_stride(v))
                        state(v) == Span(state_offset[v], Node(v).bytes)
                        ports(v) == Span(param_base[v], Node(v).params)
                    IN /\ Apart(contexts) /\ Apart(outputs) /\ Apart(state) /\ Apart(ports)
                       /\ \A v \in Nodes :
                            /\ contexts(v) \subseteq 0..(off.ctx - 1)
                            /\ outputs(v) \subseteq 0..(off.out - 1)
                            /\ state(v) \subseteq 0..(off.state - 1)
                            /\ ports(v) \subseteq 0..(off.param - 1)
                            /\ Node(v).bytes > 0 => state_offset[v] % Node(v).align = 0
  BY DEF LayoutIsDisjoint
<1>1. /\ Len(bp.nodes) \in Nat /\ Nodes = 1..Len(bp.nodes)
      /\ \A v \in Nodes : Node(v) \in NodeType /\ calls[v] \in Nat \ {0} /\ out_stride(v) \in Nat \ {0}
  BY Facts DEF CompileInv, Typed
<1>2. \A v \in Nodes : /\ calls[v] \in Nat /\ Outputs[v] \in Nat /\ Bytes[v] \in Nat
                       /\ Params[v] \in Nat
                       /\ Outputs[v] = Node(v).outs * out_stride(v) /\ Bytes[v] = Node(v).bytes
                       /\ Params[v] = Node(v).params
  <2>1. \A a, b \in Nat : a * b \in Nat  OBVIOUS
  <2>2. \A v \in Nodes : Node(v).outs \in Nat /\ Node(v).bytes \in Nat /\ Node(v).params \in Nat
    BY <1>1 DEF NodeType
  <2>3. QED  BY <2>1, <2>2, <1>1 DEF Outputs, Bytes, Params
<1>3. /\ next = Len(bp.nodes) + 1
      /\ off.ctx \in Nat /\ off.out \in Nat /\ off.state \in Nat /\ off.param \in Nat
      /\ \A a \in AllOffsets : a \in Seq(Nat) /\ Len(a) = next - 1
      /\ InARow(ctx_base, calls, off.ctx) /\ InARow(out_base_sample, Outputs, off.out)
      /\ InARow(state_offset, Bytes, off.state) /\ InARow(param_base, Params, off.param)
      /\ \A v \in 1..next - 1 : Node(v).bytes > 0 => state_offset[v] % Node(v).align = 0
  BY DEF CompileInv, LaidOut
<1>4. \A a \in AllOffsets : DOMAIN a = Nodes /\ \A v \in Nodes : a[v] \in Nat
  <2> SUFFICES ASSUME NEW a \in AllOffsets PROVE DOMAIN a = Nodes /\ \A v \in Nodes : a[v] \in Nat
    OBVIOUS
  <2>1. a \in Seq(Nat) /\ Len(a) = Len(bp.nodes)  BY <1>1, <1>3
  <2>2. QED  BY <2>1, <1>1, LenProperties, ElementOfSeq
<1>5. Nodes \subseteq Nat  BY <1>1
<1>6. /\ \A v, w \in Nodes : v # w => Span(ctx_base[v], calls[v]) \cap Span(ctx_base[w], calls[w]) = {}
      /\ \A v \in Nodes : Span(ctx_base[v], calls[v]) \subseteq 0..(off.ctx - 1)
  <2>1. DOMAIN ctx_base = Nodes /\ \A v \in Nodes : ctx_base[v] \in Nat  BY <1>4 DEF AllOffsets
  <2>2. QED  BY <2>1, <1>2, <1>3, <1>5, RowIsApart
<1>7. /\ \A v, w \in Nodes : v # w =>
           Span(out_base_sample[v], Outputs[v]) \cap Span(out_base_sample[w], Outputs[w]) = {}
      /\ \A v \in Nodes : Span(out_base_sample[v], Outputs[v]) \subseteq 0..(off.out - 1)
  <2>1. DOMAIN out_base_sample = Nodes /\ \A v \in Nodes : out_base_sample[v] \in Nat
    BY <1>4 DEF AllOffsets
  <2>2. QED  BY <2>1, <1>2, <1>3, <1>5, RowIsApart
<1>8. /\ \A v, w \in Nodes : v # w =>
           Span(state_offset[v], Bytes[v]) \cap Span(state_offset[w], Bytes[w]) = {}
      /\ \A v \in Nodes : Span(state_offset[v], Bytes[v]) \subseteq 0..(off.state - 1)
  <2>1. DOMAIN state_offset = Nodes /\ \A v \in Nodes : state_offset[v] \in Nat
    BY <1>4 DEF AllOffsets
  <2>2. QED  BY <2>1, <1>2, <1>3, <1>5, RowIsApart
<1>9. /\ \A v, w \in Nodes : v # w =>
           Span(param_base[v], Params[v]) \cap Span(param_base[w], Params[w]) = {}
      /\ \A v \in Nodes : Span(param_base[v], Params[v]) \subseteq 0..(off.param - 1)
  <2>1. DOMAIN param_base = Nodes /\ \A v \in Nodes : param_base[v] \in Nat
    BY <1>4 DEF AllOffsets
  <2>2. QED  BY <2>1, <1>2, <1>3, <1>5, RowIsApart
<1>10. \A v \in Nodes : Node(v).bytes > 0 => state_offset[v] % Node(v).align = 0
  <2>1. next - 1 = Len(bp.nodes)  BY <1>1, <1>3
  <2>2. QED  BY <2>1, <1>1, <1>3
<1>11. QED  BY <1>2, <1>6, <1>7, <1>8, <1>9, <1>10 DEF Apart

\* A compiled schedule gives its nodes disjoint ranges of contexts, output samples,
\* state bytes and control ports, inside what build() reserves, each state aligned as
\* its node asks: schedule.cpp's offset assignment, for every blueprint.
THEOREM NodesShareNothing == InstanceSpec => []LayoutIsDisjoint
<1>1. QED  BY CompileInvariance, Disjoint, PTL

-----------------------------------------------------------------------------
(* Powers of two.                                                           *)

\* A set of one more element has twice the subsets.
LEMMA Doubles == ASSUME NEW n \in Nat PROVE 2^(n + 1) = 2 * 2^n
<1> DEFINE S == SUBSET (1..n)
           T == {X \cup {n + 1} : X \in S}
           f == [X \in S |-> X \cup {n + 1}]
<1>1. IsFiniteSet(1..n) /\ Cardinality(1..n) = n
      /\ IsFiniteSet(1..n + 1) /\ Cardinality(1..n + 1) = n + 1
  BY FS_Interval
<1>2. IsFiniteSet(S) /\ Cardinality(S) = 2^n /\ Cardinality(SUBSET (1..n + 1)) = 2^(n + 1)
  BY <1>1, FS_SUBSET
<1>3. \A X \in S : n + 1 \notin X  OBVIOUS
<1>4. f \in Bijection(S, T)
  <2>1. f \in [S -> T]  OBVIOUS
  <2>2. \A X, Y \in S : f[X] = f[Y] => X = Y
    <3> SUFFICES ASSUME NEW X \in S, NEW Y \in S, f[X] = f[Y] PROVE X = Y  OBVIOUS
    <3>1. X \cup {n + 1} = Y \cup {n + 1}  OBVIOUS
    <3>2. \A x : x \in X <=> x \in Y  BY <3>1, <1>3
    <3>3. QED  BY <3>2
  <2>3. \A Z \in T : \E X \in S : f[X] = Z  OBVIOUS
  <2> HIDE DEF f, S, T
  <2>4. QED  BY <2>1, <2>2, <2>3 DEF Bijection, Injection, IsInjective, Surjection
<1>5. IsFiniteSet(T) /\ Cardinality(T) = 2^n
  <2>1. ExistsBijection(S, T)  BY <1>4 DEF ExistsBijection
  <2> HIDE DEF S, T
  <2>2. QED  BY <2>1, <1>2, FS_Bijection
<1>6. S \cap T = {}  BY <1>3
<1>7. S \cup T = SUBSET (1..n + 1)
  <2>1. 1..n + 1 = (1..n) \cup {n + 1}  OBVIOUS
  <2>2. ASSUME NEW Z \in SUBSET (1..n + 1) PROVE Z \in S \cup T
    <3>1. CASE n + 1 \in Z
      <4>1. Z \ {n + 1} \in S /\ Z = (Z \ {n + 1}) \cup {n + 1}  BY <3>1, <2>1
      <4>2. QED  BY <4>1
    <3>2. CASE n + 1 \notin Z  BY <3>2, <2>1
    <3>3. QED  BY <3>1, <3>2
  <2>3. S \cup T \subseteq SUBSET (1..n + 1)  BY <2>1
  <2>4. QED  BY <2>2, <2>3
<1>8. Cardinality(S \cup T) = Cardinality(S) + Cardinality(T) - Cardinality(S \cap T)
  <2> HIDE DEF S, T
  <2>1. QED  BY <1>2, <1>5, FS_Union
<1>9. 2^(n + 1) = 2^n + 2^n - 0  BY <1>2, <1>5, <1>6, <1>7, <1>8, FS_EmptySet
<1>10. 2^n \in Nat  BY TwoToThe
<1>11. QED  BY <1>9, <1>10

LEMMA Adds == ASSUME NEW a \in Nat, NEW b \in Nat PROVE 2^(a + b) = 2^a * 2^b
<1> DEFINE S == {x \in Nat : 2^(a + x) # 2^a * 2^x}
<1> SUFFICES ASSUME S # {} PROVE FALSE  OBVIOUS
<1>1. PICK x \in S : \A y \in S : x <= y
  <2>1. S \subseteq Nat  OBVIOUS
  <2> HIDE DEF S
  <2>2. QED  BY <2>1, Least
<1>2. x \in Nat /\ 2^a \in Nat  BY TwoToThe
<1>3. CASE x = 0
  <2>1. 2^(a + x) = 2^a /\ 2^x = 1  BY <1>3, OneIsAPower
  <2>2. QED  BY <2>1, <1>2
<1>4. CASE x # 0
  <2>1. x - 1 \in Nat /\ ~(x <= x - 1)  BY <1>2, <1>4
  <2>2. PICK y \in Nat : y = x - 1  BY <2>1
  <2>3. y \notin S /\ x = y + 1  BY <1>1, <1>2, <2>1, <2>2
  <2>4. 2^(a + y) = 2^a * 2^y  BY <2>3
  <2>5. 2^(y + 1) = 2 * 2^y /\ 2^((a + y) + 1) = 2 * 2^(a + y)  BY Doubles
  <2>6. (a + y) + 1 = a + x  BY <2>3
  <2>7. 2^y \in Nat  BY TwoToThe
  <2>8. PICK p, q \in Nat : p = 2^a /\ q = 2^y  BY <1>2, <2>7
  <2>9. 2 * (p * q) = p * (2 * q)  OBVIOUS
  <2>10. 2^(a + x) = 2^a * 2^x  BY <2>3, <2>4, <2>5, <2>6, <2>8, <2>9
  <2>11. QED  BY <2>10
<1>5. QED  BY <1>3, <1>4

\* A block of more than one sample has an even number of them.
LEMMA BlocksAreEven ==
  ASSUME B \in BlockSizes, NEW e \in Int, NEW nb \in Block(e), nb # 1
  PROVE  \E h \in Nat \ {0} : nb = 2 * h
<1>1. PICK k \in 0..16 : B = 2^k  BY BlockSizesAssumption DEF Powers
<1>2. k \in Nat /\ \A n \in Nat : 2^n \in Nat \ {0}  BY TwoToThe
<1>3. ASSUME NEW n \in Nat, 2^n # 1 PROVE \E h \in Nat \ {0} : 2^n = 2 * h
  <2>1. n # 0  BY <1>3, OneIsAPower
  <2>2. PICK m \in Nat : n = m + 1
    <3>1. n - 1 \in Nat /\ n = (n - 1) + 1  BY <2>1
    <3>2. QED  BY <3>1
  <2>3. QED  BY <2>2, <1>2, Doubles
<1>4. CASE e >= 0
  <2>1. e \in Nat /\ nb = 2^k * 2^e  BY <1>1, <1>4 DEF Block
  <2>2. k + e \in Nat /\ nb = 2^(k + e)  BY <2>1, <1>2, Adds
  <2>3. QED  BY <2>2, <1>3
<1>5. CASE ~(e >= 0)
  <2>1. PICK m \in Nat : m = -e  BY <1>5
  <2>2. 2^k % 2^m = 0 /\ nb = 2^k \div 2^m  BY <2>1, <1>1, <1>5 DEF Block
  <2>3. CASE m <= k
    <3>1. PICK d \in Nat : k = d + m
      <4>1. k - m \in Nat /\ k = (k - m) + m  BY <2>3, <1>2
      <4>2. QED  BY <4>1
    <3>2. 2^k = 2^d * 2^m  BY <3>1, Adds
    <3>3. nb = 2^d  BY <2>2, <3>2, <1>2, Quotient
    <3>4. QED  BY <3>3, <1>3
  <2>4. CASE ~(m <= k)
    <3>1. PICK d \in Nat : m = k + (d + 1)
      <4>1. m - k - 1 \in Nat /\ m = k + ((m - k - 1) + 1)  BY <2>4, <1>2
      <4>2. QED  BY <4>1
    <3>2. 2^m = 2^k * 2^(d + 1) /\ 2^(d + 1) = 2 * 2^d  BY <3>1, <1>2, Adds, Doubles
    <3>3. PICK p \in Nat \ {0}, q \in Nat \ {0} : p = 2^k /\ q = 2^d  BY <1>2
    <3>4. 2^m = p * (2 * q)  BY <3>2, <3>3
    <3>5. p * (2 * q) = 2 * (p * q) /\ p * q >= p  BY <3>3
    <3>6. p * q \in Nat  BY <3>3
    <3>7. PICK r \in Nat : r = p * q  BY <3>6
    <3>8. 2^m = 2 * r /\ r >= p  BY <3>4, <3>5, <3>7
    <3>9. p < 2 * r /\ p \in Nat \ {0} /\ r \in Nat  BY <3>8, <3>3
    <3>10. p % (2 * r) = p
      <4>1. PICK x \in Nat \ {0} : x = 2 * r  BY <3>9
      <4>2. p < x => p % x = p
        <5>1. p = x * (p \div x) + (p % x) /\ p \div x \in Nat /\ p % x \in 0..x-1  BY <3>9
        <5>2. CASE p \div x >= 1
          <6>1. x * (p \div x) >= x * 1  BY <5>1, <5>2
          <6>2. x * (p \div x) \in Nat  BY <5>1
          <6>3. QED  BY <5>1, <6>1, <6>2
        <5>3. CASE p \div x = 0  BY <5>1, <5>3
        <5>4. QED  BY <5>1, <5>2, <5>3
      <4>3. QED  BY <4>1, <4>2, <3>9
    <3>11. QED  BY <2>2, <3>3, <3>8, <3>9, <3>10
  <2>5. QED  BY <2>3, <2>4, <1>2
<1>6. QED  BY <1>4, <1>5

-----------------------------------------------------------------------------
(* A voice's buffers.                                                       *)

\* n pieces of d: each place is in one of them, at most one.
Parts(base, n, d) ==
  /\ \A s \in Span(base, n * d) : \E k \in 0..n-1 : s \in Span(base + k * d, d)
  /\ \A k \in 0..n-1 : Span(base + k * d, d) \subseteq Span(base, n * d)
  /\ \A k, l \in Nat : \A s \in Span(base + k * d, d) : s \in Span(base + l * d, d) => k = l

LEMMA Cut ==
  ASSUME NEW n \in Nat, NEW d \in Nat \ {0}, NEW base \in Nat PROVE Parts(base, n, d)
<1>0. \A k \in Nat : k * d \in Nat  OBVIOUS
<1>1. ASSUME NEW k \in Nat, NEW l \in Nat, k < l PROVE k * d + d <= l * d
  <2>1. k + 1 <= l /\ (k + 1) * d = k * d + d  BY <1>1
  <2>2. (k + 1) * d <= l * d
    <3>1. PICK j \in Nat : l = (k + 1) + j
      <4>1. l - (k + 1) \in Nat /\ l = (k + 1) + (l - (k + 1))  BY <2>1
      <4>2. QED  BY <4>1
    <3>2. l * d = (k + 1) * d + j * d  BY <3>1
    <3>3. QED  BY <3>2, <1>0
  <2>3. QED  BY <2>1, <2>2
<1>2. ASSUME NEW s \in Span(base, n * d) PROVE \E k \in 0..n-1 : s \in Span(base + k * d, d)
  <2>1. s \in Int /\ base <= s /\ s <= base + n * d - 1  BY <1>0 DEF Span
  <2>2. PICK x \in Nat : x = s - base  BY <2>1
  <2>3. PICK k \in Nat, r \in 0..d-1 : x = d * k + r
    <3>1. x = d * (x \div d) + (x % d) /\ x \div d \in Nat /\ x % d \in 0..d-1  OBVIOUS
    <3>2. QED  BY <3>1
  <2>4. d * k = k * d  OBVIOUS
  <2>5. k < n
    <3> SUFFICES ASSUME ~(k < n) PROVE FALSE  OBVIOUS
    <3>1. n * d <= k * d
      <4>1. CASE n = k  BY <4>1, <1>0
      <4>2. CASE n < k  BY <4>2, <1>0, <1>1
      <4>3. QED  BY <4>1, <4>2
    <3>2. QED  BY <3>1, <1>0, <2>1, <2>2, <2>3, <2>4
  <2>6. s \in Span(base + k * d, d)  BY <1>0, <2>1, <2>2, <2>3, <2>4 DEF Span
  <2>7. k \in 0..n-1  BY <2>5
  <2>8. QED  BY <2>6, <2>7
<1>3. ASSUME NEW k \in 0..n-1, NEW s \in Span(base + k * d, d) PROVE s \in Span(base, n * d)
  <2>1. k * d + d <= n * d  BY <1>1
  <2>2. QED  BY <2>1, <1>0 DEF Span
<1>4. ASSUME NEW k \in Nat, NEW l \in Nat, NEW s \in Span(base + k * d, d), s \in Span(base + l * d, d)
      PROVE  k = l
  <2>1. s \in Int /\ base + k * d <= s /\ s <= base + k * d + d - 1
        /\ base + l * d <= s /\ s <= base + l * d + d - 1
    BY <1>0, <1>4 DEF Span
  <2>2. CASE k < l  BY <2>1, <2>2, <1>0, <1>1
  <2>3. CASE l < k  BY <2>1, <2>3, <1>0, <1>1
  <2>4. QED  BY <2>2, <2>3
<1>5. QED  BY <1>2, <1>3, <1>4 DEF Parts

\* A factor that can be taken away.
LEMMA Cancel == ASSUME NEW k \in Nat \ {0}, NEW x \in Nat, NEW y \in Nat, k * x = k * y PROVE x = y
<1>1. x * k = k * x /\ y * k = k * y  OBVIOUS
<1>2. (x * k) \div k = x /\ (y * k) \div k = y  BY Quotient
<1>3. QED  BY <1>1, <1>2

\* A finished schedule.
Finished == CompileInv /\ pass = "ok"

LEMMA Ratios ==
  ASSUME Finished, Octaves, NoTinyDoubling, NEW v \in Nodes
  PROVE  /\ Node(v).rnum \in {1, 2} /\ Node(v).rden \in {1, 2}
         /\ Boundary(v) => Node(v).params = 0
         /\ calls[v] \in Nat \ {0} /\ node_block[v] \in Nat \ {0}
         /\ calls[v] * node_block[v] = out_stride(v)
         /\ Node(v).rnum = 2 /\ Node(v).rden = 1 => \E h \in Nat \ {0} : node_block[v] = 2 * h
         /\ \A u \in Sources(v) :
              u \in Nodes /\ region_rate[v] * Node(v).rden = region_rate[u] * Node(v).rnum
         /\ Sources(v) = {} => region_rate[v] * Node(v).rden = Node(v).rnum
<1> USE DEF Finished, CompileInv
<1>1. bp \in Blueprints
  <2>1. Empty.nodes = << >> /\ DOMAIN << >> = {}  BY DEF Empty
  <2>2. QED  BY <2>1 DEF Typed, Nodes
<1>2. Node(v).rnum \in {1, 2} /\ Node(v).rden \in {1, 2} /\ (Boundary(v) => Node(v).params = 0)
  BY <1>1 DEF Octaves, Node, Nodes, Boundary
<1>3. calls[v] \in Nat \ {0} /\ node_block[v] \in Nat \ {0} /\ calls[v] * node_block[v] = out_stride(v)
  BY DEF Typed, out_stride
<1> DEFINE from == IF Sources(v) = {} THEN {<<1, 0>>} ELSE Arriving(v)
<1>4. \A a \in from : /\ region_rate[v] * Node(v).rden = a[1] * Node(v).rnum
                      /\ node_block[v] \in Block(blk_exp[v])
  BY DEF Rated, Follows, Reached
<1>5. from # {}  BY DEF Arriving
<1>6. node_block[v] \in Block(blk_exp[v]) /\ blk_exp[v] \in Int /\ B \in BlockSizes
  BY <1>4, <1>5 DEF Typed
<1>7. ASSUME Node(v).rnum = 2, Node(v).rden = 1 PROVE \E h \in Nat \ {0} : node_block[v] = 2 * h
  <2>1. node_block[v] # 1  BY <1>7 DEF NoTinyDoubling
  <2>2. QED  BY <2>1, <1>6, BlocksAreEven
<1>8. ASSUME NEW u \in Sources(v)
      PROVE  u \in Nodes /\ region_rate[v] * Node(v).rden = region_rate[u] * Node(v).rnum
  <2>1. <<region_rate[u], blk_exp[u]>> \in from  BY <1>8 DEF Arriving
  <2>2. region_rate[v] * Node(v).rden = <<region_rate[u], blk_exp[u]>>[1] * Node(v).rnum
    BY <2>1, <1>4
  <2>3. u \in Nodes  BY Facts
  <2>4. QED  BY <2>2, <2>3
<1>9. Sources(v) = {} => region_rate[v] * Node(v).rden = Node(v).rnum
  <2>1. Sources(v) = {} => <<1, 0>> \in from  OBVIOUS
  <2>2. Sources(v) = {} => region_rate[v] * Node(v).rden = <<1, 0>>[1] * Node(v).rnum
    BY <2>1, <1>4
  <2>3. QED  BY <2>2, <1>2
<1>10. QED  BY <1>2, <1>3, <1>7, <1>8, <1>9

\* The calls of a node cut what comes from each source into equal parts: whole blocks
\* of its own, or halves and doubles at a rate boundary.
LEMMA Slicing ==
  ASSUME Finished, Octaves, NoTinyDoubling, NEW v \in Nodes, NEW u \in Sources(v)
  PROVE  /\ PerCall(v, u) \in Nat \ {0} /\ calls[v] * PerCall(v, u) = out_stride(u)
         /\ ~Boundary(v) => PerCall(v, u) = node_block[v]
         /\ Node(v).rnum = 2 /\ Node(v).rden = 1 => node_block[v] = 2 * PerCall(v, u)
         /\ Node(v).rnum = 1 /\ Node(v).rden = 2 => PerCall(v, u) = 2 * node_block[v]
<1>1. /\ Node(v).rnum \in {1, 2} /\ Node(v).rden \in {1, 2}
      /\ calls[v] \in Nat \ {0} /\ node_block[v] \in Nat \ {0}
      /\ calls[v] * node_block[v] = out_stride(v)
      /\ Node(v).rnum = 2 /\ Node(v).rden = 1 => \E h \in Nat \ {0} : node_block[v] = 2 * h
      /\ u \in Nodes /\ region_rate[v] * Node(v).rden = region_rate[u] * Node(v).rnum
  BY Ratios
<1>2. region_rate[v] \in Nat \ {0} /\ region_rate[u] \in Nat \ {0} /\ B \in Nat \ {0}
  BY <1>1, Facts DEF Finished, CompileInv
<1>3. out_stride(v) = region_rate[v] * B /\ out_stride(u) = region_rate[u] * B  BY DEF out_stride
<1> DEFINE K == calls[v]
           nb == node_block[v]
           R == region_rate[v]
           r == region_rate[u]
<1>4. K \in Nat \ {0} /\ nb \in Nat \ {0} /\ R \in Nat \ {0} /\ r \in Nat \ {0} /\ K * nb = R * B
  BY <1>1, <1>2, <1>3
<1>5. PerCall(v, u) = (r * B) \div K  BY <1>3 DEF PerCall
<1>6. R * Node(v).rden = r * Node(v).rnum  BY <1>1
<1>7. node_block[v] = nb /\ calls[v] = K /\ out_stride(u) = r * B  BY <1>3
<1>8. Boundary(v) <=> Node(v).rnum # Node(v).rden  BY DEF Boundary
<1> HIDE DEF K, nb, R, r
<1>9. CASE Node(v).rnum = Node(v).rden
  <2>1. R = r
    <3>1. CASE Node(v).rden = 1  BY <3>1, <1>4, <1>6, <1>9
    <3>2. CASE Node(v).rden = 2  BY <3>2, <1>4, <1>6, <1>9
    <3>3. QED  BY <3>1, <3>2, <1>1
  <2>2. r * B = nb * K /\ K * nb = nb * K  BY <2>1, <1>4
  <2>3. (nb * K) \div K = nb  BY <1>4, Quotient
  <2>4. PerCall(v, u) = nb  BY <2>2, <2>3, <1>5
  <2>5. QED  BY <2>2, <2>4, <1>4, <1>7, <1>8, <1>9
<1>10. CASE Node(v).rnum = 2 /\ Node(v).rden = 1
  <2>1. R = 2 * r  BY <1>4, <1>6, <1>10
  <2>2. PICK h \in Nat \ {0} : nb = 2 * h  BY <1>1, <1>7, <1>10
  <2>3. K * (2 * h) = (2 * r) * B  BY <2>1, <2>2, <1>4
  <2>4. K * (2 * h) = 2 * (K * h) /\ (2 * r) * B = 2 * (r * B) /\ K * h \in Nat /\ r * B \in Nat
        /\ K * h = h * K
    BY <1>2, <1>4
  <2>5. K * h = r * B  BY <2>3, <2>4, Cancel
  <2>6. (h * K) \div K = h  BY <1>4, Quotient
  <2>7. PerCall(v, u) = h  BY <2>4, <2>5, <2>6, <1>5
  <2>8. QED  BY <2>2, <2>5, <2>7, <1>7, <1>8, <1>10
<1>11. CASE Node(v).rnum = 1 /\ Node(v).rden = 2
  <2>1. r = 2 * R  BY <1>4, <1>6, <1>11
  <2>2. r * B = 2 * (R * B)  BY <2>1, <1>2, <1>4
  <2>3. 2 * (K * nb) = (2 * nb) * K /\ (2 * nb) * K = K * (2 * nb) /\ 2 * nb \in Nat \ {0}  BY <1>4
  <2>4. r * B = (2 * nb) * K  BY <2>2, <2>3, <1>4
  <2>5. ((2 * nb) * K) \div K = 2 * nb  BY <2>3, <1>4, Quotient
  <2>6. PerCall(v, u) = 2 * nb  BY <2>4, <2>5, <1>5
  <2>7. QED  BY <2>3, <2>4, <2>6, <1>7, <1>8, <1>11
<1>12. QED  BY <1>1, <1>9, <1>10, <1>11

\* Each call fills one block of each output.
LEMMA ProducesABlock ==
  ASSUME Finished, Octaves, NoTinyDoubling, NEW v \in Nodes PROVE Produced(v) = node_block[v]
<1>1. /\ Node(v).rnum \in {1, 2} /\ Node(v).rden \in {1, 2} /\ node_block[v] \in Nat \ {0}
      /\ Node(v).rnum = 2 /\ Node(v).rden = 1 => \E h \in Nat \ {0} : node_block[v] = 2 * h
  BY Ratios
<1> DEFINE sizes == {PerCall(v, c.src) : c \in Wire(v, FALSE, 0)}
           size == IF sizes = {} THEN SilentIn(v) ELSE CHOOSE s \in sizes : TRUE
<1>2. Produced(v) = IF ~Boundary(v) THEN node_block[v]
                    ELSE IF Node(v).rnum = 2 THEN 2 * size ELSE (size + 1) \div 2
  BY DEF Produced
<1>3. \/ size = SilentIn(v)
      \/ \E u \in Sources(v) : size = PerCall(v, u)
  <2>1. CASE sizes # {}
    <3>1. size \in sizes  BY <2>1
    <3>2. \A c \in Wire(v, FALSE, 0) : c.src \in Sources(v)  BY DEF Wire, Sources, Into
    <3>3. QED  BY <3>1, <3>2
  <2>2. QED  BY <2>1
<1> HIDE DEF size
<1>4. CASE Node(v).rnum = Node(v).rden  BY <1>2, <1>4 DEF Boundary
<1>5. CASE Node(v).rnum = 2 /\ Node(v).rden = 1
  <2>1. PICK h \in Nat \ {0} : node_block[v] = 2 * h  BY <1>1, <1>5
  <2>2. SilentIn(v) = (2 * h * 1) \div 2  BY <2>1, <1>5 DEF SilentIn
  <2>3. (h * 2) \div 2 = h /\ 2 * h * 1 = h * 2  BY Quotient
  <2>4. 2 * size = node_block[v]
    <3>1. CASE size = SilentIn(v)  BY <3>1, <2>1, <2>2, <2>3
    <3>2. CASE \E u \in Sources(v) : size = PerCall(v, u)  BY <3>2, <1>5, Slicing
    <3>3. QED  BY <3>1, <3>2, <1>3
  <2>5. QED  BY <2>4, <1>2, <1>5 DEF Boundary
<1>6. CASE Node(v).rnum = 1 /\ Node(v).rden = 2
  <2>1. SilentIn(v) = (node_block[v] * 2) \div 1  BY <1>6 DEF SilentIn
  <2>2. size = 2 * node_block[v]
    <3>1. CASE size = SilentIn(v)  BY <3>1, <2>1, <1>1
    <3>2. CASE \E u \in Sources(v) : size = PerCall(v, u)  BY <3>2, <1>6, Slicing
    <3>3. QED  BY <3>1, <3>2, <1>3
  <2>3. (2 * node_block[v] + 1) \div 2 = node_block[v]  BY <1>1
  <2>4. QED  BY <2>2, <2>3, <1>2, <1>6 DEF Boundary
<1>7. QED  BY <1>1, <1>4, <1>5, <1>6

\* Where the outputs of a node are.
LEMMA Owned ==
  ASSUME Finished, NEW v \in Nodes
  PROVE  /\ \A ch \in 0..(Node(v).outs - 1) :
              OutOffset(v, ch) \in Nat /\ Span(OutOffset(v, ch), out_stride(v)) \subseteq Own(v)
         /\ \A s \in Own(v) : \E ch \in 0..(Node(v).outs - 1) :
              s \in Span(OutOffset(v, ch), out_stride(v))
         /\ Own(v) \subseteq 0..(off.out - 1)
         /\ \A w \in Nodes : v # w => Own(v) \cap Own(w) = {}
<1> USE DEF Finished
<1>1. /\ out_stride(v) \in Nat \ {0} /\ Node(v).outs \in Nat /\ Len(bp.nodes) \in Nat
      /\ Nodes = 1..Len(bp.nodes)
  BY Facts DEF CompileInv, NodeType
<1>2. out_base_sample[v] \in Nat
  <2>1. out_base_sample \in Seq(Nat) /\ Len(out_base_sample) = next - 1 /\ next = Len(bp.nodes) + 1
    BY DEF CompileInv, LaidOut, AllOffsets
  <2>2. v \in 1..Len(out_base_sample)  BY <1>1, <2>1
  <2>3. QED  BY <2>1, <2>2, ElementOfSeq
<1>3. \A ch \in Nat : ch * out_stride(v) \in Nat
  <2>1. \A a, b \in Nat : a * b \in Nat  OBVIOUS
  <2>2. QED  BY <2>1, <1>1
<1>4. \A ch \in 0..(Node(v).outs - 1) : OutOffset(v, ch) \in Nat
  <2>1. \A ch \in 0..(Node(v).outs - 1) : ch \in Nat  BY <1>1
  <2>2. \A ch \in Nat : OutOffset(v, ch) \in Nat  BY <1>2, <1>3 DEF OutOffset
  <2>3. QED  BY <2>1, <2>2
<1>5. /\ \A ch \in 0..(Node(v).outs - 1) : Span(OutOffset(v, ch), out_stride(v)) \subseteq Own(v)
      /\ \A s \in Own(v) : \E ch \in 0..(Node(v).outs - 1) :
            s \in Span(OutOffset(v, ch), out_stride(v))
  <2>1. PICK n \in Nat, d \in Nat \ {0}, b \in Nat :
          n = Node(v).outs /\ d = out_stride(v) /\ b = out_base_sample[v]
    BY <1>1, <1>2
  <2>2. /\ \A s \in Span(b, n * d) : \E k \in 0..n-1 : s \in Span(b + k * d, d)
        /\ \A k \in 0..n-1 : Span(b + k * d, d) \subseteq Span(b, n * d)
    <3>1. Parts(b, n, d)  BY Cut
    <3>2. QED  BY <3>1 DEF Parts
  <2>3. Own(v) = Span(b, n * d)  BY <2>1 DEF Own
  <2>4. \A ch : OutOffset(v, ch) = b + ch * d  BY <2>1 DEF OutOffset
  <2>5. QED  BY <2>1, <2>2, <2>3, <2>4
<1>6. Own(v) \subseteq 0..(off.out - 1) /\ \A w \in Nodes : v # w => Own(v) \cap Own(w) = {}
  BY Disjoint DEF LayoutIsDisjoint, Apart, Own
<1>7. QED  BY <1>4, <1>5, <1>6

\* What a call reads of a connection is its part of the source's channel.
LEMMA Reading ==
  ASSUME Finished, Octaves, NoTinyDoubling, NEW v \in Nodes, NEW c \in Connections(v)
  PROVE  /\ c.src \in Sources(v) /\ c.src \in Nodes /\ c.out \in 0..(Node(c.src).outs - 1)
         /\ Channel(c) = Span(OutOffset(c.src, c.out), calls[v] * PerCall(v, c.src))
         /\ \A k : Reads(v, c, k) =
              Span(OutOffset(c.src, c.out) + k * PerCall(v, c.src), PerCall(v, c.src))
<1>1. PICK i \in Into(bp, v) : c = bp.conns[i]  BY DEF Connections
<1>2. /\ i \in DOMAIN bp.conns /\ c.dst = v /\ c.src \in Sources(v) /\ c.src \in Nodes
  BY <1>1, Ratios DEF Into, Sources
<1>3. WellFormed(bp)  BY Facts DEF Finished, CompileInv
<1>4. /\ c.out \in 0..(Node(c.src).outs - 1)
      /\ c.port \in 0..((IF c.param THEN Node(c.dst).params ELSE Node(c.dst).ins) - 1)
  BY <1>1, <1>2, <1>3 DEF WellFormed, Node
<1>5. /\ calls[v] * PerCall(v, c.src) = out_stride(c.src)
      /\ ~Boundary(v) => PerCall(v, c.src) = node_block[v]
  BY <1>2, Slicing
<1>6. c.param => ~Boundary(v)
  <2> SUFFICES ASSUME c.param, Boundary(v) PROVE FALSE  OBVIOUS
  <2>1. c.port \in 0..(0 - 1)  BY <1>2, <1>4, Ratios
  <2>2. QED  BY <2>1
<1>7. Channel(c) = Span(OutOffset(c.src, c.out), calls[v] * PerCall(v, c.src))
  BY <1>5 DEF Channel
<1>8. (IF c.param THEN node_block[v] ELSE InSize(v, c)) = PerCall(v, c.src)
  BY <1>5, <1>6 DEF InSize
<1>9. ASSUME NEW k
      PROVE  Reads(v, c, k) = Span(OutOffset(c.src, c.out) + k * PerCall(v, c.src), PerCall(v, c.src))
  BY <1>8 DEF Reads, View
<1>10. QED  BY <1>2, <1>4, <1>7, <1>9

\* Reading, in the terms of Cut.
LEMMA Pieces ==
  ASSUME Finished, Octaves, NoTinyDoubling, NEW v \in Nodes, NEW c \in Connections(v)
  PROVE  /\ \A s \in Channel(c) : \E k \in 0..(calls[v] - 1) : s \in Reads(v, c, k)
         /\ \A k \in 0..(calls[v] - 1) : Reads(v, c, k) \subseteq Channel(c)
         /\ \A k, l \in 0..(calls[v] - 1) : \A s \in Reads(v, c, k) : s \in Reads(v, c, l) => k = l
<1>1. /\ c.src \in Sources(v) /\ c.src \in Nodes /\ c.out \in 0..(Node(c.src).outs - 1)
      /\ Channel(c) = Span(OutOffset(c.src, c.out), calls[v] * PerCall(v, c.src))
      /\ \A k : Reads(v, c, k) =
           Span(OutOffset(c.src, c.out) + k * PerCall(v, c.src), PerCall(v, c.src))
  BY Reading
<1>2. calls[v] \in Nat /\ PerCall(v, c.src) \in Nat \ {0} /\ OutOffset(c.src, c.out) \in Nat
  BY <1>1, Ratios, Slicing, Owned
<1>3. PICK n \in Nat, d \in Nat \ {0}, b \in Nat :
        n = calls[v] /\ d = PerCall(v, c.src) /\ b = OutOffset(c.src, c.out)
  BY <1>2
<1>4. /\ \A s \in Span(b, n * d) : \E k \in 0..n-1 : s \in Span(b + k * d, d)
      /\ \A k \in 0..n-1 : Span(b + k * d, d) \subseteq Span(b, n * d)
      /\ \A k, l \in Nat : \A s \in Span(b + k * d, d) : s \in Span(b + l * d, d) => k = l
  <2>1. Parts(b, n, d)  BY Cut
  <2>2. QED  BY <2>1 DEF Parts
<1>5. Channel(c) = Span(b, n * d) /\ \A k : Reads(v, c, k) = Span(b + k * d, d)
  BY <1>1, <1>3
<1>6. \A k \in 0..n-1 : k \in Nat  OBVIOUS
<1>7. QED  BY <1>3, <1>4, <1>5, <1>6

LEMMA ReadOnce == ASSUME Finished, Octaves, NoTinyDoubling PROVE InputsAreReadOnce
<1> SUFFICES ASSUME NEW v \in Nodes, NEW c \in Connections(v), NEW s \in Channel(c)
             PROVE  Cardinality({k \in 0..(calls[v] - 1) : s \in Reads(v, c, k)}) = 1
  BY DEF InputsAreReadOnce
<1> DEFINE S == {k \in 0..(calls[v] - 1) : s \in Reads(v, c, k)}
<1>1. PICK k \in 0..(calls[v] - 1) : s \in Reads(v, c, k)  BY Pieces
<1>2. \A l \in S : l = k  BY <1>1, Pieces
<1>3. S = {k}  BY <1>1, <1>2
<1>4. QED  BY <1>3, FS_Singleton

\* A call writes its own samples and no others.
LEMMA Writing ==
  ASSUME NEW v, Process(v)
  PROVE  /\ DOMAIN buffer_pool' = DOMAIN buffer_pool
         /\ \A s \in DOMAIN buffer_pool :
              IF s \in Writes(v, call) THEN buffer_pool'[s].node = v /\ buffer_pool'[s].cycle = cycle
                                       ELSE buffer_pool'[s] = buffer_pool[s]
<1>1. CASE Known(v)  BY <1>1 DEF Process, Written
<1>2. CASE ~Known(v)  BY <1>2 DEF Process, Written
<1>3. QED  BY <1>1, <1>2

\* Call after call, a channel is filled from its beginning.
LEMMA Filling ==
  ASSUME Finished, Octaves, NoTinyDoubling, NEW v \in Nodes, NEW k \in 0..(calls[v] - 1)
  PROVE  /\ Writes(v, k) \subseteq Own(v)
         /\ \A ch \in 0..(Node(v).outs - 1) :
              /\ Span(OutOffset(v, ch), 0 * node_block[v]) = {}
              /\ Span(OutOffset(v, ch), (k + 1) * node_block[v])
                   \subseteq Span(OutOffset(v, ch), k * node_block[v]) \cup Writes(v, k)
         /\ k + 1 = calls[v] =>
              \A s \in Own(v) : \E ch \in 0..(Node(v).outs - 1) :
                s \in Span(OutOffset(v, ch), (k + 1) * node_block[v])
<1>1. /\ calls[v] \in Nat \ {0} /\ node_block[v] \in Nat \ {0}
      /\ calls[v] * node_block[v] = out_stride(v) /\ Produced(v) = node_block[v]
  BY Ratios, ProducesABlock
<1>2. PICK n \in Nat, d \in Nat \ {0} : n = calls[v] /\ d = node_block[v]  BY <1>1
<1>3. /\ \A ch \in 0..(Node(v).outs - 1) :
           OutOffset(v, ch) \in Nat /\ Span(OutOffset(v, ch), n * d) \subseteq Own(v)
      /\ \A s \in Own(v) : \E ch \in 0..(Node(v).outs - 1) : s \in Span(OutOffset(v, ch), n * d)
  BY <1>1, <1>2, Owned
<1>4. Writes(v, k) = UNION {Span(OutOffset(v, ch) + k * d, d) : ch \in 0..(Node(v).outs - 1)}
  BY <1>1, <1>2 DEF Writes
<1>5. k \in Nat /\ k \in 0..n-1 /\ k * d \in Nat  BY <1>2
<1>6. ASSUME NEW ch \in 0..(Node(v).outs - 1)
      PROVE  /\ Span(OutOffset(v, ch) + k * d, d) \subseteq Own(v)
             /\ Span(OutOffset(v, ch), 0 * d) = {}
             /\ Span(OutOffset(v, ch), (k + 1) * d)
                  \subseteq Span(OutOffset(v, ch), k * d) \cup Writes(v, k)
  <2>1. PICK b \in Nat : b = OutOffset(v, ch)  BY <1>3
  <2>2. Parts(b, n, d)  BY Cut
  <2>3. Span(b + k * d, d) \subseteq Span(b, n * d)  BY <2>2, <1>5 DEF Parts
  <2>4. Span(b, 0 * d) = {}  BY DEF Span
  <2>5. Span(b, (k + 1) * d) \subseteq Span(b, k * d) \cup Span(b + k * d, d)
    <3>1. PICK x \in Nat : x = k * d  BY <1>5
    <3>2. (k + 1) * d = x + d  BY <3>1, <1>5
    <3>3. Span(b, x + d) \subseteq Span(b, x) \cup Span(b + x, d)  BY DEF Span
    <3>4. QED  BY <3>1, <3>2, <3>3
  <2>6. Span(b + k * d, d) \subseteq Writes(v, k)  BY <2>1, <1>4
  <2>7. QED  BY <2>1, <2>3, <2>4, <2>5, <2>6, <1>3
<1>7. Writes(v, k) \subseteq Own(v)  BY <1>4, <1>6
<1>8. QED  BY <1>2, <1>3, <1>6, <1>7

LEMMA KeepPlaying ==
  ASSUME Playing, UNCHANGED <<vars, built, cycle, pos, call, buffer_pool>> PROVE Playing'
<1>1. /\ bp' = bp /\ B' = B /\ topo_order' = topo_order /\ region_rate' = region_rate
      /\ node_block' = node_block /\ calls' = calls /\ off' = off /\ pass' = pass
      /\ out_base_sample' = out_base_sample
  BY DEF vars
<1>2. /\ \A v : Own(v)' = Own(v) /\ Node(v)' = Node(v)
      /\ \A v, ch : OutOffset(v, ch)' = OutOffset(v, ch)
      /\ \A s, v : Wrote(s, v)' = Wrote(s, v)
      /\ Running' = Running /\ Current' = Current
  BY <1>1 DEF Own, Node, OutOffset, out_stride, Wrote, Running, Current
<1>3. /\ \A n : Own(topo_order[n])' = Own(topo_order[n])
      /\ \A n, s : Wrote(s, topo_order[n])' = Wrote(s, topo_order[n])
      /\ \A ch : OutOffset(Current, ch)' = OutOffset(Current, ch)
      /\ \A s : Wrote(s, Current)' = Wrote(s, Current)
      /\ Node(Current)' = Node(Current)
  BY <1>1 DEF Own, Node, OutOffset, out_stride, Wrote, Current
<1>4. QED  BY <1>1, <1>2, <1>3 DEF Playing, Looping

\* One call of one node.
LEMMA CallPlaying ==
  ASSUME CompileInv, Octaves, NoTinyDoubling, Playing, Call PROVE Playing'
<1>1. /\ built /\ pos \in 1..Len(topo_order) /\ pass = "ok" /\ DOMAIN buffer_pool = 0..(off.out - 1)
      /\ UNCHANGED <<vars, built, setup_rate, cycle>>
      /\ Process(Current) /\ Finished
  BY DEF Call, Running, Playing, Looping, Finished
<1>2. /\ bp' = bp /\ B' = B /\ topo_order' = topo_order /\ region_rate' = region_rate
      /\ node_block' = node_block /\ calls' = calls /\ off' = off /\ pass' = pass
      /\ out_base_sample' = out_base_sample /\ cycle' = cycle /\ built' = built
  BY <1>1 DEF vars
<1>3. /\ Len(topo_order) \in Nat /\ DOMAIN topo_order = 1..Len(topo_order)
      /\ \A n \in 1..Len(topo_order) : topo_order[n] \in Nodes
  BY Facts, ElementOfSeq DEF CompileInv
<1>4. PICK v \in Nodes : v = Current  BY <1>1, <1>3 DEF Current
<1>5. call \in 0..(calls[v] - 1) /\ calls[v] \in Nat \ {0} /\ node_block[v] \in Nat \ {0}
  BY <1>1, <1>4, Ratios DEF Playing, Looping, Running
<1>6. /\ Writes(v, call) \subseteq Own(v)
      /\ \A ch \in 0..(Node(v).outs - 1) :
           Span(OutOffset(v, ch), (call + 1) * node_block[v])
             \subseteq Span(OutOffset(v, ch), call * node_block[v]) \cup Writes(v, call)
      /\ call + 1 = calls[v] =>
           \A s \in Own(v) : \E ch \in 0..(Node(v).outs - 1) :
             s \in Span(OutOffset(v, ch), (call + 1) * node_block[v])
  BY <1>1, <1>5, Filling
<1>7. \A w \in Nodes : Own(w) \subseteq DOMAIN buffer_pool /\ (v # w => Own(v) \cap Own(w) = {})
  BY <1>1, Owned
<1>8. /\ DOMAIN buffer_pool' = DOMAIN buffer_pool
      /\ \A s \in DOMAIN buffer_pool :
           IF s \in Writes(v, call) THEN buffer_pool'[s].node = v /\ buffer_pool'[s].cycle = cycle
                                    ELSE buffer_pool'[s] = buffer_pool[s]
  BY <1>1, <1>4, Writing
<1> DEFINE W(s, w) == buffer_pool'[s].node = w /\ buffer_pool'[s].cycle = cycle
\* The nodes before keep what they wrote.
<1>9. ASSUME NEW n \in 1..pos - 1, NEW s \in Own(topo_order[n]) PROVE W(s, topo_order[n])
  <2>1. topo_order[n] \in Nodes /\ n # pos /\ n \in DOMAIN topo_order /\ pos \in DOMAIN topo_order
    BY <1>1, <1>3
  <2>2. topo_order[n] # v  BY <2>1, <1>4 DEF CompileInv, Sorting, Current
  <2>3. s \notin Writes(v, call) /\ s \in DOMAIN buffer_pool  BY <2>1, <2>2, <1>6, <1>7
  <2>4. Wrote(s, topo_order[n])  BY <1>1 DEF Playing, Looping
  <2>5. QED  BY <2>3, <2>4, <1>8 DEF Wrote
\* The node's own blocks so far, this one included.
<1>10. ASSUME NEW ch \in 0..(Node(v).outs - 1),
              NEW s \in Span(OutOffset(v, ch), (call + 1) * node_block[v]), s \in DOMAIN buffer_pool
       PROVE  W(s, v)
  <2>1. CASE s \in Writes(v, call)  BY <2>1, <1>8, <1>10
  <2>2. CASE s \notin Writes(v, call)
    <3>1. s \in Span(OutOffset(v, ch), call * node_block[v])  BY <2>2, <1>6
    <3>2. Running  BY <1>1 DEF Running
    <3>3. Wrote(s, v)  BY <3>1, <3>2, <1>4 DEF Playing, Looping
    <3>4. QED  BY <2>2, <3>3, <1>8, <1>10 DEF Wrote
  <2>3. QED  BY <2>1, <2>2
<1>11. \A ch \in 0..(Node(v).outs - 1) : Span(OutOffset(v, ch), out_stride(v)) \subseteq DOMAIN buffer_pool
  BY <1>1, <1>7, Owned
<1>12. /\ \A w : Own(w)' = Own(w) /\ Node(w)' = Node(w)
       /\ \A w, ch : OutOffset(w, ch)' = OutOffset(w, ch)
       /\ \A s, w : Wrote(s, w)' <=> W(s, w)
  BY <1>2 DEF Own, Node, OutOffset, out_stride, Wrote
<1>13. /\ \A n : Own(topo_order[n])' = Own(topo_order[n])
       /\ \A n, s : Wrote(s, topo_order[n])' <=> W(s, topo_order[n])
  BY <1>2 DEF Own, Node, out_stride, Wrote
<1>0. built' /\ pass' = "ok" /\ DOMAIN buffer_pool' = 0..(off'.out - 1)  BY <1>1, <1>2, <1>8
<1> HIDE DEF W
<1>14. CASE call + 1 < calls[v]
  <2>1. call' = call + 1 /\ pos' = pos  BY <1>4, <1>14 DEF Call
  <2>2. Current' = v /\ Running'  BY <2>1, <1>1, <1>2, <1>4 DEF Current, Running
  <2>3. call' \in 0..(calls'[v] - 1)  BY <2>1, <1>2, <1>5, <1>14
  <2>4. ASSUME NEW ch \in 0..(Node(v).outs - 1),
               NEW s \in Span(OutOffset(v, ch), (call + 1) * node_block[v])
        PROVE  W(s, v)
    <3>1. s \in Own(v)
      <4>1. s \in Span(OutOffset(v, ch), call * node_block[v]) \cup Writes(v, call)  BY <1>6
      <4>2. Span(OutOffset(v, ch), call * node_block[v]) \subseteq Span(OutOffset(v, ch), out_stride(v))
        <5>1. calls[v] * node_block[v] = out_stride(v)  BY <1>1, Ratios
        <5>2. PICK k \in Nat, j \in Nat, d \in Nat \ {0} :
                k = call /\ d = node_block[v] /\ calls[v] = k + j
          <6>1. calls[v] - call \in Nat /\ calls[v] = call + (calls[v] - call)  BY <1>5
          <6>2. QED  BY <6>1, <1>5
        <5>3. (k + j) * d = k * d + j * d /\ k * d \in Nat /\ j * d \in Nat  OBVIOUS
        <5>4. OutOffset(v, ch) \in Nat  BY <1>1, Owned
        <5>5. k * d <= out_stride(v) /\ out_stride(v) \in Nat  BY <5>1, <5>2, <5>3
        <5>6. QED  BY <5>2, <5>3, <5>4, <5>5 DEF Span
      <4>3. Span(OutOffset(v, ch), out_stride(v)) \subseteq Own(v)  BY <1>1, Owned
      <4>4. QED  BY <4>1, <4>2, <4>3, <1>6
    <3>2. s \in DOMAIN buffer_pool  BY <3>1, <1>7
    <3>3. QED  BY <3>2, <1>10
  <2>5. (Running =>
           /\ call \in 0..(calls[Current] - 1)
           /\ \A ch \in 0..(Node(Current).outs - 1) :
                \A s \in Span(OutOffset(Current, ch), call * node_block[Current]) : Wrote(s, Current))'
    <3>1. Node(Current)' = Node(v) /\ \A ch : OutOffset(Current, ch)' = OutOffset(v, ch)
      BY <2>2, <1>2 DEF Node, OutOffset, out_stride
    <3>2. \A s : Wrote(s, Current)' <=> W(s, v)  BY <2>2, <1>2 DEF Wrote, W
    <3>3. QED  BY <2>1, <2>2, <2>3, <2>4, <3>1, <3>2, <1>2
  <2>6. (\A n \in 1..pos - 1 : \A s \in Own(topo_order[n]) : Wrote(s, topo_order[n]))'
    BY <2>1, <1>9, <1>13
  <2>7. pos' \in 0..(Len(topo_order') + 1)  BY <2>1, <1>1, <1>2, <1>3
  <2>8. QED  BY <2>5, <2>6, <2>7, <1>0 DEF Playing, Looping
<1>15. CASE ~(call + 1 < calls[v])
  <2>1. call' = 0 /\ pos' = pos + 1 /\ call + 1 = calls[v]  BY <1>4, <1>5, <1>15 DEF Call
  <2>2. ASSUME NEW s \in Own(v) PROVE W(s, v)
    <3>1. PICK ch \in 0..(Node(v).outs - 1) : s \in Span(OutOffset(v, ch), (call + 1) * node_block[v])
      BY <2>1, <1>6
    <3>2. s \in DOMAIN buffer_pool  BY <1>7
    <3>3. QED  BY <3>1, <3>2, <1>10
  <2>3. ASSUME NEW n \in 1..pos' - 1, NEW s \in Own(topo_order[n]) PROVE W(s, topo_order[n])
    <3>1. n \in 1..pos - 1 \/ n = pos  BY <2>1, <1>1
    <3>2. CASE n = pos  BY <3>2, <2>2, <1>4 DEF Current
    <3>3. QED  BY <3>1, <3>2, <1>9
  <2>4. (Running =>
           /\ call \in 0..(calls[Current] - 1)
           /\ \A ch \in 0..(Node(Current).outs - 1) :
                \A s \in Span(OutOffset(Current, ch), call * node_block[Current]) : Wrote(s, Current))'
    <3> SUFFICES ASSUME Running'
                 PROVE  /\ call' \in 0..(calls'[Current'] - 1)
                        /\ \A ch \in 0..(Node(Current)'.outs - 1) :
                             Span(OutOffset(Current, ch)', call' * node_block'[Current']) = {}
      OBVIOUS
    <3>1. pos' \in 1..Len(topo_order) /\ Current' = topo_order[pos']  BY <1>2 DEF Running, Current
    <3>2. PICK w \in Nodes : w = Current'  BY <3>1, <1>3
    <3>3. calls[w] \in Nat \ {0} /\ 0 \in 0..(calls[w] - 1)
      <4>1. calls[w] \in Nat \ {0}  BY <1>1, Ratios
      <4>2. QED  BY <4>1
    <3>4. /\ Node(Current)' = Node(w) /\ \A ch : OutOffset(Current, ch)' = OutOffset(w, ch)
      BY <3>2, <1>2 DEF Node, OutOffset, out_stride
    <3>5. \A ch \in 0..(Node(w).outs - 1) : Span(OutOffset(w, ch), 0 * node_block[w]) = {}
      BY <1>1, <3>3, Filling
    <3>6. QED  BY <2>1, <3>2, <3>3, <3>4, <3>5, <1>2
  <2>5. pos' \in 0..(Len(topo_order') + 1)  BY <2>1, <1>1, <1>2, <1>3
  <2>6. (\A n \in 1..pos - 1 : \A s \in Own(topo_order[n]) : Wrote(s, topo_order[n]))'
    BY <2>3, <1>13
  <2>7. QED  BY <2>4, <2>5, <2>6, <1>0 DEF Playing, Looping
<1>16. QED  BY <1>14, <1>15

LEMMA PlayingStep ==
  ASSUME CompileInv, Octaves, NoTinyDoubling, Playing, [InstanceNext]_instanceVars PROVE Playing'
<1>1. CASE Registering \/ Compiling
  <2>1. UNCHANGED <<built, pos>>  BY <1>1 DEF Registering, Compiling, runVars
  <2>2. ~built
    <3>1. CASE Registering  BY <3>1 DEF Registering
    <3>2. CASE Compiling
      <4>1. pass # "ok"
        BY <3>2 DEF Compiling, Next, Sort, Sorted, Propagate, Mismatch, Propagated, Place, Placed
      <4>2. QED  BY <4>1 DEF Playing, Looping
    <3>3. QED  BY <1>1, <3>1, <3>2
  <2>3. QED  BY <2>1, <2>2 DEF Playing, Looping, Running
<1>2. CASE Build
  <2>1. /\ pass = "ok" /\ ~built /\ built' /\ UNCHANGED <<vars, cycle, pos, call>>
        /\ buffer_pool' = [s \in 0..(off.out - 1) |-> Never]
    BY <1>2 DEF Build
  <2>2. pos' = 0 /\ pass' = "ok" /\ off' = off /\ topo_order' = topo_order
    BY <2>1 DEF Playing, Looping, vars
  <2>3. Len(topo_order) \in Nat  BY Facts DEF CompileInv
  <2>4. 1..pos' - 1 = {} /\ ~Running' /\ pos' \in 0..(Len(topo_order') + 1)
    BY <2>2, <2>3 DEF Running
  <2>5. QED  BY <2>1, <2>2, <2>4 DEF Playing, Looping
<1>3. CASE Tune
  <2>1. UNCHANGED <<vars, built, cycle, pos, call, buffer_pool>>
    BY <1>3 DEF Tune, InitParameter, SetParameter, Tuned, audioVars
  <2>2. QED  BY <2>1, KeepPlaying
<1>4. CASE StartCycle
  <2>1. /\ built /\ built' /\ pos' = 1 /\ call' = 0 /\ UNCHANGED <<vars, buffer_pool>>
    BY <1>4 DEF StartCycle, audioVars
  <2>2. /\ pass' = "ok" /\ off' = off /\ topo_order' = topo_order /\ pass = "ok"
        /\ DOMAIN buffer_pool' = 0..(off'.out - 1)
    BY <2>1 DEF Playing, Looping, vars
  <2>3. Len(topo_order) \in Nat /\ Finished  BY <2>2, Facts DEF CompileInv, Finished
  <2>4. 1..pos' - 1 = {} /\ pos' \in 0..(Len(topo_order') + 1)  BY <2>1, <2>2, <2>3
  <2>5. (Running =>
           /\ call \in 0..(calls[Current] - 1)
           /\ \A ch \in 0..(Node(Current).outs - 1) :
                \A s \in Span(OutOffset(Current, ch), call * node_block[Current]) : Wrote(s, Current))'
    <3> SUFFICES ASSUME Running'
                 PROVE  /\ call' \in 0..(calls'[Current'] - 1)
                        /\ \A ch \in 0..(Node(Current)'.outs - 1) :
                             Span(OutOffset(Current, ch)', call' * node_block'[Current']) = {}
      OBVIOUS
    <3>1. pos' \in 1..Len(topo_order) /\ Current' = topo_order[pos']
      BY <2>2 DEF Running, Current
    <3>2. PICK w \in Nodes : w = Current'  BY <3>1, Facts, ElementOfSeq DEF CompileInv
    <3>3. calls[w] \in Nat \ {0} /\ 0 \in 0..(calls[w] - 1)
      <4>1. calls[w] \in Nat \ {0}  BY <2>3, Ratios
      <4>2. QED  BY <4>1
    <3>4. /\ Node(Current)' = Node(w) /\ \A ch : OutOffset(Current, ch)' = OutOffset(w, ch)
          /\ calls' = calls /\ node_block' = node_block
      BY <3>2, <2>1 DEF Node, OutOffset, out_stride, vars
    <3>5. \A ch \in 0..(Node(w).outs - 1) : Span(OutOffset(w, ch), 0 * node_block[w]) = {}
      BY <2>3, <3>3, Filling
    <3>6. QED  BY <2>1, <3>2, <3>3, <3>4, <3>5
  <2>6. QED  BY <2>1, <2>2, <2>4, <2>5 DEF Playing, Looping
<1>5. CASE Call  BY <1>5, CallPlaying
<1>6. CASE EndCycle
  <2>1. /\ built /\ built' /\ pos' = 0 /\ UNCHANGED <<vars, buffer_pool>>
    BY <1>6 DEF EndCycle, audioVars
  <2>2. /\ pass' = "ok" /\ off' = off /\ topo_order' = topo_order
        /\ DOMAIN buffer_pool' = 0..(off'.out - 1)
    BY <2>1 DEF Playing, Looping, vars
  <2>3. Len(topo_order) \in Nat  BY Facts DEF CompileInv
  <2>4. 1..pos' - 1 = {} /\ pos' \in 0..(Len(topo_order') + 1) /\ ~Running'
    BY <2>1, <2>2, <2>3 DEF Running
  <2>5. QED  BY <2>1, <2>2, <2>4 DEF Playing, Looping
<1>7. CASE UNCHANGED instanceVars
  <2>1. UNCHANGED <<vars, built, cycle, pos, call, buffer_pool>>
    BY <1>7 DEF instanceVars, runVars, audioVars
  <2>2. QED  BY <2>1, KeepPlaying
<1>8. QED
  BY <1>1, <1>2, <1>3, <1>4, <1>5, <1>6, <1>7 DEF InstanceNext, VoiceNext

\* What a voice has written so far is this cycle's and its node's, whatever was compiled.
THEOREM PlayingInvariance ==
  ASSUME Octaves PROVE InstanceSpec /\ []NoTinyDoubling => []Playing
<1>1. InstanceInit => Playing  BY DEF InstanceInit, Playing, Looping, Running
<1>2. CompileInv /\ NoTinyDoubling /\ Playing /\ [InstanceNext]_instanceVars => Playing'
  BY PlayingStep
<1>3. InstanceSpec => []CompileInv  BY CompileInvariance
<1>4. QED  BY <1>1, <1>2, <1>3, PTL DEF InstanceSpec

\* instance.hpp's slicing of views: the calls of a node take each sample of each input
\* once.  An up2 called for single samples is the exception the code has.
THEOREM EachSampleOnce ==
  ASSUME Octaves PROVE InstanceSpec /\ []NoTinyDoubling => []InputsAreReadOnce
<1>1. CompileInv /\ NoTinyDoubling /\ Playing => InputsAreReadOnce
  <2> SUFFICES ASSUME CompileInv, NoTinyDoubling, Playing PROVE InputsAreReadOnce  OBVIOUS
  <2>1. CASE built
    <3>1. Finished  BY <2>1 DEF Playing, Looping, Finished
    <3>2. QED  BY <3>1, ReadOnce
  <2>2. CASE ~built  BY <2>2 DEF InputsAreReadOnce
  <2>3. QED  BY <2>1, <2>2
<1>2. QED  BY <1>1, PlayingInvariance, CompileInvariance, PTL

LEMMA Complete == ASSUME CompileInv, Playing PROVE OutputsAreComplete
<1> SUFFICES ASSUME built, pos > Len(topo_order), NEW v \in Nodes, NEW s \in Own(v)
             PROVE  Wrote(s, v)
  BY DEF OutputsAreComplete, Own
<1>1. pass = "ok" /\ pos \in 0..(Len(topo_order) + 1) /\ Len(topo_order) \in Nat
      /\ DOMAIN topo_order = 1..Len(topo_order)
  BY Facts DEF Playing, Looping, CompileInv
<1>2. Done = Nodes  BY <1>1 DEF CompileInv, Sorting
<1>3. PICK n \in DOMAIN topo_order : topo_order[n] = v  BY <1>2 DEF Done
<1>4. n \in 1..pos - 1  BY <1>1, <1>3
<1>5. QED  BY <1>3, <1>4 DEF Playing, Looping

\* graph_instance::process: when a cycle ends no stale audio is left in any output.
THEOREM NothingStale ==
  ASSUME Octaves PROVE InstanceSpec /\ []NoTinyDoubling => []OutputsAreComplete
<1>1. CompileInv /\ Playing => OutputsAreComplete  BY Complete
<1>2. QED  BY <1>1, PlayingInvariance, CompileInvariance, PTL

-----------------------------------------------------------------------------
(* Reads.                                                                   *)

LEMMA Greater ==
  ASSUME NEW S \in SUBSET Nat, IsFiniteSet(S), NEW y \in S
  PROVE  Max(S) \in S /\ y <= Max(S)
<1>1. \E x \in S : \A z \in S : z <= x  BY Greatest
<1>2. Max(S) = CHOOSE x \in S : \A z \in S : x >= z  BY DEF Max
<1>3. \E x \in S : \A z \in S : x >= z  BY <1>1
<1>4. Max(S) \in S /\ \A z \in S : Max(S) >= z  BY <1>2, <1>3
<1>5. QED  BY <1>4

\* The silent buffer is long enough for what no input of a node is connected to.
LEMMA SilenceIsLong ==
  ASSUME Finished, Octaves, NoTinyDoubling, NEW v \in Nodes
  PROVE  SilentIn(v) <= SilentSize /\ node_block[v] <= SilentSize
<1>1. /\ Node(v).rnum \in {1, 2} /\ Node(v).rden \in {1, 2}
      /\ calls[v] \in Nat \ {0} /\ node_block[v] \in Nat \ {0}
      /\ calls[v] * node_block[v] = out_stride(v)
      /\ Node(v).rnum = 2 /\ Node(v).rden = 1 => \E h \in Nat \ {0} : node_block[v] = 2 * h
      /\ Sources(v) = {} => region_rate[v] * Node(v).rden = Node(v).rnum
  BY Ratios
<1> DEFINE strides == {out_stride(w) : w \in Nodes}
<1>2. strides \in SUBSET Nat /\ IsFiniteSet(strides)
  <2>1. \A w \in Nodes : out_stride(w) \in Nat  BY Facts DEF Finished, CompileInv
  <2>2. IsFiniteSet(Nodes)
    <3>1. Nodes = 1..Len(bp.nodes) /\ Len(bp.nodes) \in Nat  BY Facts DEF Finished, CompileInv
    <3>2. QED  BY <3>1, FS_Interval
  <2> DEFINE f == [w \in Nodes |-> out_stride(w)]
  <2>3. f \in Surjection(Nodes, strides)
    <3>1. f \in [Nodes -> strides] /\ \A x \in strides : \E w \in Nodes : f[w] = x  OBVIOUS
    <3> HIDE DEF f, strides
    <3>2. QED  BY <3>1 DEF Surjection
  <2>4. IsFiniteSet(strides)
    <3> HIDE DEF f, strides
    <3>1. QED  BY <2>2, <2>3, FS_Surjection
  <2>5. QED  BY <2>1, <2>4
<1>3. ASSUME NEW w \in Nodes PROVE out_stride(w) <= SilentSize /\ SilentSize \in Nat /\ out_stride(w) \in Nat
  <2>1. out_stride(w) \in strides /\ strides # {}  OBVIOUS
  <2>2. MaxStride = Max(strides)  BY <2>1 DEF MaxStride
  <2> HIDE DEF strides
  <2>3. out_stride(w) <= MaxStride /\ MaxStride \in Nat /\ out_stride(w) \in Nat
    BY <1>2, <2>1, <2>2, Greater
  <2> DEFINE two == {MaxStride, 2 * B}
  <2>4. two \in SUBSET Nat /\ IsFiniteSet(two) /\ MaxStride \in two
    <3>1. B \in Nat  BY Facts DEF Finished, CompileInv
    <3>2. IsFiniteSet({MaxStride} \cup {2 * B})  BY FS_Singleton, FS_AddElement
    <3>3. two = {MaxStride} \cup {2 * B}  OBVIOUS
    <3>4. QED  BY <3>1, <3>2, <3>3, <2>3
  <2>5. SilentSize = Max(two)  BY DEF SilentSize
  <2> HIDE DEF two
  <2>6. MaxStride <= SilentSize /\ SilentSize \in Nat  BY <2>4, <2>5, Greater
  <2>7. QED  BY <2>3, <2>6
<1>4. node_block[v] <= out_stride(v)
  <2>1. \A k, d \in Nat \ {0} : d <= k * d
    <3> SUFFICES ASSUME NEW k \in Nat \ {0}, NEW d \in Nat \ {0} PROVE d <= k * d  OBVIOUS
    <3>1. PICK j \in Nat : k = j + 1
      <4>1. k - 1 \in Nat /\ k = (k - 1) + 1  OBVIOUS
      <4>2. QED  BY <4>1
    <3>2. k * d = j * d + d /\ j * d \in Nat  BY <3>1
    <3>3. QED  BY <3>2
  <2>2. QED  BY <2>1, <1>1
<1>5. node_block[v] <= SilentSize  BY <1>1, <1>3, <1>4
<1>6. CASE Node(v).rnum = Node(v).rden
  <2>1. PICK r \in Nat \ {0}, d \in Nat \ {0} : r = Node(v).rnum /\ r = Node(v).rden /\ d = node_block[v]
    BY <1>1, <1>6
  <2>2. (d * r) \div r = d  BY Quotient
  <2>3. QED  BY <2>1, <2>2, <1>5 DEF SilentIn
<1>7. CASE Node(v).rnum = 2 /\ Node(v).rden = 1
  <2>1. PICK h \in Nat \ {0} : node_block[v] = 2 * h  BY <1>1, <1>7
  <2>2. SilentIn(v) = (2 * h * 1) \div 2  BY <2>1, <1>7 DEF SilentIn
  <2>3. (h * 2) \div 2 = h /\ 2 * h * 1 = h * 2  BY Quotient
  <2>4. SilentIn(v) = h  BY <2>2, <2>3
  <2>5. QED  BY <2>1, <2>4, <1>3, <1>5
<1>8. CASE Node(v).rnum = 1 /\ Node(v).rden = 2
  <2>1. SilentIn(v) = 2 * node_block[v]
    <3>1. SilentIn(v) = (node_block[v] * 2) \div 1  BY <1>8 DEF SilentIn
    <3>2. QED  BY <3>1, <1>1
  <2>2. Sources(v) # {}
    <3>1. region_rate[v] * 2 # 1
      <4>1. region_rate[v] \in Nat  BY Facts DEF Finished, CompileInv
      <4>2. QED  BY <4>1
    <3>2. QED  BY <3>1, <1>1, <1>8
  <2>3. PICK u \in Sources(v) : TRUE  BY <2>2
  <2>4. /\ u \in Nodes /\ PerCall(v, u) = 2 * node_block[v] /\ PerCall(v, u) \in Nat \ {0}
        /\ calls[v] * PerCall(v, u) = out_stride(u)
    BY <2>3, <1>8, Slicing, Ratios
  <2>5. PerCall(v, u) <= calls[v] * PerCall(v, u)
    <3>1. PICK j \in Nat, k \in Nat \ {0}, d \in Nat \ {0} :
            k = j + 1 /\ k = calls[v] /\ d = PerCall(v, u)
      <4>1. calls[v] - 1 \in Nat /\ calls[v] = (calls[v] - 1) + 1  BY <1>1
      <4>2. QED  BY <4>1, <2>4, <1>1
    <3>2. k * d = j * d + d /\ j * d \in Nat  BY <3>1
    <3>3. QED  BY <3>1, <3>2
  <2>6. QED  BY <2>1, <2>4, <2>5, <1>3, <1>5
<1>9. QED  BY <1>1, <1>5, <1>6, <1>7, <1>8

LEMMA Fresh == ASSUME CompileInv, Octaves, NoTinyDoubling, Playing PROVE ReadsAreFresh
<1> SUFFICES ASSUME Running
             PROVE  /\ \A c \in Connections(Current) : \A s \in Reads(Current, c, call) :
                         s \in Channel(c) /\ Wrote(s, c.src)
                    /\ SilentIn(Current) <= SilentSize /\ node_block[Current] <= SilentSize
  BY DEF ReadsAreFresh
<1>1. /\ built /\ pos \in 1..Len(topo_order) /\ pass = "ok" /\ Finished
      /\ Len(topo_order) \in Nat /\ DOMAIN topo_order = 1..Len(topo_order)
  BY Facts DEF Running, Playing, Looping, Finished, CompileInv
<1>2. PICK v \in Nodes : v = Current
  BY <1>1, Facts, ElementOfSeq DEF CompileInv, Current
<1>3. call \in 0..(calls[v] - 1)  BY <1>2 DEF Playing, Looping
<1>4. ASSUME NEW c \in Connections(v), NEW s \in Reads(v, c, call)
      PROVE  s \in Channel(c) /\ Wrote(s, c.src)
  <2>1. s \in Channel(c)  BY <1>1, <1>3, Pieces
  <2>2. c.src \in Sources(v) /\ c.src \in Nodes /\ c.out \in 0..(Node(c.src).outs - 1)
    BY <1>1, Reading
  <2>3. s \in Own(c.src)  BY <2>1, <2>2, <1>1, Owned DEF Channel
  <2>4. PICK m \in 1..pos - 1 : topo_order[m] = c.src
    BY <2>2, <1>1, <1>2 DEF CompileInv, Sorting, Current
  <2>5. Wrote(s, topo_order[m])  BY <2>3, <2>4, <1>1 DEF Playing, Looping
  <2>6. QED  BY <2>1, <2>4, <2>5
<1>5. SilentIn(v) <= SilentSize /\ node_block[v] <= SilentSize  BY <1>1, SilenceIsLong
<1>6. QED  BY <1>2, <1>4, <1>5

\* What a call reads is this cycle's output of its sources and nothing else's, inside
\* the channel it is connected to; silence is read inside the silent buffer.
THEOREM CallsReadThisCycle ==
  ASSUME Octaves PROVE InstanceSpec /\ []NoTinyDoubling => []ReadsAreFresh
<1>1. CompileInv /\ NoTinyDoubling /\ Playing => ReadsAreFresh  BY Fresh
<1>2. QED  BY <1>1, PlayingInvariance, CompileInvariance, PTL

-----------------------------------------------------------------------------
(* Ports.                                                                   *)

\* In whole steps, a ramp arrives at the value asked for.
LEMMA Arrives ==
  ASSUME NEW c \in Int, NEW t \in Int, NEW d \in Nat \ {0}, (t - c) % d = 0
  PROVE  (t - c) \div d \in Int /\ c + ((t - c) \div d) * d = t
<1> DEFINE x == t - c
<1>1. x \in Int /\ x % d = 0 /\ t = c + x  OBVIOUS
<1> HIDE DEF x
<1>2. x \div d \in Int /\ x = d * (x \div d) + (x % d)  BY <1>1
<1>3. PICK q \in Int : q = x \div d  BY <1>2
<1>4. x = d * q /\ d * q = q * d  BY <1>1, <1>2, <1>3
<1>5. QED  BY <1>1, <1>3, <1>4 DEF x

LEMMA LoopingStep == ASSUME CompileInv, Looping, [InstanceNext]_instanceVars PROVE Looping'
<1>0. Len(topo_order) \in Nat  BY Facts DEF CompileInv
<1>1. CASE Registering  BY <1>1 DEF Registering, runVars, Looping
<1>2. CASE Compiling
  <2>1. pass # "ok"
    BY <1>2 DEF Compiling, Next, Sort, Sorted, Propagate, Mismatch, Propagated, Place, Placed
  <2>2. QED  BY <2>1, <1>2 DEF Compiling, runVars, Looping
<1>3. CASE ~(Registering \/ Compiling)
  <2>1. UNCHANGED <<pass, topo_order>>
    BY <1>3 DEF InstanceNext, VoiceNext, Build, Tune, InitParameter, SetParameter, Tuned, StartCycle,
                Call, EndCycle, vars, instanceVars
  <2>2. CASE Build  BY <2>1, <2>2, <1>0 DEF Build, Looping
  <2>3. CASE StartCycle  BY <2>1, <2>3, <1>0 DEF StartCycle, Looping
  <2>4. CASE Call
    <3>1. pos \in 1..Len(topo_order) /\ built /\ built' /\ pos' \in {pos, pos + 1}
      BY <2>4 DEF Call, Running
    <3>2. QED  BY <3>1, <2>1, <1>0 DEF Looping
  <2>5. CASE EndCycle  BY <2>1, <2>5, <1>0 DEF EndCycle, Looping
  <2>6. CASE Tune \/ UNCHANGED instanceVars
    <3>1. UNCHANGED <<built, pos>>
      BY <2>6 DEF Tune, InitParameter, SetParameter, Tuned, instanceVars, runVars
    <3>2. QED  BY <3>1, <2>1 DEF Looping
  <2>7. QED  BY <1>3, <2>2, <2>3, <2>4, <2>5, <2>6 DEF InstanceNext, VoiceNext
<1>4. QED  BY <1>1, <1>2, <1>3

\* What a call does to the ports of its node.
LEMMA Ramping ==
  ASSUME CompileInv, Gliding, StepsAreWhole, Call
  PROVE  /\ Current \in Nodes /\ node_block[Current] \in Nat \ {0}
         /\ \A v \in Nodes \ {Current} :
              param_views'[v] = param_views[v] /\ controls'[v] = controls[v]
         /\ DOMAIN controls' = Nodes /\ DOMAIN param_views' = Nodes
         /\ DOMAIN controls'[Current] = PortsOf(Current)
         /\ DOMAIN param_views'[Current] = PortsOf(Current)
         /\ \A p \in PortsOf(Current) : controls'[Current][p] \in [current : Int, target : Int]
         /\ \A p \in PortsOf(Current) : Controlled(Current, p) =>
              /\ param_views'[Current][p].base = controls[Current][p].current
              /\ RampEnd(Current, param_views'[Current][p]) = controls[Current][p].target
              /\ controls'[Current][p].current = controls[Current][p].target
<1>1. built /\ pos \in 1..Len(topo_order) /\ UpdateRamps(Current)  BY DEF Call, Running
<1>2. Current \in Nodes
  <2>1. DOMAIN topo_order = 1..Len(topo_order) /\ topo_order \in Seq(Nodes)
    BY Facts DEF CompileInv
  <2>2. QED  BY <2>1, <1>1, ElementOfSeq DEF Current
<1>3. PICK v \in Nodes : v = Current  BY <1>2
<1>4. node_block[v] \in Nat \ {0}  BY DEF CompileInv, Typed
<1>5. /\ DOMAIN controls = Nodes /\ DOMAIN param_views = Nodes
      /\ \A p \in PortsOf(v) : controls[v][p] \in [current : Int, target : Int]
  BY <1>1 DEF Gliding
<1>6. /\ param_views' = [param_views EXCEPT ![v] = [p \in PortsOf(v) |->
           IF Controlled(v, p) THEN Ramp(v, p) ELSE @[p]]]
      /\ controls' = [controls EXCEPT ![v] = [p \in PortsOf(v) |->
           IF Controlled(v, p) THEN [@[p] EXCEPT !.current = controls[v][p].target] ELSE @[p]]]
  BY <1>1, <1>3 DEF UpdateRamps
<1>7. \A w \in Nodes \ {v} : param_views'[w] = param_views[w] /\ controls'[w] = controls[w]
  BY <1>5, <1>6
<1>8. /\ DOMAIN controls' = Nodes /\ DOMAIN param_views' = Nodes
      /\ DOMAIN controls'[v] = PortsOf(v) /\ DOMAIN param_views'[v] = PortsOf(v)
  BY <1>5, <1>6
<1>9. ASSUME NEW p \in PortsOf(v)
      PROVE  /\ controls'[v][p] \in [current : Int, target : Int]
             /\ Controlled(v, p) => /\ param_views'[v][p] = Ramp(v, p)
                                    /\ controls'[v][p].current = controls[v][p].target
  <2>1. CASE Controlled(v, p)  BY <2>1, <1>5, <1>6
  <2>2. CASE ~Controlled(v, p)  BY <2>2, <1>5, <1>6
  <2>3. QED  BY <2>1, <2>2
<1>10. ASSUME NEW p \in PortsOf(v)
       PROVE  /\ Ramp(v, p).base = controls[v][p].current
              /\ RampEnd(v, Ramp(v, p)) = controls[v][p].target
  <2>1. /\ controls[v][p].current \in Int /\ controls[v][p].target \in Int
        /\ (controls[v][p].target - controls[v][p].current) % node_block[v] = 0
    BY <1>1, <1>5 DEF StepsAreWhole
  <2>2. QED  BY <2>1, <1>4, Arrives DEF Ramp, RampEnd
<1>11. QED  BY <1>3, <1>4, <1>7, <1>8, <1>9, <1>10

\* Until a node runs again, or a port of it is set, nothing about its ports changes.
LEMMA KeepGliding ==
  ASSUME Gliding, Looping', cycle' \in Nat, call' \in Nat, pos' > 0 => cycle' > 0,
         built, UNCHANGED <<vars, built, portVars>>,
         \A v \in Nodes : HasRun(v)' => HasRun(v)
  PROVE  Gliding'
<1>1. /\ bp' = bp /\ node_block' = node_block /\ topo_order' = topo_order
      /\ controls' = controls /\ param_views' = param_views
  BY DEF vars, portVars
<1>2. Nodes' = Nodes /\ \A v : PortsOf(v)' = PortsOf(v)  BY <1>1 DEF Nodes, PortsOf, Node
<1>3. \A v, p : Controlled(v, p)' = Controlled(v, p)  BY <1>1 DEF Controlled, Wire, Into
<1>4. \A v, p : RampEnd(v, param_views[v][p])' = RampEnd(v, param_views[v][p])
  BY <1>1 DEF RampEnd
<1>5. QED  BY <1>1, <1>2, <1>3, <1>4 DEF Gliding

LEMMA Before ==
  ASSUME NEW m \in Nat, NEW k \in Nat, m <= k + 1, NEW n \in 1..m - 1, n # k PROVE n \in 1..k - 1
OBVIOUS

LEMMA CallGliding == ASSUME CompileInv, Gliding, StepsAreWhole, Call, Looping' PROVE Gliding'
<1>1. /\ built /\ pos \in 1..Len(topo_order) /\ UNCHANGED <<vars, built, cycle>>
      /\ cycle \in Nat /\ cycle > 0 /\ call \in Nat
  BY DEF Call, Running, Gliding
<1>2. /\ bp' = bp /\ node_block' = node_block /\ topo_order' = topo_order /\ built'
  BY <1>1 DEF vars
<1>3. pos' \in {pos, pos + 1} /\ call' \in Nat /\ (pos' = pos + 1 => call' = 0)
      /\ pos' > 0 /\ cycle' > 0 /\ cycle' \in Nat /\ (pos' = pos => Current' = Current)
  BY <1>1, <1>2 DEF Call, Current
<1>4. Nodes' = Nodes /\ \A v : PortsOf(v)' = PortsOf(v)  BY <1>2 DEF Nodes, PortsOf, Node
<1>5. \A v, p : Controlled(v, p)' = Controlled(v, p)  BY <1>2 DEF Controlled, Wire, Into
<1>6. \A v, r : RampEnd(v, r)' = RampEnd(v, r')  BY <1>2 DEF RampEnd
<1>7. \A v \in Nodes \ {Current} : HasRun(v)' => HasRun(v)
  <2> SUFFICES ASSUME NEW v \in Nodes \ {Current}, HasRun(v)', ~(cycle > 1) PROVE HasRun(v)
    BY DEF HasRun
  <2>1. cycle' = 1 /\ cycle = 1 /\ pos' # 0  BY <1>1, <1>3
  <2>2. CASE \E n \in 1..pos' - 1 : topo_order[n] = v
    <3>1. PICK m \in Nat, k \in Nat : m = pos' /\ k = pos /\ m <= k + 1
      <4>1. Len(topo_order) \in Nat  BY Facts DEF CompileInv
      <4>2. QED  BY <4>1, <1>1, <1>3
    <3>2. PICK n \in 1..m - 1 : topo_order[n] = v  BY <2>2, <3>1
    <3>3. n # pos  BY <3>2 DEF Current
    <3>4. n \in 1..k - 1  BY <3>1, <3>3, Before
    <3>5. QED  BY <3>1, <3>2, <3>4, <2>1 DEF HasRun
  <2>3. CASE v = Current' /\ call' > 0
    <3>1. pos' = pos  BY <2>3, <1>3
    <3>2. QED  BY <3>1, <2>3, <1>3
  <2>4. QED  BY <2>1, <2>2, <2>3, <1>2 DEF HasRun
<1>8. ASSUME NEW v \in Nodes
      PROVE  /\ DOMAIN controls'[v] = PortsOf(v) /\ DOMAIN param_views'[v] = PortsOf(v)
             /\ \A p \in PortsOf(v) :
                  /\ controls'[v][p] \in [current : Int, target : Int]
                  /\ Controlled(v, p) /\ HasRun(v)' =>
                       RampEnd(v, param_views'[v][p]) = controls'[v][p].current
  <2>1. CASE v = Current  BY <2>1, Ramping
  <2>2. CASE v # Current
    <3>1. param_views'[v] = param_views[v] /\ controls'[v] = controls[v]  BY <2>2, Ramping
    <3>2. QED  BY <3>1, <2>2, <1>1, <1>7 DEF Gliding
  <2>3. QED  BY <2>1, <2>2
<1>9. DOMAIN controls' = Nodes /\ DOMAIN param_views' = Nodes  BY Ramping
<1>10. \A v, p : RampEnd(v, param_views[v][p])' = RampEnd(v, param_views'[v][p])
  BY <1>2 DEF RampEnd
<1>11. QED  BY <1>1, <1>2, <1>3, <1>4, <1>5, <1>8, <1>9, <1>10 DEF Gliding

LEMMA TuneGliding == ASSUME CompileInv, Gliding, Tune, Looping' PROVE Gliding'
<1>1. PICK v \in TunedNodes, x \in {MaxValue \div 2, 2 * MaxValue}, p \in 0..1 :
        InitParameter(v, p, x) \/ SetParameter(v, p, x)
  BY DEF Tune
<1>2. /\ built /\ pos = 0 /\ v \in Nodes /\ p \in PortsOf(v)
      /\ UNCHANGED <<vars, built, cycle, pos, call, param_views>>
  BY <1>1 DEF InitParameter, SetParameter, Tunable, Tuned
<1>3. /\ bp' = bp /\ node_block' = node_block /\ topo_order' = topo_order /\ built'
      /\ cycle' = cycle /\ pos' = pos /\ call' = call /\ param_views' = param_views
  BY <1>2 DEF vars
<1>4. PICK c : /\ controls' = [controls EXCEPT ![v][p] = c]
               /\ \/ c = [current |-> Clamp(x), target |-> Clamp(x)] /\ cycle = 0
                  \/ c = [controls[v][p] EXCEPT !.target = Clamp(x)]
  BY <1>1 DEF InitParameter, SetParameter, Tuned
<1>5. Clamp(x) \in Int
  <2>1. x \in Int  BY DEF MaxValue
  <2>2. QED  BY <2>1 DEF Clamp, MaxValue
<1>6. controls[v][p] \in [current : Int, target : Int]  BY <1>2 DEF Gliding
<1>7. c \in [current : Int, target : Int] /\ (cycle > 0 => c.current = controls[v][p].current)
  <2>1. CASE c = [current |-> Clamp(x), target |-> Clamp(x)] /\ cycle = 0  BY <2>1, <1>5
  <2>2. CASE c = [controls[v][p] EXCEPT !.target = Clamp(x)]  BY <2>2, <1>5, <1>6
  <2>3. QED  BY <2>1, <2>2, <1>4
<1>8. Nodes' = Nodes /\ \A w : PortsOf(w)' = PortsOf(w)  BY <1>3 DEF Nodes, PortsOf, Node
<1>9. \A w, q : Controlled(w, q)' = Controlled(w, q)  BY <1>3 DEF Controlled, Wire, Into
<1>10. \A w, q : RampEnd(w, param_views[w][q])' = RampEnd(w, param_views[w][q])
  BY <1>3 DEF RampEnd
<1>11. \A w : HasRun(w)' => HasRun(w) /\ cycle > 0
  <2>1. Running' <=> Running  BY <1>2, <1>3 DEF Running
  <2>2. Current' = Current  BY <1>3 DEF Current
  <2>3. QED  BY <2>1, <2>2, <1>3 DEF HasRun, Gliding
<1>12. ASSUME NEW w \in Nodes
       PROVE  /\ DOMAIN controls'[w] = PortsOf(w)
              /\ \A q \in PortsOf(w) :
                   /\ controls'[w][q] \in [current : Int, target : Int]
                   /\ cycle > 0 => controls'[w][q].current = controls[w][q].current
  <2>1. /\ DOMAIN controls = Nodes /\ DOMAIN controls[w] = PortsOf(w)
        /\ \A q \in PortsOf(w) : controls[w][q] \in [current : Int, target : Int]
    BY <1>2 DEF Gliding
  <2>2. CASE w # v  BY <2>1, <2>2, <1>4
  <2>3. CASE w = v
    <3>1. controls'[w] = [controls[w] EXCEPT ![p] = c]  BY <2>1, <2>3, <1>4
    <3>2. QED  BY <3>1, <2>1, <2>3, <1>7
  <2>4. QED  BY <2>2, <2>3
<1>13. DOMAIN controls' = Nodes /\ DOMAIN param_views' = Nodes  BY <1>2, <1>3, <1>4 DEF Gliding
<1>14. \A w \in Nodes : DOMAIN param_views'[w] = PortsOf(w)  BY <1>2, <1>3 DEF Gliding
<1>15. ASSUME NEW w \in Nodes, NEW q \in PortsOf(w), Controlled(w, q), HasRun(w)'
       PROVE  RampEnd(w, param_views[w][q]) = controls'[w][q].current
  BY <1>2, <1>11, <1>12, <1>15 DEF Gliding
<1>16. QED  BY <1>3, <1>8, <1>9, <1>10, <1>12, <1>13, <1>14, <1>15 DEF Gliding

LEMMA GlidingStep ==
  ASSUME CompileInv, Gliding, StepsAreWhole, [InstanceNext]_instanceVars PROVE Gliding'
<1>0. Looping'  BY LoopingStep DEF Gliding
<1>1. CASE Registering \/ Compiling
  <2>1. UNCHANGED <<built, pos, cycle, call>>  BY <1>1 DEF Registering, Compiling, runVars
  <2>2. ~built
    <3>1. CASE Registering  BY <3>1 DEF Registering
    <3>2. CASE Compiling
      <4>1. pass # "ok"
        BY <3>2 DEF Compiling, Next, Sort, Sorted, Propagate, Mismatch, Propagated, Place, Placed
      <4>2. QED  BY <4>1 DEF Gliding, Looping
    <3>3. QED  BY <1>1, <3>1, <3>2
  <2>3. QED  BY <1>0, <2>1, <2>2 DEF Gliding
<1>2. CASE Build
  <2>1. /\ bp' = bp /\ node_block' = node_block /\ topo_order' = topo_order
        /\ cycle' = cycle /\ pos' = pos /\ call' = call /\ ~built
        /\ controls' = [v \in Nodes |-> [p \in PortsOf(v) |->
                         [current |-> Node(v).preset, target |-> Node(v).preset]]]
        /\ param_views' = [v \in Nodes |-> [p \in PortsOf(v) |-> [base |-> Node(v).preset, inc |-> 0]]]
    BY <1>2 DEF Build, vars
  <2>2. Nodes' = Nodes /\ \A v : PortsOf(v)' = PortsOf(v)  BY <2>1 DEF Nodes, PortsOf, Node
  <2>3. \A v \in Nodes : Node(v).preset \in Int /\ node_block[v] \in Nat
    <3>1. \A v \in Nodes : Node(v) \in NodeType  BY Facts DEF CompileInv
    <3>2. QED  BY <3>1 DEF NodeType, CompileInv, Typed
  <2>4. ASSUME NEW v \in Nodes, NEW p \in PortsOf(v)
        PROVE  /\ controls'[v][p] \in [current : Int, target : Int]
               /\ RampEnd(v, param_views[v][p])' = controls'[v][p].current
    <3>1. /\ controls'[v][p] = [current |-> Node(v).preset, target |-> Node(v).preset]
          /\ param_views'[v][p] = [base |-> Node(v).preset, inc |-> 0]
      BY <2>1
    <3>2. Node(v).preset + 0 * node_block[v] = Node(v).preset  BY <2>3
    <3>3. QED  BY <3>1, <3>2, <2>1, <2>3 DEF RampEnd
  <2>5. \A v \in Nodes : DOMAIN controls'[v] = PortsOf(v) /\ DOMAIN param_views'[v] = PortsOf(v)
    BY <2>1
  <2>6. DOMAIN controls' = Nodes /\ DOMAIN param_views' = Nodes  BY <2>1
  <2>7. QED  BY <1>0, <2>1, <2>2, <2>4, <2>5, <2>6 DEF Gliding
<1>3. CASE Tune  BY <1>0, <1>3, TuneGliding
<1>4. CASE StartCycle
  <2>1. /\ built /\ pos = 0 /\ cycle' = cycle + 1 /\ pos' = 1 /\ call' = 0 /\ cycle \in Nat
        /\ UNCHANGED <<vars, built, portVars>>
    BY <1>4 DEF StartCycle, Gliding
  <2>2. \A v \in Nodes : HasRun(v)' => HasRun(v)
    <3> SUFFICES ASSUME NEW v \in Nodes, HasRun(v)' PROVE HasRun(v)  OBVIOUS
    <3>1. ~(\E n \in 1..pos' - 1 : topo_order'[n] = v)  BY <2>1
    <3>2. cycle' > 1  BY <3>1, <2>1 DEF HasRun
    <3>3. QED  BY <3>2, <2>1 DEF HasRun
  <2>3. cycle' \in Nat /\ call' \in Nat /\ (pos' > 0 => cycle' > 0)  BY <2>1
  <2>4. QED  BY <1>0, <2>1, <2>2, <2>3, KeepGliding
<1>5. CASE Call  BY <1>0, <1>5, CallGliding
<1>6. CASE EndCycle
  <2>1. /\ built /\ pos > Len(topo_order) /\ pos' = 0 /\ cycle' = cycle /\ call' = call
        /\ cycle \in Nat /\ call \in Nat /\ UNCHANGED <<vars, built, portVars>>
        /\ pass = "ok" /\ pos \in 0..(Len(topo_order) + 1)
    BY <1>6 DEF EndCycle, Gliding, Looping
  <2>2. /\ Done = Nodes /\ Len(topo_order) \in Nat /\ DOMAIN topo_order = 1..Len(topo_order)
    BY <2>1, Facts DEF CompileInv, Sorting
  <2>3. cycle > 0  BY <2>1, <2>2 DEF Gliding
  <2>4. ASSUME NEW v \in Nodes PROVE HasRun(v)
    <3>1. PICK n \in DOMAIN topo_order : topo_order[n] = v  BY <2>2 DEF Done
    <3>2. n \in 1..pos - 1  BY <3>1, <2>1, <2>2
    <3>3. cycle = 1 \/ cycle > 1  BY <2>1, <2>3
    <3>4. QED  BY <3>1, <3>2, <3>3 DEF HasRun
  <2>5. QED  BY <1>0, <2>1, <2>4, KeepGliding
<1>7. CASE UNCHANGED instanceVars
  <2>1. /\ UNCHANGED <<vars, built, portVars>> /\ cycle' = cycle /\ pos' = pos /\ call' = call
        /\ topo_order' = topo_order /\ built' = built
    BY <1>7 DEF instanceVars, runVars, vars
  <2>2. \A v \in Nodes : HasRun(v)' => HasRun(v)
    <3>1. Running' = Running /\ Current' = Current  BY <2>1 DEF Running, Current
    <3>2. QED  BY <2>1, <3>1 DEF HasRun
  <2>3. CASE built  BY <1>0, <2>1, <2>2, <2>3, KeepGliding DEF Gliding
  <2>4. CASE ~built  BY <1>0, <2>1, <2>4 DEF Gliding
  <2>5. QED  BY <2>3, <2>4
<1>8. QED
  BY <1>1, <1>2, <1>3, <1>4, <1>5, <1>6, <1>7 DEF InstanceNext, VoiceNext

LEMMA Glide ==
  ASSUME CompileInv, Gliding, StepsAreWhole, [InstanceNext]_instanceVars, Running,
         ~ UNCHANGED instanceVars
  PROVE  \A p \in {q \in PortsOf(Current) : Controlled(Current, q)} :
           /\ cycle + call > 1 =>
                param_views'[Current][p].base = RampEnd(Current, param_views[Current][p])
           /\ RampEnd(Current, param_views'[Current][p]) = controls[Current][p].target
<1>1. built /\ pos \in 1..Len(topo_order) /\ pass = "ok" /\ Len(topo_order) \in Nat
      /\ cycle \in Nat /\ cycle > 0 /\ call \in Nat
  BY Facts DEF Running, Gliding, Looping, CompileInv
<1>2. Call
  <2>1. ~Registering /\ ~Build /\ ~StartCycle /\ ~EndCycle /\ ~Tune
    <3>1. ~Registering /\ ~Build  BY <1>1 DEF Registering, Build
    <3>2. pos # 0 /\ ~(pos > Len(topo_order))  BY <1>1
    <3>3. ~StartCycle /\ ~EndCycle  BY <3>2 DEF StartCycle, EndCycle
    <3>4. ~Tune  BY <3>2 DEF Tune, InitParameter, SetParameter, Tunable
    <3>5. QED  BY <3>1, <3>3, <3>4
  <2>2. ~Compiling
    BY <1>1 DEF Compiling, Next, Sort, Sorted, Propagate, Mismatch, Propagated, Place, Placed
  <2>3. QED  BY <2>1, <2>2 DEF InstanceNext, VoiceNext
<1>3. Current \in Nodes  BY <1>2, Ramping
<1>4. cycle + call > 1 => HasRun(Current)
  <2>1. cycle + call > 1 => cycle > 1 \/ (cycle = 1 /\ call > 0)  BY <1>1
  <2>2. QED  BY <2>1 DEF HasRun
<1>5. \A p \in PortsOf(Current) : Controlled(Current, p) /\ HasRun(Current) =>
        RampEnd(Current, param_views[Current][p]) = controls[Current][p].current
  BY <1>1, <1>3 DEF Gliding
<1>6. QED  BY <1>2, <1>4, <1>5, Ramping

\* What a port had last is where its ramp begins, and the ramp ends at what was asked of it.
THEOREM GlidingInvariance == InstanceSpec /\ []StepsAreWhole => []Gliding
<1>1. InstanceInit => Gliding  BY DEF InstanceInit, Gliding, Looping
<1>2. CompileInv /\ StepsAreWhole /\ Gliding /\ [InstanceNext]_instanceVars => Gliding'
  BY GlidingStep
<1>3. InstanceSpec => []CompileInv  BY CompileInvariance
<1>4. QED  BY <1>1, <1>2, <1>3, PTL DEF InstanceSpec

\* control_port: no call hands a port a value that is not where the call before left it,
\* and each call brings it to the value asked for.  The model's ports are integers; the
\* code's are reals, which any step divides.
THEOREM PortsNeverJump == InstanceSpec /\ []StepsAreWhole => PortsGlide
<1> DEFINE Smooth ==
      Running => \A p \in {q \in PortsOf(Current) : Controlled(Current, q)} :
        LET Ends(ramp) == ramp.base + ramp.inc * node_block[Current] IN
        /\ cycle + call > 1 => param_views'[Current][p].base = Ends(param_views[Current][p])
        /\ Ends(param_views'[Current][p]) = controls[Current][p].target
<1>1. CompileInv /\ Gliding /\ StepsAreWhole /\ [InstanceNext]_instanceVars
        => [Smooth]_instanceVars
  BY Glide DEF RampEnd
<1>2. InstanceSpec => []CompileInv  BY CompileInvariance
<1>3. QED  BY <1>1, <1>2, GlidingInvariance, PTL DEF InstanceSpec, PortsGlide

-----------------------------------------------------------------------------
(* Which blueprints compile() accepts.                                      *)

\* What the plan of a node is made of.
LEMMA PlanKept ==
  ASSUME UNCHANGED <<bp, B, rateVars>>
  PROVE  \A v : Plan(v)' = Plan(v) /\ (Follows(v)' <=> Follows(v))
<1> SUFFICES ASSUME NEW v PROVE Plan(v)' = Plan(v) /\ (Follows(v)' <=> Follows(v))
  OBVIOUS
<1>1. /\ Sources(v)' = Sources(v) /\ Arriving(v)' = Arriving(v) /\ Node(v)' = Node(v)
      /\ Delta(v)' = Delta(v) /\ Block(blk_exp[v])' = Block(blk_exp[v]) /\ B' = B
      /\ region_rate' = region_rate /\ blk_exp' = blk_exp /\ node_block' = node_block
  BY RatesKept
<1>2. Base(v)' = Base(v)  BY <1>1 DEF Base
<1>3. \A e : Block(e)' = Block(e)  BY <1>1 DEF Block
<1>4. Candidates(v)' = Candidates(v)  BY <1>1, <1>2, <1>3 DEF Candidates
<1>5. Plan(v)' = Plan(v)  BY <1>1, <1>4 DEF Plan
<1>6. Follows(v)' <=> Follows(v)  BY <1>1 DEF Follows
<1>7. QED  BY <1>5, <1>6

\* Each node once: as many as there are.
LEMMA AllAreOnce == ASSUME CompileInv, Done = Nodes PROVE Len(topo_order) = Len(bp.nodes)
<1> DEFINE n == Len(topo_order)
           m == Len(bp.nodes)
           f == [k \in 1..n |-> topo_order[k]]
<1>1. /\ Nodes = 1..m /\ m \in Nat /\ DOMAIN topo_order = 1..n /\ n \in Nat /\ topo_order \in Seq(Nodes)
  BY Facts DEF CompileInv
<1>2. f \in Bijection(1..n, Nodes)
  <2>1. \A k \in 1..n : topo_order[k] \in Nodes  BY <1>1, ElementOfSeq
  <2>2. \A k, l \in 1..n : topo_order[k] = topo_order[l] => k = l  BY <1>1 DEF CompileInv, Sorting
  <2>3. \A v \in Nodes : \E k \in 1..n : topo_order[k] = v  BY <1>1 DEF Done
  <2>4. f \in [1..n -> Nodes] /\ \A k \in 1..n : f[k] = topo_order[k]  BY <2>1
  <2> HIDE DEF f, n, m
  <2>5. QED  BY <2>2, <2>3, <2>4 DEF Bijection, Injection, IsInjective, Surjection
<1>3. ExistsBijection(1..n, 1..m)  BY <1>1, <1>2 DEF ExistsBijection
<1>4. IsFiniteSet(1..n) /\ Cardinality(1..n) = n /\ IsFiniteSet(1..m) /\ Cardinality(1..m) = m
  <2> HIDE DEF n, m, f
  <2>1. IsFiniteSet(1..n) /\ Cardinality(1..n) = n
    <3>1. (IF 1 > n THEN 0 ELSE n - 1 + 1) = n  BY <1>1
    <3>2. QED  BY <3>1, <1>1, FS_Interval
  <2>2. IsFiniteSet(1..m) /\ Cardinality(1..m) = m
    <3>1. (IF 1 > m THEN 0 ELSE m - 1 + 1) = m  BY <1>1
    <3>2. QED  BY <3>1, <1>1, FS_Interval
  <2>3. QED  BY <2>1, <2>2
<1>5. Cardinality(1..n) = Cardinality(1..m)
  <2> HIDE DEF n, m
  <2>1. QED  BY <1>3, <1>4, FS_Bijection
<1>6. QED  BY <1>4, <1>5

\* A refusal is one of the sort or of the rates, and stays what it is.
LEMMA RefusalStep ==
  ASSUME CompileInv, Refusal, [InstanceNext]_instanceVars PROVE Refusal'
<1> SUFFICES ASSUME pass' = "failed" PROVE Refusal'  BY DEF Refusal
<1>1. UNCHANGED <<bp, B, sortVars, next, rateVars>> /\ (pass = "failed" \/ Sorted \/ Mismatch)
  <2>1. CASE Registering  BY <2>1 DEF Registering, Begin
  <2>2. CASE Compiling
    BY <2>2 DEF Compiling, Next, Sort, Sorted, Propagate, Mismatch, Propagated, Place, Placed
  <2>3. CASE VoiceNext
    <3>1. UNCHANGED vars
      BY <2>3 DEF VoiceNext, Build, Tune, InitParameter, SetParameter, Tuned, StartCycle, Call, EndCycle
    <3>2. QED  BY <3>1 DEF vars, sortVars, rateVars
  <2>4. CASE UNCHANGED instanceVars  BY <2>4 DEF instanceVars, vars, sortVars, rateVars
  <2>5. QED  BY <2>1, <2>2, <2>3, <2>4 DEF InstanceNext
<1>2. /\ topo_order' = topo_order /\ next' = next /\ Done' = Done /\ Nodes' = Nodes
      /\ \A v : Sources(v)' = Sources(v)
  BY <1>1 DEF sortVars, Done, Nodes, Sources, Into
<1>3. \A v : Plan(v)' = Plan(v) /\ (Follows(v)' <=> Follows(v))  BY <1>1, PlanKept
<1> DEFINE Waits == Done # Nodes /\ \A v \in Nodes : v \in Done <=> Sources(v) \subseteq Done
           Stops == /\ Done = Nodes /\ next \in DOMAIN topo_order
                    /\ \A v \in {topo_order[n] : n \in 1..next - 1} : Follows(v)
                    /\ \E v \in Nodes : v = topo_order[next] /\ Plan(v) = {}
<1>4. Waits \/ Stops
  <2>1. CASE pass = "failed"  BY <2>1 DEF Refusal
  <2>2. CASE Sorted
    <3>1. pass = "sort" /\ queue = << >> /\ Len(topo_order) # Len(bp.nodes)  BY <2>2 DEF Sorted
    <3>2. Waiting = {}
      <4>1. DOMAIN << >> = {}  BY EmptySeq
      <4>2. QED  BY <3>1, <4>1 DEF Waiting
    <3>3. \A v \in Nodes : v \in Done <=> Sources(v) \subseteq Done
      BY <3>1, <3>2 DEF CompileInv, Sorting
    <3>4. Done # Nodes
      <4> SUFFICES ASSUME Done = Nodes PROVE Len(topo_order) = Len(bp.nodes)  BY <3>1
      <4> QED  BY AllAreOnce
    <3>5. QED  BY <3>3, <3>4
  <2>3. CASE Mismatch
    <3>1. /\ pass = "rates" /\ next <= Len(topo_order) /\ Plan(topo_order[next]) = {}
      BY <2>3 DEF Mismatch
    <3>2. /\ next \in Nat \ {0} /\ DOMAIN topo_order = 1..Len(topo_order) /\ Len(topo_order) \in Nat
          /\ topo_order \in Seq(Nodes)
      BY Facts DEF CompileInv, Typed
    <3>3. next \in DOMAIN topo_order  BY <3>1, <3>2
    <3>4. topo_order[next] \in Nodes  BY <3>2, <3>3, ElementOfSeq
    <3>5. Done = Nodes /\ \A v \in Reached : Follows(v)  BY <3>1 DEF CompileInv, Sorting, Rated
    <3>6. QED  BY <3>1, <3>3, <3>4, <3>5 DEF Reached
  <2>4. QED  BY <1>1, <2>1, <2>2, <2>3
<1>5. CASE Waits
  <2>1. (\A v \in Nodes : v \in Done <=> Sources(v) \subseteq Done)'  BY <1>2, <1>5
  <2>2. QED  BY <1>2, <1>5, <2>1 DEF Refusal
<1>6. CASE Stops
  <2>1. (\A v \in {topo_order[n] : n \in 1..next - 1} : Follows(v))'  BY <1>2, <1>3, <1>6
  <2>2. (\E v \in Nodes : v = topo_order[next] /\ Plan(v) = {})'  BY <1>2, <1>3, <1>6
  <2>3. QED  BY <1>2, <1>6, <2>1, <2>2 DEF Refusal
<1>7. QED  BY <1>4, <1>5, <1>6

\* 2^ is increasing.
LEMMA Grows == ASSUME NEW a \in Nat, NEW b \in Nat, a < b PROVE 2 * 2^a <= 2^b /\ 2^a < 2^b
<1>1. PICK d \in Nat : b = (a + 1) + d
  <2>1. b - a - 1 \in Nat /\ b = (a + 1) + (b - a - 1)  OBVIOUS
  <2>2. QED  BY <2>1
<1>2. 2^b = 2^(a + 1) * 2^d /\ 2^(a + 1) = 2 * 2^a  BY <1>1, Adds, Doubles
<1>3. PICK p \in Nat \ {0}, q \in Nat \ {0} : p = 2^a /\ q = 2^d  BY TwoToThe
<1>4. PICK t \in Nat \ {0} : t = 2 * p /\ t > p  BY <1>3
<1>5. PICK k \in Nat : q = k + 1
  <2>1. q - 1 \in Nat /\ q = (q - 1) + 1  BY <1>3
  <2>2. QED  BY <2>1
<1>6. t * q = t * k + t /\ t * k \in Nat  BY <1>4, <1>5
<1>7. t * q >= t  BY <1>6, <1>4
<1>8. QED  BY <1>2, <1>3, <1>4, <1>7

LEMMA SamePower == ASSUME NEW a \in Nat, NEW b \in Nat, 2^a = 2^b PROVE a = b
<1>1. 2^a \in Nat /\ 2^b \in Nat  BY TwoToThe
<1>2. CASE a < b  BY <1>1, <1>2, Grows
<1>3. CASE b < a  BY <1>1, <1>3, Grows
<1>4. QED  BY <1>2, <1>3

\* The paths are defined by their lengths: what PathsOf is of n nodes follows from what
\* it is of n - 1.
LEMMA PathsOfAll ==
  ASSUME Len(bp.nodes) \in Nat
  PROVE  PathsOf = [n \in 1..Len(bp.nodes) |->
           IF n = 1 THEN {<<v>> : v \in {w \in Nodes : Sources(w) = {}}}
           ELSE UNION {{Append(p, v) : v \in {w \in Nodes : p[n - 1] \in Sources(w)}}
                         : p \in PathsOf[n - 1]}]
<1> DEFINE m == Len(bp.nodes)
           First == {<<v>> : v \in {w \in Nodes : Sources(w) = {}}}
           More(S, n) == UNION {{Append(p, v) : v \in {w \in Nodes : p[n - 1] \in Sources(w)}} : p \in S}
           Solves(g, k) == g = [n \in 1..k |-> IF n = 1 THEN First ELSE More(g[n - 1], n)]
           Bad == {k \in Nat : ~\E g : Solves(g, k)}
<1>1. Bad = {}
  <2> SUFFICES ASSUME Bad # {} PROVE FALSE  OBVIOUS
  <2>1. PICK k \in Bad : \A l \in Bad : k <= l
    <3>1. Bad \subseteq Nat  OBVIOUS
    <3> HIDE DEF Bad
    <3>2. QED  BY <3>1, Least
  <2>2. k \in Nat /\ ~\E g : Solves(g, k)  OBVIOUS
  <2> HIDE DEF First, More
  <2>3. CASE k = 0
    <3>1. 1..k = {}  BY <2>3
    <3> DEFINE g == [n \in 1..k |-> First]
    <3>2. Solves(g, k)  BY <3>1
    <3>3. QED  BY <2>2, <3>2
  <2>4. CASE k # 0
    <3>1. k - 1 \in Nat /\ ~(k <= k - 1)  BY <2>2, <2>4
    <3>2. k - 1 \notin Bad  BY <2>1, <3>1
    <3>3. PICK g : Solves(g, k - 1)  BY <3>1, <3>2
    <3> DEFINE h == [n \in 1..k |-> IF n = 1 THEN First ELSE More(g[n - 1], n)]
    <3>4. ASSUME NEW n \in 1..k, n # 1 PROVE h[n - 1] = g[n - 1]
      <4>1. n - 1 \in 1..k - 1 /\ n - 1 \in 1..k  BY <2>2, <3>4
      <4>2. QED  BY <3>3, <4>1
    <3>5. Solves(h, k)
      <4>1. h = [n \in 1..k |-> IF n = 1 THEN First ELSE More(h[n - 1], n)]  BY <3>4
      <4>2. QED  BY <4>1
    <3>6. QED  BY <2>2, <3>5
  <2>5. QED  BY <2>3, <2>4
<1>2. \E g : Solves(g, m)  BY <1>1
<1>3. PathsOf = CHOOSE g : Solves(g, m)  BY DEF PathsOf
<1>4. Solves(PathsOf, m)
  <2> HIDE DEF Solves
  <2>1. QED  BY <1>2, <1>3
<1>5. QED  BY <1>4

\* A path is a first node, or a path and a node its last node is a source of.
LEMMA PathSteps ==
  ASSUME Typed
  PROVE  /\ \A n \in 1..Len(bp.nodes) : \A p \in PathsOf[n] : p \in Seq(Nodes) /\ Len(p) = n
         /\ \A n \in 1..Len(bp.nodes) : \A p \in PathsOf[n] :
              IF n = 1 THEN \E v \in Nodes : Sources(v) = {} /\ p = <<v>>
              ELSE n - 1 \in 1..Len(bp.nodes) /\ \E q \in PathsOf[n - 1], v \in Nodes :
                     q[n - 1] \in Sources(v) /\ p = Append(q, v)
         /\ \A v \in Nodes : Sources(v) = {} => <<v>> \in PathsOf[1]
         /\ \A n \in 1..Len(bp.nodes) - 1 : \A q \in PathsOf[n], v \in Nodes :
              q[n] \in Sources(v) => Append(q, v) \in PathsOf[n + 1]
<1> DEFINE m == Len(bp.nodes)
           First == {<<v>> : v \in {w \in Nodes : Sources(w) = {}}}
           More(S, n) == UNION {{Append(p, v) : v \in {w \in Nodes : p[n - 1] \in Sources(w)}} : p \in S}
<1>1. m \in Nat /\ Nodes = 1..m  BY Facts
<1>2. \A n \in 1..m : PathsOf[n] = IF n = 1 THEN First ELSE More(PathsOf[n - 1], n)
  <2>1. PathsOf = [n \in 1..m |-> IF n = 1 THEN First ELSE More(PathsOf[n - 1], n)]
    BY <1>1, PathsOfAll
  <2> HIDE DEF First, More, m
  <2>2. QED  BY <2>1
<1> HIDE DEF m
<1>3. ASSUME NEW n \in 1..m, NEW p \in PathsOf[n]
      PROVE  IF n = 1 THEN \E v \in Nodes : Sources(v) = {} /\ p = <<v>>
             ELSE n - 1 \in 1..m /\ \E q \in PathsOf[n - 1], v \in Nodes :
                    q[n - 1] \in Sources(v) /\ p = Append(q, v)
  <2>1. CASE n = 1
    <3>1. p \in First  BY <1>2, <2>1
    <3>2. QED  BY <2>1, <3>1
  <2>2. CASE n # 1
    <3>1. p \in More(PathsOf[n - 1], n)  BY <1>2, <2>2
    <3>2. n - 1 \in 1..m  BY <1>1, <2>2
    <3>3. QED  BY <2>2, <3>1, <3>2
  <2>3. QED  BY <2>1, <2>2
<1>4. \A v \in Nodes : Sources(v) = {} => <<v>> \in PathsOf[1]
  <2> SUFFICES ASSUME NEW v \in Nodes, Sources(v) = {} PROVE <<v>> \in PathsOf[1]  OBVIOUS
  <2>1. 1 \in 1..m  BY <1>1
  <2>2. PathsOf[1] = First  BY <1>2, <2>1
  <2>3. QED  BY <2>2
<1>5. ASSUME NEW n \in 1..m - 1, NEW q \in PathsOf[n], NEW v \in Nodes, q[n] \in Sources(v)
      PROVE  Append(q, v) \in PathsOf[n + 1]
  <2>1. n + 1 \in 1..m /\ n + 1 # 1 /\ n + 1 - 1 = n  BY <1>1
  <2>2. PathsOf[n + 1] = More(PathsOf[n], n + 1)
    <3> HIDE DEF First, More
    <3>1. QED  BY <1>2, <2>1
  <2>3. q[n + 1 - 1] \in Sources(v)  BY <1>5, <2>1
  <2>4. QED  BY <2>2, <2>3
<1>6. \A n \in 1..m : \A p \in PathsOf[n] : p \in Seq(Nodes) /\ Len(p) = n
  <2> DEFINE Bad == {n \in 1..m : \E p \in PathsOf[n] : ~(p \in Seq(Nodes) /\ Len(p) = n)}
  <2> SUFFICES ASSUME Bad # {} PROVE FALSE  OBVIOUS
  <2>1. PICK n \in Bad : \A k \in Bad : n <= k
    <3>1. Bad \subseteq Nat  BY <1>1
    <3> HIDE DEF Bad
    <3>2. QED  BY <3>1, Least
  <2>2. n \in 1..m /\ n \in Nat  BY <1>1
  <2>3. PICK p \in PathsOf[n] : ~(p \in Seq(Nodes) /\ Len(p) = n)  OBVIOUS
  <2>4. CASE n = 1
    <3>1. PICK v \in Nodes : p = <<v>>  BY <1>3, <2>2, <2>4
    <3>2. QED  BY <2>3, <2>4, <3>1
  <2>5. CASE n # 1
    <3>1. n - 1 \in 1..m  BY <1>1, <2>2, <2>5
    <3>2. PICK q \in PathsOf[n - 1], v \in Nodes : p = Append(q, v)  BY <1>3, <2>2, <2>5
    <3>3. n - 1 \notin Bad  BY <2>1, <2>2
    <3>4. q \in Seq(Nodes) /\ Len(q) = n - 1  BY <3>1, <3>2, <3>3
    <3>5. p \in Seq(Nodes) /\ Len(p) = (n - 1) + 1  BY <3>2, <3>4, AppendProperties
    <3>6. QED  BY <2>2, <2>3, <3>5
  <2>6. QED  BY <2>4, <2>5
<1>7. QED  BY <1>3, <1>4, <1>5, <1>6 DEF m

\* The nodes of a set on a path, and on a longer one.
Count(p, X) == Cardinality({j \in DOMAIN p : p[j] \in X})

LEMMA OneMore ==
  ASSUME NEW S, NEW q \in Seq(S), NEW v \in S, NEW X
  PROVE  /\ Count(q, X) \in Nat
         /\ Count(Append(q, v), X) = Count(q, X) + (IF v \in X THEN 1 ELSE 0)
<1> DEFINE p == Append(q, v)
           n == Len(q)
           On == {j \in DOMAIN q : q[j] \in X}
<1>1. /\ n \in Nat /\ DOMAIN q = 1..n  BY LenProperties
<1>2. /\ p \in Seq(S) /\ Len(p) = n + 1 /\ \A i \in 1..n : p[i] = q[i]
      /\ p[n + 1] = v
  BY AppendProperties
<1>3. DOMAIN p = 1..n + 1  
  <2> HIDE DEF p, n
  <2>1. QED  BY <1>2, LenProperties
<1> HIDE DEF p, n
<1>4. IsFiniteSet(On) /\ Cardinality(On) \in Nat
  <2>1. IsFiniteSet(1..n)  BY <1>1, FS_Interval
  <2>2. On \in SUBSET (1..n)  BY <1>1
  <2>3. QED  BY <2>1, <2>2, FS_Subset, FS_CardinalityType
<1>5. {j \in DOMAIN p : p[j] \in X} = IF v \in X THEN On \cup {n + 1} ELSE On
  <2>1. 1..n + 1 = (1..n) \cup {n + 1} /\ n + 1 \notin 1..n  BY <1>1
  <2>2. QED  BY <2>1, <1>1, <1>2, <1>3
<1>6. n + 1 \notin On  BY <1>1
<1> HIDE DEF On
<1>7. Cardinality(On \cup {n + 1}) = Cardinality(On) + 1  BY <1>4, <1>6, FS_AddElement
<1> DEFINE Onp == {j \in DOMAIN p : p[j] \in X}
           c == Cardinality(On)
<1>8. Cardinality(Onp) = c + (IF v \in X THEN 1 ELSE 0)
  <2>1. CASE v \in X  BY <2>1, <1>5, <1>7
  <2>2. CASE v \notin X
    <3>1. Onp = On  BY <2>2, <1>5
    <3> HIDE DEF Onp
    <3>2. Cardinality(Onp) = c /\ c \in Nat  BY <3>1, <1>4
    <3>3. QED  BY <2>2, <3>2
  <2>3. QED  BY <2>1, <2>2
<1>9. c \in Nat  BY <1>4
<1> HIDE DEF c
<1>10. QED  BY Zenon, <1>8, <1>9 DEF p, On, Onp, c, Count

\* What a node adds to a path.
RateStep(v) == (IF Node(v).rnum = 2 THEN 1 ELSE 0) - (IF Node(v).rden = 2 THEN 1 ELSE 0)
BlockStep(v) == (IF Node(v).bnum = 2 THEN 1 ELSE 0) - (IF Node(v).bden = 2 THEN 1 ELSE 0)

LEMMA NetSteps ==
  ASSUME NEW q \in Seq(Nodes), NEW v \in Nodes
  PROVE  /\ Net(q).rate \in Int /\ Net(q).block \in Int
         /\ Net(Append(q, v)) = [rate |-> Net(q).rate + RateStep(v), block |-> Net(q).block + BlockStep(v)]
         /\ Net(<<v>>) = [rate |-> RateStep(v), block |-> BlockStep(v)]
         /\ RateStep(v) \in Int /\ BlockStep(v) \in Int
<1> DEFINE Up == {w \in Nodes : Node(w).rnum = 2}
           Down == {w \in Nodes : Node(w).rden = 2}
           Long == {w \in Nodes : Node(w).bnum = 2}
           Short == {w \in Nodes : Node(w).bden = 2}
<1>1. ASSUME NEW p \in Seq(Nodes)
      PROVE  Net(p) = [rate |-> Count(p, Up) - Count(p, Down), block |-> Count(p, Long) - Count(p, Short)]
  <2>1. \A j \in DOMAIN p : p[j] \in Nodes  BY LenProperties, ElementOfSeq
  <2>2. /\ {j \in DOMAIN p : Node(p[j]).rnum = 2} = {j \in DOMAIN p : p[j] \in Up}
        /\ {j \in DOMAIN p : Node(p[j]).rden = 2} = {j \in DOMAIN p : p[j] \in Down}
        /\ {j \in DOMAIN p : Node(p[j]).bnum = 2} = {j \in DOMAIN p : p[j] \in Long}
        /\ {j \in DOMAIN p : Node(p[j]).bden = 2} = {j \in DOMAIN p : p[j] \in Short}
    BY <2>1
  <2>3. QED  BY <2>2 DEF Net, Count
<1>2. ASSUME NEW p \in Seq(Nodes), NEW X
      PROVE  Count(p, X) \in Nat /\ Count(Append(p, v), X) = Count(p, X) + (IF v \in X THEN 1 ELSE 0)
  BY OneMore
<1>3. /\ << >> \in Seq(Nodes) /\ <<v>> = Append(<< >>, v) /\ DOMAIN << >> = {}
      /\ Append(q, v) \in Seq(Nodes) /\ <<v>> \in Seq(Nodes)
  BY EmptySeq, AppendProperties
<1>4. \A X : Count(<< >>, X) = 0
  <2>1. \A X : {j \in DOMAIN << >> : << >>[j] \in X} = {}  BY <1>3
  <2>2. QED  BY <2>1, FS_EmptySet DEF Count
<1> DEFINE One(X) == IF v \in X THEN 1 ELSE 0
<1>5. /\ RateStep(v) = One(Up) - One(Down) /\ BlockStep(v) = One(Long) - One(Short)
      /\ \A X : One(X) \in Int
  BY DEF RateStep, BlockStep
<1>6. \A X : \A p \in Seq(Nodes) : Count(p, X) \in Nat /\ Count(Append(p, v), X) = Count(p, X) + One(X)
  BY <1>2
<1>7. \A X : Count(<<v>>, X) = One(X)
  <2> SUFFICES ASSUME NEW X PROVE Count(<<v>>, X) = One(X)  OBVIOUS
  <2>1. Count(<<v>>, X) = Count(<< >>, X) + One(X)  BY <1>3, <1>6
  <2>2. One(X) \in Int /\ Count(<< >>, X) = 0  BY <1>4, <1>5
  <2> HIDE DEF One
  <2>3. QED  BY <2>1, <2>2
<1> HIDE DEF One, Up, Down, Long, Short
<1>8. /\ Net(q) = [rate |-> Count(q, Up) - Count(q, Down), block |-> Count(q, Long) - Count(q, Short)]
      /\ Net(Append(q, v)) = [rate |-> (Count(q, Up) + One(Up)) - (Count(q, Down) + One(Down)),
                              block |-> (Count(q, Long) + One(Long)) - (Count(q, Short) + One(Short))]
      /\ Net(<<v>>) = [rate |-> One(Up) - One(Down), block |-> One(Long) - One(Short)]
  BY <1>1, <1>3, <1>6, <1>7
<1>9. PICK a, b, c, d \in Nat :
        /\ a = Count(q, Up) /\ b = Count(q, Down) /\ c = Count(q, Long) /\ d = Count(q, Short)
  BY <1>6
<1>10. PICK e, f, g, h \in Int :
         /\ e = One(Up) /\ f = One(Down) /\ g = One(Long) /\ h = One(Short)
  BY <1>5
<1>11. /\ Net(q) = [rate |-> a - b, block |-> c - d]
       /\ Net(Append(q, v)) = [rate |-> (a + e) - (b + f), block |-> (c + g) - (d + h)]
       /\ Net(<<v>>) = [rate |-> e - f, block |-> g - h]
       /\ RateStep(v) = e - f /\ BlockStep(v) = g - h
  BY <1>5, <1>8, <1>9, <1>10
<1>12. (a + e) - (b + f) = (a - b) + (e - f) /\ (c + g) - (d + h) = (c - d) + (g - h)
  BY SMTT(30), <1>9, <1>10
<1>13. PICK r, t, x, y \in Int : r = a - b /\ t = c - d /\ x = e - f /\ y = g - h
  <2>1. a - b \in Int /\ c - d \in Int /\ e - f \in Int /\ g - h \in Int  OBVIOUS
  <2>2. QED  BY <2>1
<1>14. /\ Net(q) = [rate |-> r, block |-> t]
       /\ Net(Append(q, v)) = [rate |-> r + x, block |-> t + y]
       /\ Net(<<v>>) = [rate |-> x, block |-> y]
       /\ RateStep(v) = x /\ BlockStep(v) = y
  BY <1>11, <1>12, <1>13
<1>15. Net(q).rate = r /\ Net(q).block = t  BY <1>14
<1>16. QED  BY <1>13, <1>14, <1>15

\* Doubling and halving is counting up and down.
LEMMA OneStep ==
  ASSUME NEW r \in Nat, NEW s \in Nat, NEW n \in {1, 2}, NEW d \in {1, 2}, 2^s * d = 2^r * n
  PROVE  s = r + ((IF n = 2 THEN 1 ELSE 0) - (IF d = 2 THEN 1 ELSE 0))
<1>1. PICK x, y \in Nat : x = 2^s /\ y = 2^r  BY TwoToThe
<1>2. 2^(s + 1) = 2 * 2^s /\ 2^(r + 1) = 2 * 2^r /\ s + 1 \in Nat /\ r + 1 \in Nat  BY Doubles
<1>3. x * d = y * n  BY <1>1
<1>4. CASE n = d
  <2>1. x = y  BY <1>1, <1>3, <1>4
  <2>2. s = r  BY <2>1, <1>1, SamePower
  <2>3. QED  BY <2>2, <1>4
<1>5. CASE n = 2 /\ d = 1
  <2>1. x = 2 * y  BY <1>1, <1>3, <1>5
  <2>2. s = r + 1  BY <2>1, <1>1, <1>2, SamePower
  <2>3. QED  BY <2>2, <1>5
<1>6. CASE n = 1 /\ d = 2
  <2>1. 2 * x = y  BY <1>1, <1>3, <1>6
  <2>2. s + 1 = r  BY <2>1, <1>1, <1>2, SamePower
  <2>3. QED  BY <2>2, <1>6
<1>7. QED  BY <1>4, <1>5, <1>6

\* A node's ratios.
LEMMA Turns ==
  ASSUME Typed, Factors, NEW v \in Nodes
  PROVE  /\ Node(v).rnum \in {1, 2} /\ Node(v).rden \in {1, 2}
         /\ Delta(v) = {BlockStep(v)}
<1>1. bp \in Blueprints
  <2>1. Empty.nodes = << >> /\ DOMAIN << >> = {}  BY DEF Empty
  <2>2. QED  BY <2>1 DEF Typed, Nodes
<1>2. /\ Node(v).rnum \in {1, 2} /\ Node(v).rden \in {1, 2}
      /\ <<Node(v).bnum, Node(v).bden>> \in {<<1, 1>>, <<2, 1>>, <<1, 2>>}
  BY <1>1 DEF Factors, Node, Nodes
<1>3. CASE Node(v).bnum = 1 /\ Node(v).bden = 1  BY <1>2, <1>3 DEF Delta, BlockStep
<1>4. CASE Node(v).bnum = 2 /\ Node(v).bden = 1  BY <1>2, <1>4 DEF Delta, BlockStep
<1>5. CASE Node(v).bnum = 1 /\ Node(v).bden = 2  BY <1>2, <1>5 DEF Delta, BlockStep
<1>6. QED  BY <1>2, <1>3, <1>4, <1>5

\* What follows from a rate and an exponent that arrive.
LEMMA Stepped ==
  ASSUME Typed, Factors, NEW v \in Nodes, Follows(v), NEW r \in Nat, NEW b \in Int,
         <<2^r, b>> \in (IF Sources(v) = {} THEN {<<1, 0>>} ELSE Arriving(v))
  PROVE  /\ r + RateStep(v) \in Nat /\ region_rate[v] = 2^(r + RateStep(v))
         /\ blk_exp[v] = b + BlockStep(v)
<1>1. /\ Node(v).rnum \in {1, 2} /\ Node(v).rden \in {1, 2} /\ Delta(v) = {BlockStep(v)}
  BY Turns
<1>2. region_rate[v] * Node(v).rden = <<2^r, b>>[1] * Node(v).rnum
      /\ \E d \in Delta(v) : blk_exp[v] = <<2^r, b>>[2] + d
  BY DEF Follows
<1>3. PICK s \in Nat : region_rate[v] = 2^s
  <2>1. region_rate[v] \in Powers  BY DEF Typed
  <2>2. \A k \in 0..16 : k \in Nat  OBVIOUS
  <2>3. QED  BY <2>1, <2>2 DEF Powers
<1>4. 2^s * Node(v).rden = 2^r * Node(v).rnum  BY <1>2, <1>3
<1>5. s = r + RateStep(v)  BY <1>1, <1>4, OneStep DEF RateStep
<1>6. QED  BY <1>1, <1>2, <1>3, <1>5

\* Every path to a node that was reached amounts to its rate and its exponent.
LEMMA AlongPaths ==
  ASSUME Typed, Factors, NEW R \in SUBSET Nodes,
         \A v \in R : Sources(v) \subseteq R /\ Follows(v)
  PROVE  \A n \in 1..Len(bp.nodes) : \A p \in PathsOf[n] : p[n] \in R =>
           /\ Net(p).rate \in Nat /\ region_rate[p[n]] = 2^Net(p).rate
           /\ blk_exp[p[n]] = Net(p).block
<1> DEFINE Right(p, n) == /\ Net(p).rate \in Nat /\ region_rate[p[n]] = 2^Net(p).rate
                          /\ blk_exp[p[n]] = Net(p).block
           Bad == {n \in 1..Len(bp.nodes) : \E p \in PathsOf[n] : p[n] \in R /\ ~Right(p, n)}
<1> SUFFICES ASSUME Bad # {} PROVE FALSE  OBVIOUS
<1>1. PICK n \in Bad : \A k \in Bad : n <= k
  <2>1. Bad \subseteq Nat  BY Facts
  <2> HIDE DEF Bad
  <2>2. QED  BY <2>1, Least
<1>2. n \in 1..Len(bp.nodes) /\ n \in Nat  BY Facts
<1>3. PICK p \in PathsOf[n] : p[n] \in R /\ ~Right(p, n)  OBVIOUS
<1>4. CASE n = 1
  <2>1. PICK v \in Nodes : Sources(v) = {} /\ p = <<v>>  BY <1>2, <1>4, PathSteps
  <2>2. p[n] = v /\ v \in R  BY <2>1, <1>3, <1>4
  <2>3. <<2^0, 0>> \in (IF Sources(v) = {} THEN {<<1, 0>>} ELSE Arriving(v))
    BY <2>1, OneIsAPower
  <2>4. /\ 0 + RateStep(v) \in Nat /\ region_rate[v] = 2^(0 + RateStep(v))
        /\ blk_exp[v] = 0 + BlockStep(v)
    <3>1. Follows(v) /\ 0 \in Nat /\ 0 \in Int  BY <2>2
    <3>2. QED  BY <2>3, <3>1, Stepped
  <2>5. << >> \in Seq(Nodes)  BY EmptySeq
  <2>6. /\ Net(p) = [rate |-> RateStep(v), block |-> BlockStep(v)]
        /\ RateStep(v) \in Int /\ BlockStep(v) \in Int
    BY <2>1, <2>5, NetSteps
  <2>7. 0 + RateStep(v) = RateStep(v) /\ 0 + BlockStep(v) = BlockStep(v)  BY <2>6
  <2>8. Right(p, n)  BY <2>2, <2>4, <2>6, <2>7
  <2>9. QED  BY <2>8, <1>3
<1>5. CASE n # 1
  <2>1. n - 1 \in 1..Len(bp.nodes)  BY <1>2, <1>5, Facts
  <2>2. PICK q \in PathsOf[n - 1], v \in Nodes : q[n - 1] \in Sources(v) /\ p = Append(q, v)
    BY <1>2, <1>5, PathSteps
  <2>3. q \in Seq(Nodes) /\ Len(q) = n - 1  BY <2>1, PathSteps
  <2>4. p[n] = v  
    <3>1. p[(n - 1) + 1] = v  BY <2>2, <2>3, AppendProperties
    <3>2. (n - 1) + 1 = n  BY <1>2
    <3>3. QED  BY <3>1, <3>2
  <2>5. v \in R /\ q[n - 1] \in R  BY <1>3, <2>2, <2>4
  <2>6. n - 1 \notin Bad  BY <1>1, <1>2
  <2>7. Right(q, n - 1)  BY <2>1, <2>5, <2>6
  <2>8. PICK r \in Nat, b \in Int : r = Net(q).rate /\ b = Net(q).block
    BY <2>3, <2>7, NetSteps
  <2>9. <<2^r, b>> \in Arriving(v) /\ Sources(v) # {}  BY <2>2, <2>7, <2>8 DEF Arriving
  <2>10. /\ r + RateStep(v) \in Nat /\ region_rate[v] = 2^(r + RateStep(v))
         /\ blk_exp[v] = b + BlockStep(v)
    BY <2>5, <2>9, Stepped
  <2>11. Net(p) = [rate |-> r + RateStep(v), block |-> b + BlockStep(v)]
    BY <2>2, <2>3, <2>8, NetSteps
  <2>12. Right(p, n)  BY <2>4, <2>10, <2>11
  <2>13. QED  BY <2>12, <1>3
<1>6. QED  BY <1>4, <1>5

\* Some path leads to every node of the order, over nodes before it.
LEMMA SomePath ==
  ASSUME CompileInv, Done = Nodes
  PROVE  \A k \in DOMAIN topo_order : \E n \in 1..k : n \in 1..Len(bp.nodes) /\
           \E p \in PathsOf[n] : p[n] = topo_order[k]
<1> DEFINE m == Len(bp.nodes)
           Found(k) == \E n \in 1..k : n \in 1..m /\ \E p \in PathsOf[n] : p[n] = topo_order[k]
           Bad == {k \in DOMAIN topo_order : ~Found(k)}
<1> SUFFICES ASSUME Bad # {} PROVE FALSE  OBVIOUS
<1>0. Typed  BY DEF CompileInv
<1>1. m \in Nat /\ DOMAIN topo_order = 1..m /\ topo_order \in Seq(Nodes)
  BY <1>0, Facts, AllAreOnce
<1>2. PICK k \in Bad : \A j \in Bad : k <= j
  <2>1. Bad \subseteq Nat  BY <1>1
  <2> HIDE DEF Bad
  <2>2. QED  BY <2>1, Least
<1>3. k \in 1..m /\ k \in Nat /\ ~Found(k)  BY <1>1
<1>4. PICK v \in Nodes : v = topo_order[k]  BY <1>1, <1>3, ElementOfSeq
<1> HIDE DEF m
<1>5. CASE Sources(v) = {}
  <2>1. <<v>> \in PathsOf[1] /\ <<v>>[1] = v  BY <1>0, <1>5, PathSteps
  <2>2. 1 \in 1..k /\ 1 \in 1..m  BY <1>1, <1>3
  <2>3. QED  BY <1>3, <1>4, <2>1, <2>2
<1>6. CASE Sources(v) # {}
  <2>1. PICK u : u \in Sources(v)  BY <1>6
  <2>2. PICK j \in 1..k - 1 : topo_order[j] = u
    BY <1>1, <1>3, <1>4, <2>1 DEF CompileInv, Sorting
  <2>3. j \in DOMAIN topo_order /\ j \notin Bad  BY <1>1, <1>2, <1>3
  <2>4. PICK n \in 1..j : n \in 1..m /\ \E q \in PathsOf[n] : q[n] = u  BY <2>2, <2>3
  <2>5. PICK q \in PathsOf[n] : q[n] = u  BY <2>4
  <2>6. n \in 1..m - 1 /\ n + 1 \in 1..k /\ n + 1 \in 1..m  BY <1>1, <1>3, <2>4
  <2>7. Append(q, v) \in PathsOf[n + 1]  BY <1>0, <2>1, <2>5, <2>6, PathSteps DEF m
  <2>8. q \in Seq(Nodes) /\ Len(q) = n  BY <1>0, <2>4, <2>5, PathSteps DEF m
  <2>9. Append(q, v)[n + 1] = v  BY <2>8, AppendProperties
  <2>10. Found(k)  BY <1>4, <2>6, <2>7, <2>9
  <2>11. QED  BY <2>10, <1>3
<1>7. QED  BY <1>5, <1>6

\* The calls that make up a cycle.
LEMMA Filled ==
  ASSUME B \in Nat \ {0}, NEW r \in Nat, NEW e \in Int, NEW nb \in Block(e), NEW k \in Nat,
         k * nb = 2^r * B
  PROVE  e <= r /\ (e < 0 => B >= 2^(-e)) /\ k = 2^(r - e)
<1>1. PICK b \in Nat \ {0} : b = B  OBVIOUS
<1>2. PICK x \in Nat \ {0} : x = 2^r  BY TwoToThe
<1>3. CASE e >= 0
  <2>1. PICK y \in Nat \ {0} : y = 2^e  BY <1>3, TwoToThe
  <2>2. nb = b * y  BY <1>1, <1>3, <2>1 DEF Block
  <2>3. k * (b * y) = x * b  BY <1>1, <1>2, <2>2
  <2>4. b * (k * y) = b * x
    <3>1. k * (b * y) = b * (k * y) /\ x * b = b * x  BY <1>1, <1>2, <2>1
    <3>2. QED  BY <2>3, <3>1
  <2>5. k * y = x
    <3>1. PICK z \in Nat : z = k * y  BY <2>1
    <3>2. b * z = b * x  BY <2>4, <3>1
    <3>3. QED  BY <3>1, <3>2, <1>1, <1>2, Cancel
  <2>6. e <= r
    <3> SUFFICES ASSUME r < e PROVE FALSE  OBVIOUS
    <3>1. x < y  BY <1>2, <1>3, <2>1, Grows
    <3>2. k # 0  BY <1>2, <2>5
    <3>3. PICK j \in Nat : k = j + 1
      <4>1. k - 1 \in Nat /\ k = (k - 1) + 1  BY <3>2
      <4>2. QED  BY <4>1
    <3>4. k * y = j * y + y /\ j * y \in Nat  BY <3>3, <2>1
    <3>5. QED  BY <3>1, <3>4, <2>1, <2>5, <1>2
  <2>7. PICK d \in Nat : d = r - e /\ r = d + e
    <3>1. r - e \in Nat /\ r = (r - e) + e  BY <1>3, <2>6
    <3>2. QED  BY <3>1
  <2>8. PICK w \in Nat \ {0} : w = 2^d  BY TwoToThe
  <2>9. w * y = x  BY <1>2, <1>3, <2>1, <2>7, <2>8, Adds
  <2>10. k = w
    <3>1. y * k = y * w  BY <2>1, <2>5, <2>8, <2>9
    <3>2. QED  BY <3>1, <2>1, <2>8, Cancel
  <2>11. QED  BY <1>3, <2>6, <2>7, <2>8, <2>10
<1>4. CASE e < 0
  <2>1. PICK f \in Nat : f = -e  BY <1>4
  <2>2. PICK y \in Nat \ {0} : y = 2^f  BY TwoToThe
  <2>3. b % y = 0 /\ nb = b \div y  BY <1>1, <1>4, <2>1, <2>2 DEF Block
  <2>4. nb \in Nat /\ b = y * nb  BY <1>1, <2>2, <2>3
  <2>5. nb # 0
    <3>1. y * 0 = 0  BY <2>2
    <3>2. QED  BY <1>1, <2>4, <3>1
  <2>6. b >= y
    <3>1. PICK j \in Nat : nb = j + 1
      <4>1. nb - 1 \in Nat /\ nb = (nb - 1) + 1  BY <2>4, <2>5
      <4>2. QED  BY <4>1
    <3>2. y * nb = y * j + y /\ y * j \in Nat  BY <3>1, <2>2
    <3>3. QED  BY <2>2, <2>4, <3>2
  <2>7. k = x * y
    <3>1. k * nb = x * (y * nb)  BY <1>1, <1>2, <2>4
    <3>2. x * (y * nb) = nb * (x * y) /\ k * nb = nb * k  BY <1>2, <2>2, <2>4
    <3>3. PICK z \in Nat : z = x * y  BY <1>2, <2>2
    <3>4. nb * k = nb * z  BY <3>1, <3>2, <3>3
    <3>5. QED  BY <2>4, <2>5, <3>3, <3>4, Cancel
  <2>8. x * y = 2^(r + f)  BY <1>2, <2>1, <2>2, Adds
  <2>9. r + f = r - e /\ e <= r  BY <1>4, <2>1
  <2>10. QED  BY <1>1, <2>1, <2>2, <2>6, <2>7, <2>8, <2>9
<1>5. QED  BY <1>3, <1>4

\* An order of all nodes, each after its sources, and a set of nodes that all have sources
\* in it exclude each other.
LEMMA NoCycle == ASSUME CompileInv, Done = Nodes PROVE ~Cyclic
<1> SUFFICES ASSUME NEW S \in SUBSET Nodes, S # {}, \A v \in S : Sources(v) \cap S # {} PROVE FALSE
  BY DEF Cyclic
<1> DEFINE At == {n \in DOMAIN topo_order : topo_order[n] \in S}
<1>1. DOMAIN topo_order \subseteq Nat  BY Facts DEF CompileInv
<1>2. At # {}  BY DEF Done
<1>3. PICK n \in At : \A k \in At : n <= k
  <2>1. At \subseteq Nat  BY <1>1
  <2> HIDE DEF At
  <2>2. QED  BY <1>2, <2>1, Least
<1>4. n \in DOMAIN topo_order /\ topo_order[n] \in S /\ n \in Nat  BY <1>1
<1>5. PICK u \in Sources(topo_order[n]) : u \in S  BY <1>4
<1>6. PICK j \in 1..n - 1 : topo_order[j] = u  BY <1>4, <1>5 DEF CompileInv, Sorting
<1>7. j \in DOMAIN topo_order /\ j < n
  <2>1. DOMAIN topo_order = 1..Len(topo_order) /\ Len(topo_order) \in Nat  BY Facts DEF CompileInv
  <2>2. QED  BY <1>4, <1>6, <2>1
<1>8. QED  BY <1>3, <1>4, <1>5, <1>6, <1>7

LEMMA Accepted ==
  ASSUME CompileInv, Factors, pass = "ok"
  PROVE  /\ ~Cyclic /\ Consistent
         /\ \A p \in Paths : LET v == p[Len(p)] IN
              /\ region_rate[v] = 2^Net(p).rate
              /\ calls[v] * node_block[v] = region_rate[v] * B
              /\ calls[v] = 2^(Net(p).rate - Net(p).block)
<1>1. Typed /\ Done = Nodes /\ \A v \in Nodes : Follows(v)
  BY DEF CompileInv, Sorting, Rated, Reached
<1>2. ~Cyclic  BY <1>1, NoCycle
<1>3. B \in Nat \ {0} /\ \A v \in Nodes : Sources(v) \subseteq Nodes  BY <1>1, Facts
<1>4. ASSUME NEW p \in Paths
      PROVE  /\ p[Len(p)] \in Nodes /\ Net(p).rate \in Nat /\ Net(p).block \in Int
             /\ region_rate[p[Len(p)]] = 2^Net(p).rate /\ blk_exp[p[Len(p)]] = Net(p).block
  <2>1. PICK n \in 1..Len(bp.nodes) : p \in PathsOf[n]  BY DEF Paths
  <2>2. p \in Seq(Nodes) /\ Len(p) = n  BY <1>1, <2>1, PathSteps
  <2>3. p[n] \in Nodes  BY <2>1, <2>2, ElementOfSeq
  <2>4. /\ Net(p).rate \in Nat /\ region_rate[p[n]] = 2^Net(p).rate
        /\ blk_exp[p[n]] = Net(p).block
    BY <1>1, <1>3, <2>1, <2>3, AlongPaths
  <2>5. QED  BY <2>2, <2>3, <2>4 DEF CompileInv, Typed
<1>5. ASSUME NEW p \in Paths
      PROVE  /\ Possible(Net(p))
             /\ calls[p[Len(p)]] * node_block[p[Len(p)]] = region_rate[p[Len(p)]] * B
             /\ calls[p[Len(p)]] = 2^(Net(p).rate - Net(p).block)
  <2>1. PICK v \in Nodes : v = p[Len(p)]  BY <1>4
  <2>2. PICK r \in Nat, e \in Int : r = Net(p).rate /\ e = Net(p).block  BY <1>4
  <2>3. calls[v] \in Nat /\ calls[v] * node_block[v] = region_rate[v] * B  BY <1>1 DEF Typed
  <2>4. region_rate[v] = 2^r /\ blk_exp[v] = e  BY <1>4, <2>1, <2>2
  <2>5. node_block[v] \in Block(e)
    <3>1. (IF Sources(v) = {} THEN {<<1, 0>>} ELSE Arriving(v)) # {}  BY DEF Arriving
    <3>2. QED  BY <3>1, <1>1, <2>4 DEF Follows
  <2>6. e <= r /\ (e < 0 => B >= 2^(-e)) /\ calls[v] = 2^(r - e)
    BY <1>3, <2>3, <2>4, <2>5, Filled
  <2>7. r >= 0  OBVIOUS
  <2>8. QED  BY <2>1, <2>2, <2>3, <2>6, <2>7 DEF Possible
<1>6. ASSUME NEW p \in Paths, NEW q \in Paths, p[Len(p)] = q[Len(q)] PROVE Net(p) = Net(q)
  <2>1. Net(p).block = Net(q).block /\ 2^Net(p).rate = 2^Net(q).rate  BY <1>4, <1>6
  <2>2. Net(p).rate = Net(q).rate  BY <1>4, <2>1, SamePower
  <2>3. QED  BY <2>1, <2>2 DEF Net
<1>7. Consistent  BY <1>5, <1>6 DEF Consistent
<1>8. QED  BY <1>2, <1>4, <1>5, <1>7

\* The rate of a node, computed from that of its sources.
LEMMA StepBack ==
  ASSUME NEW r \in Nat, NEW s \in Nat, NEW n \in {1, 2}, NEW d \in {1, 2},
         s = r + ((IF n = 2 THEN 1 ELSE 0) - (IF d = 2 THEN 1 ELSE 0))
  PROVE  2^r * n = 2^s * d
<1>1. PICK x, y \in Nat : x = 2^s /\ y = 2^r  BY TwoToThe
<1>2. 2^(s + 1) = 2 * 2^s /\ 2^(r + 1) = 2 * 2^r  BY Doubles
<1>3. CASE n = d
  <2>1. s = r  BY <1>3
  <2>2. QED  BY <2>1, <1>1, <1>3
<1>4. CASE n = 2 /\ d = 1
  <2>1. s = r + 1  BY <1>4
  <2>2. x = 2 * y  BY <2>1, <1>1, <1>2
  <2>3. QED  BY <2>2, <1>1, <1>4
<1>5. CASE n = 1 /\ d = 2
  <2>1. r = s + 1  BY <1>5
  <2>2. y = 2 * x  BY <2>1, <1>1, <1>2
  <2>3. QED  BY <2>2, <1>1, <1>5
<1>6. QED  BY <1>3, <1>4, <1>5

\* The whole blocks there are in a cycle of a possible rate.
LEMMA SomeBlock ==
  ASSUME B \in BlockSizes, NEW s \in Nat, NEW e \in Int, e <= s, e < 0 => B >= 2^(-e)
  PROVE  \E nb \in Block(e) : (2^s * B) % nb = 0 /\ (2^s * B) \div nb > 0
<1>1. PICK k \in Nat : B = 2^k  
  <2>1. \A n \in 0..16 : n \in Nat  OBVIOUS
  <2>2. QED  BY <2>1, BlockSizesAssumption DEF Powers
<1>2. PICK b \in Nat \ {0}, x \in Nat \ {0} : b = B /\ x = 2^s  BY <1>1, TwoToThe
<1>3. \A i, j \in Nat \ {0} : i * j \in Nat \ {0}  OBVIOUS
<1>4. CASE e >= 0
  <2>1. PICK d \in Nat : s = d + e
    <3>1. s - e \in Nat /\ s = (s - e) + e  BY <1>4
    <3>2. QED  BY <3>1
  <2>2. PICK y, w \in Nat \ {0} : y = 2^e /\ w = 2^d  BY <1>4, TwoToThe
  <2>3. x = w * y  BY <1>2, <1>4, <2>1, <2>2, Adds
  <2>4. PICK nb \in Nat \ {0} : nb = b * y  BY <1>2, <1>3, <2>2
  <2>5. x * b = w * nb
    <3>1. (w * y) * b = w * (b * y)  BY <1>2, <2>2
    <3>2. QED  BY <2>3, <2>4, <3>1
  <2>6. (w * nb) % nb = 0 /\ (w * nb) \div nb = w  BY <2>2, <2>4, Quotient
  <2>7. nb \in Block(e)  BY <1>2, <1>4, <2>2, <2>4 DEF Block
  <2>8. (2^s * B) % nb = 0 /\ (2^s * B) \div nb > 0  BY <1>2, <2>2, <2>5, <2>6
  <2>9. QED  BY <2>7, <2>8
<1>5. CASE e < 0
  <2>1. PICK f \in Nat : f = -e  BY <1>5
  <2>2. f <= k
    <3> SUFFICES ASSUME k < f PROVE FALSE  OBVIOUS
    <3>1. 2^k < 2^f  BY <2>1, Grows
    <3>2. 2^k >= 2^f  BY <1>1, <1>5, <2>1
    <3>3. 2^k \in Nat /\ 2^f \in Nat  BY TwoToThe
    <3>4. QED  BY <3>1, <3>2, <3>3
  <2>3. PICK d \in Nat : k = d + f
    <3>1. k - f \in Nat /\ k = (k - f) + f  BY <2>1, <2>2
    <3>2. QED  BY <3>1
  <2>4. PICK y, nb \in Nat \ {0} : y = 2^f /\ nb = 2^d  BY <2>1, <2>3, TwoToThe
  <2>5. b = nb * y  BY <1>1, <1>2, <2>1, <2>3, <2>4, Adds
  <2>6. b % y = 0 /\ b \div y = nb  BY <2>4, <2>5, Quotient
  <2>7. nb \in Block(e)  BY <1>2, <1>5, <2>1, <2>4, <2>6 DEF Block
  <2>8. PICK w \in Nat \ {0} : w = x * y  BY <1>2, <1>3, <2>4
  <2>9. x * b = w * nb
    <3>1. x * (nb * y) = (x * y) * nb  BY <1>2, <2>4
    <3>2. QED  BY <2>5, <2>8, <3>1
  <2>10. (w * nb) % nb = 0 /\ (w * nb) \div nb = w  BY <2>4, <2>8, Quotient
  <2>11. (2^s * B) % nb = 0 /\ (2^s * B) \div nb > 0  BY <1>2, <2>8, <2>9, <2>10
  <2>12. QED  BY <2>7, <2>11
<1>6. QED  BY <1>4, <1>5

\* A node whose sources agree is accepted if what it makes of their rate is possible.
LEMMA Accepts ==
  ASSUME Typed, Factors, NEW v \in Nodes, NEW r \in Nat, NEW b \in Int, Base(v) = {<<2^r, b>>},
         r + RateStep(v) <= 16, Possible([rate |-> r + RateStep(v), block |-> b + BlockStep(v)])
  PROVE  Plan(v) # {}
<1> DEFINE net == [rate |-> r + RateStep(v), block |-> b + BlockStep(v)]
<1>1. /\ Node(v).rnum \in {1, 2} /\ Node(v).rden \in {1, 2} /\ Delta(v) = {BlockStep(v)}
      /\ RateStep(v) \in Int /\ BlockStep(v) \in Int
  BY Turns DEF RateStep, BlockStep
<1>2. PICK s \in Nat, e \in Int : s = r + RateStep(v) /\ e = b + BlockStep(v)
  <2>1. net.rate >= 0  BY DEF Possible
  <2>2. r + RateStep(v) \in Nat /\ b + BlockStep(v) \in Int  BY <1>1, <2>1
  <2>3. QED  BY <2>2
<1>3. e <= s /\ (e < 0 => B >= 2^(-e))
  <2>1. net.rate = s /\ net.block = e  BY <1>2
  <2> HIDE DEF net
  <2>2. QED  BY <2>1 DEF Possible, net
<1>4. PICK nb \in Block(e) : (2^s * B) % nb = 0 /\ (2^s * B) \div nb > 0
  BY <1>3, SomeBlock DEF Typed
<1>5. 2^r * Node(v).rnum = 2^s * Node(v).rden  BY <1>1, <1>2, StepBack DEF RateStep
<1>6. 2^s \in Powers /\ 2^s \in Nat
  <2>1. s \in 0..16  BY <1>2
  <2>2. QED  BY <2>1, TwoToThe DEF Powers
<1>7. (2^r * Node(v).rnum) \div Node(v).rden = 2^s  BY <1>1, <1>5, <1>6, Quotient
<1> DEFINE a == <<2^r, b>>
           p == [rate |-> 2^s, exp |-> e, block |-> nb]
<1>8. p \in Candidates(v)
  <2>1. a \in {c \in Base(v) : \E x \in Powers : c[1] * Node(v).rnum = x * Node(v).rden}
    BY <1>5, <1>6
  <2>2. nb \in UNION {Block(c[2] + d) : c \in Base(v), d \in Delta(v)}
    <3>1. a[2] + BlockStep(v) = e /\ a \in Base(v) /\ BlockStep(v) \in Delta(v)  BY <1>1, <1>2
    <3>2. QED  BY <3>1
  <2>3. p = [rate |-> (a[1] * Node(v).rnum) \div Node(v).rden, exp |-> a[2] + BlockStep(v), block |-> nb]
    BY <1>2, <1>7
  <2>4. BlockStep(v) \in Delta(v)  BY <1>1
  <2> HIDE DEF p, a
  <2>5. QED  BY <2>1, <2>2, <2>3, <2>4 DEF Candidates
<1>9. p \in Plan(v)  BY <1>4, <1>8 DEF Plan
<1>10. QED  BY <1>9

\* In a consistent graph the node after the ones that follow is accepted.
LEMMA NextIsAccepted ==
  ASSUME CompileInv, Factors, RatesFit, Consistent, Done = Nodes, next \in DOMAIN topo_order,
         \A v \in {topo_order[n] : n \in 1..next - 1} : Follows(v)
  PROVE  Plan(topo_order[next]) # {}
<1> DEFINE R == {topo_order[n] : n \in 1..next - 1}
           v == topo_order[next]
           m == Len(bp.nodes)
<1>0. Typed  BY DEF CompileInv
<1>1. m \in Nat /\ DOMAIN topo_order = 1..m /\ next \in 1..m /\ topo_order \in Seq(Nodes)
  BY <1>0, Facts, AllAreOnce
<1>2. \A n \in 1..m : topo_order[n] \in Nodes  BY <1>1, ElementOfSeq
<1>3. \A n \in 1..m : \A u \in Sources(topo_order[n]) : \E k \in 1..n - 1 : topo_order[k] = u
  BY <1>1 DEF CompileInv, Sorting
<1> HIDE DEF m
<1>4. R \in SUBSET Nodes /\ Sources(v) \subseteq R /\ v \in Nodes
  <2>1. \A n \in 1..next - 1 : n \in 1..m  BY <1>1
  <2>2. QED  BY <2>1, <1>1, <1>2, <1>3
<1>5. \A w \in R : Sources(w) \subseteq R /\ Follows(w)
  <2> SUFFICES ASSUME NEW n \in 1..next - 1
               PROVE  Sources(topo_order[n]) \subseteq R
    OBVIOUS
  <2>1. n \in 1..m /\ \A k \in 1..n - 1 : k \in 1..next - 1  BY <1>1
  <2>2. QED  BY <2>1, <1>3
<1>6. \A n \in 1..m : \A p \in PathsOf[n] :
        /\ p \in Paths /\ p \in Seq(Nodes) /\ Len(p) = n /\ p[Len(p)] = p[n]
        /\ Possible(Net(p)) /\ Net(p).rate <= 16
        /\ p[n] \in R => /\ Net(p).rate \in Nat /\ region_rate[p[n]] = 2^Net(p).rate
                         /\ blk_exp[p[n]] = Net(p).block
  <2> HIDE DEF R
  <2>1. \A n \in 1..m : \A p \in PathsOf[n] : p \in Paths  BY DEF Paths, m
  <2>2. \A n \in 1..m : \A p \in PathsOf[n] : p \in Seq(Nodes) /\ Len(p) = n
    BY <1>0, PathSteps DEF m
  <2>3. \A p \in Paths : Possible(Net(p)) /\ Net(p).rate <= 16  BY DEF Consistent, RatesFit
  <2>4. \A n \in 1..m : \A p \in PathsOf[n] : p[n] \in R =>
          /\ Net(p).rate \in Nat /\ region_rate[p[n]] = 2^Net(p).rate
          /\ blk_exp[p[n]] = Net(p).block
    BY <1>0, <1>4, <1>5, AlongPaths DEF m
  <2>5. QED  BY <2>1, <2>2, <2>3, <2>4
<1>7. CASE Sources(v) = {}
  <2>1. <<v>> \in PathsOf[1] /\ 1 \in 1..m  BY <1>0, <1>1, <1>4, <1>7, PathSteps
  <2>2. << >> \in Seq(Nodes)  BY EmptySeq
  <2>3. /\ Net(<<v>>) = [rate |-> RateStep(v), block |-> BlockStep(v)]
        /\ RateStep(v) \in Int /\ BlockStep(v) \in Int
    BY <1>4, <2>2, NetSteps
  <2>4. Base(v) = {<<2^0, 0>>}  BY <1>7, OneIsAPower DEF Base
  <2>5. 0 + RateStep(v) = RateStep(v) /\ 0 + BlockStep(v) = BlockStep(v)  BY <2>3
  <2>6. RateStep(v) <= 16 /\ Possible([rate |-> RateStep(v), block |-> BlockStep(v)])
    <3>1. Possible(Net(<<v>>)) /\ Net(<<v>>).rate <= 16  BY <1>6, <2>1
    <3>2. QED  BY <2>3, <3>1
  <2> HIDE DEF v
  <2>7. 0 \in Nat /\ 0 \in Int  OBVIOUS
  <2>8. QED  BY <1>0, <1>4, <2>4, <2>5, <2>6, <2>7, Accepts DEF v
<1>8. CASE Sources(v) # {}
  \* A path to each source and on to v.
  <2>1. ASSUME NEW u \in Sources(v)
        PROVE  \E n \in 1..m - 1 : \E q \in PathsOf[n] :
                 /\ q[n] = u /\ q \in Seq(Nodes) /\ Append(q, v) \in Paths
                 /\ n + 1 \in 1..m /\ Append(q, v) \in PathsOf[n + 1] /\ Append(q, v)[n + 1] = v
    <3>1. PICK k \in 1..next - 1 : topo_order[k] = u  BY <1>1, <1>3
    <3>2. PICK n \in 1..k : n \in 1..m /\ \E q \in PathsOf[n] : q[n] = u
      <4>1. k \in DOMAIN topo_order  BY <1>1, <3>1
      <4>2. QED  BY <3>1, <4>1, SomePath DEF m
    <3>3. PICK q \in PathsOf[n] : q[n] = u  BY <3>2
    <3>4. n \in 1..m - 1 /\ n + 1 \in 1..m  BY <1>1, <3>1, <3>2
    <3>5. Append(q, v) \in PathsOf[n + 1]  BY <1>0, <1>4, <3>3, <3>4, PathSteps DEF m
    <3>6. q \in Seq(Nodes) /\ Len(q) = n  BY <1>6, <3>2, <3>3
    <3>7. Append(q, v)[n + 1] = v  BY <1>4, <3>6, AppendProperties
    <3>8. Append(q, v) \in Paths  BY <1>6, <3>4, <3>5
    <3>9. QED  BY <3>3, <3>4, <3>5, <3>6, <3>7, <3>8
  <2>2. PICK u \in Sources(v) : TRUE  BY <1>8
  <2>3. PICK n \in 1..m - 1 : \E q \in PathsOf[n] :
          /\ q[n] = u /\ q \in Seq(Nodes) /\ Append(q, v) \in Paths
          /\ n + 1 \in 1..m /\ Append(q, v) \in PathsOf[n + 1] /\ Append(q, v)[n + 1] = v
    BY <2>1
  <2>4. PICK q \in PathsOf[n] :
          /\ q[n] = u /\ q \in Seq(Nodes) /\ Append(q, v) \in Paths
          /\ n + 1 \in 1..m /\ Append(q, v) \in PathsOf[n + 1] /\ Append(q, v)[n + 1] = v
    BY <2>3
  <2>5. n \in 1..m /\ u \in R  BY <1>1, <1>4, <2>3
  <2>6. PICK r \in Nat, b \in Int : r = Net(q).rate /\ b = Net(q).block
    BY <1>4, <1>6, <2>4, <2>5, NetSteps
  <2>7. region_rate[u] = 2^r /\ blk_exp[u] = b  BY <1>6, <2>4, <2>5, <2>6
  <2>8. Net(Append(q, v)) = [rate |-> r + RateStep(v), block |-> b + BlockStep(v)]
        /\ RateStep(v) \in Int /\ BlockStep(v) \in Int
    BY <1>4, <2>4, <2>6, NetSteps
  <2>9. ASSUME NEW w \in Sources(v) PROVE region_rate[w] = 2^r /\ blk_exp[w] = b
    <3>1. PICK k \in 1..m - 1 : \E p \in PathsOf[k] :
            /\ p[k] = w /\ p \in Seq(Nodes) /\ Append(p, v) \in Paths
            /\ k + 1 \in 1..m /\ Append(p, v) \in PathsOf[k + 1] /\ Append(p, v)[k + 1] = v
      BY <2>1
    <3>2. PICK p \in PathsOf[k] :
            /\ p[k] = w /\ p \in Seq(Nodes) /\ Append(p, v) \in Paths
            /\ k + 1 \in 1..m /\ Append(p, v) \in PathsOf[k + 1] /\ Append(p, v)[k + 1] = v
      BY <3>1
    <3>3. k \in 1..m /\ w \in R  BY <1>1, <1>4, <3>1
    <3>4. PICK x \in Nat, y \in Int : x = Net(p).rate /\ y = Net(p).block
      BY <1>4, <1>6, <3>2, <3>3, NetSteps
    <3>5. region_rate[w] = 2^x /\ blk_exp[w] = y  BY <1>6, <3>2, <3>3, <3>4
    <3>6. Net(Append(p, v)) = [rate |-> x + RateStep(v), block |-> y + BlockStep(v)]
      BY <1>4, <3>2, <3>4, NetSteps
    <3>7. Net(Append(p, v)) = Net(Append(q, v))
      <4>1. Append(p, v)[Len(Append(p, v))] = v  BY <1>6, <3>2
      <4>2. Append(q, v)[Len(Append(q, v))] = v  BY <1>6, <2>4
      <4>3. QED  BY <2>4, <3>2, <4>1, <4>2 DEF Consistent
    <3>8. x + RateStep(v) = r + RateStep(v) /\ y + BlockStep(v) = b + BlockStep(v)
      BY <2>8, <3>6, <3>7
    <3>9. x = r /\ y = b  BY <2>8, <3>8
    <3>10. QED  BY <3>5, <3>9
  <2>10. Arriving(v) = {<<2^r, b>>}
    <3> HIDE DEF v
    <3>1. QED  BY <2>2, <2>9 DEF Arriving
  <2>11. Base(v) = {<<2^r, b>>}
    <3>1. Cardinality({<<2^r, b>>}) = 1  BY FS_Singleton
    <3> HIDE DEF v
    <3>2. QED  BY <3>1, <1>8, <2>10 DEF Base
  <2>12. r + RateStep(v) <= 16 /\ Possible([rate |-> r + RateStep(v), block |-> b + BlockStep(v)])
    <3>1. Possible(Net(Append(q, v))) /\ Net(Append(q, v)).rate <= 16  BY <1>6, <2>4
    <3>2. QED  BY <2>8, <3>1
  <2> HIDE DEF v
  <2>13. QED  BY <1>0, <1>4, <2>11, <2>12, Accepts DEF v
<1>9. QED  BY <1>7, <1>8

LEMMA Refused ==
  ASSUME CompileInv, Factors, RatesFit, Refusal, pass = "failed" PROVE Cyclic \/ ~Consistent
<1>1. CASE Done # Nodes /\ \A v \in Nodes : v \in Done <=> Sources(v) \subseteq Done
  <2> DEFINE S == Nodes \ Done
  <2>1. /\ Done \subseteq Nodes /\ \A v \in Nodes : Sources(v) \subseteq Nodes
    BY Facts DEF CompileInv
  <2>2. S \in SUBSET Nodes /\ S # {} /\ \A v \in S : Sources(v) \cap S # {}  BY <1>1, <2>1
  <2>3. QED  BY <2>2 DEF Cyclic
<1>2. CASE /\ Done = Nodes /\ next \in DOMAIN topo_order
           /\ \A v \in {topo_order[n] : n \in 1..next - 1} : Follows(v)
           /\ \E v \in Nodes : v = topo_order[next] /\ Plan(v) = {}
  <2>1. Plan(topo_order[next]) = {}  BY <1>2
  <2>2. QED  BY <1>2, <2>1, NextIsAccepted
<1>3. QED  BY <1>1, <1>2 DEF Refusal

\* compile() refuses exactly the blueprints with a cycle, with paths that disagree or with
\* one that asks for what no call can do, and gives every node the rate and the block that
\* all paths to it amount to: for all blueprints whose ratios are those of up2, down2,
\* upbloc and downbloc, whose rates stay within Powers.
THEOREM ConsistentAreAccepted ==
  ASSUME Factors PROVE InstanceSpec /\ []RatesFit => []AcceptsTheConsistent
<1>1. InstanceInit => Refusal  BY DEF InstanceInit, Init, Refusal
<1>2. CompileInv /\ Refusal /\ [InstanceNext]_instanceVars => Refusal'  BY RefusalStep
<1>3. CompileInv /\ Refusal /\ RatesFit => AcceptsTheConsistent
  BY Accepted, Refused DEF AcceptsTheConsistent
<1>4. QED  BY <1>1, <1>2, <1>3, CompileInvariance, PTL DEF InstanceSpec
=============================================================================
