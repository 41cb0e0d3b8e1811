------------------------- MODULE ParallelExec_proofs -------------------------
(***************************************************************************)
(* Theorems about the executors: the order compute_order makes, the        *)
(* parallel block, and that both implement BlockCompute.                   *)
(***************************************************************************)
EXTENDS ParallelProperties, FiniteSetTheorems, SequenceTheorems, WellFoundedInduction, TLAPS

-----------------------------------------------------------------------------
(* Sequences. *)

LEMMA AppendElements ==
  ASSUME NEW S, NEW s \in Seq(S), NEW e \in S
  PROVE  /\ Elements(Append(s, e)) = Elements(s) \cup {e}
         /\ \A n \in DOMAIN s : n \in DOMAIN Append(s, e) /\ Append(s, e)[n] = s[n]
         /\ \A n \in DOMAIN Append(s, e) : n \in DOMAIN s \/ n = Len(s) + 1
         /\ Len(s) + 1 \in DOMAIN Append(s, e) /\ Append(s, e)[Len(s) + 1] = e
         /\ Distinct(s) /\ e \notin Elements(s) => Distinct(Append(s, e))
<1>1. Len(Append(s, e)) = Len(s) + 1 /\ Append(s, e) \in Seq(S) /\ Len(s) \in Nat  OBVIOUS
<1>2. DOMAIN s = 1..Len(s) /\ DOMAIN Append(s, e) = 1..Len(s)+1  BY <1>1
<1>3. /\ \A n \in DOMAIN s : n \in DOMAIN Append(s, e) /\ Append(s, e)[n] = s[n]
      /\ \A n \in DOMAIN Append(s, e) : n \in DOMAIN s \/ n = Len(s) + 1
      /\ Len(s) + 1 \in DOMAIN Append(s, e) /\ Append(s, e)[Len(s) + 1] = e
  BY <1>1, <1>2
<1>4. Elements(Append(s, e)) = Elements(s) \cup {e}  BY <1>3 DEF Elements
<1>5. Distinct(s) /\ e \notin Elements(s) => Distinct(Append(s, e))
  BY <1>3 DEF Elements, Distinct
<1>6. QED  BY <1>3, <1>4, <1>5

LEMMA TailElements ==
  ASSUME NEW S, NEW s \in Seq(S), s # << >>
  PROVE  /\ Head(s) \in Elements(s) /\ Tail(s) \in Seq(S)
         /\ Elements(Tail(s)) \subseteq Elements(s)
         /\ Distinct(s) => Distinct(Tail(s)) /\ Head(s) \notin Elements(Tail(s))
<1>1. /\ Len(s) \in Nat \ {0} /\ Tail(s) \in Seq(S) /\ Head(s) = s[1]
      /\ DOMAIN s = 1..Len(s) /\ DOMAIN Tail(s) = 1..Len(s)-1
      /\ \A n \in 1..Len(s)-1 : Tail(s)[n] = s[n+1]
  OBVIOUS
<1>2. 1 \in DOMAIN s /\ \A n \in DOMAIN Tail(s) : n + 1 \in DOMAIN s /\ n + 1 # 1 /\ Tail(s)[n] = s[n+1]
  BY <1>1
<1>3. Head(s) \in Elements(s) /\ Elements(Tail(s)) \subseteq Elements(s)
  BY <1>1, <1>2 DEF Elements
<1>4. ASSUME Distinct(s) PROVE Distinct(Tail(s)) /\ Head(s) \notin Elements(Tail(s))
  <2>1. ASSUME NEW m \in DOMAIN Tail(s), NEW n \in DOMAIN Tail(s), Tail(s)[m] = Tail(s)[n]
        PROVE  m = n
    <3>1. m + 1 = n + 1  BY <1>2, <1>4, <2>1 DEF Distinct
    <3>2. QED  BY <3>1, <1>1
  <2>2. Head(s) \notin Elements(Tail(s))  BY <1>1, <1>2, <1>4 DEF Distinct, Elements
  <2>3. QED  BY <2>1, <2>2 DEF Distinct
<1>5. QED  BY <1>1, <1>3, <1>4

LEMMA BeforeIs ==
  ASSUME NEW S, NEW s \in Seq(S), NEW n \in Nat \ {0}
  PROVE  /\ Before(s, 1) = {} /\ Before(s, n) \subseteq Elements(s)
         /\ n \in DOMAIN s => Before(s, n+1) = Before(s, n) \cup {s[n]}
         /\ n > Len(s) => Before(s, n) = Elements(s)
<1>1. DOMAIN s = 1..Len(s) /\ Len(s) \in Nat  OBVIOUS
<1>2. Before(s, 1) = {}  BY <1>1 DEF Before
<1>3. Before(s, n) \subseteq Elements(s)  BY DEF Before, Elements
<1>4. ASSUME n \in DOMAIN s PROVE Before(s, n+1) = Before(s, n) \cup {s[n]}
  <2>1. \A l \in DOMAIN s : l < n + 1 <=> l < n \/ l = n  BY <1>1
  <2>2. n \in {l \in DOMAIN s : l < n + 1}  BY <1>1, <1>4
  <2>3. {l \in DOMAIN s : l < n + 1} = {l \in DOMAIN s : l < n} \cup {n}  BY <1>4, <2>1
  <2>4. QED  BY <2>3 DEF Before
<1>5. ASSUME n > Len(s) PROVE Before(s, n) = Elements(s)
  <2>1. {l \in DOMAIN s : l < n} = DOMAIN s  BY <1>1, <1>5
  <2>2. QED  BY <2>1 DEF Before, Elements
<1>6. QED  BY <1>2, <1>3, <1>4, <1>5

\* Appending changes nothing before the end.
LEMMA BeforeAppend ==
  ASSUME NEW S, NEW s \in Seq(S), NEW e \in S, NEW n \in Nat, n <= Len(s) + 1
  PROVE  Before(Append(s, e), n) = Before(s, n)
<1>1. /\ DOMAIN s = 1..Len(s) /\ Len(s) \in Nat /\ DOMAIN Append(s, e) = 1..Len(s)+1
      /\ \A m \in 1..Len(s) : Append(s, e)[m] = s[m]
  OBVIOUS
<1>2. {l \in DOMAIN Append(s, e) : l < n} = {l \in DOMAIN s : l < n}  BY <1>1
<1>3. QED  BY <1>1, <1>2 DEF Before

LEMMA DistinctCount ==
  ASSUME NEW S, NEW s \in Seq(S), Distinct(s)
  PROVE  IsFiniteSet(Elements(s)) /\ Cardinality(Elements(s)) = Len(s)
<1>1. DOMAIN s = 1..Len(s) /\ Len(s) \in Nat /\ s \in [1..Len(s) -> S]  OBVIOUS
<1>2. s \in [1..Len(s) -> Elements(s)]  BY <1>1 DEF Elements
<1>3. s \in Bijection(1..Len(s), Elements(s))
  BY <1>1, <1>2 DEF Distinct, Elements, Bijection, Injection, Surjection, IsInjective
<1>4. ExistsBijection(1..Len(s), Elements(s))  BY <1>3 DEF ExistsBijection
<1>5. IsFiniteSet(1..Len(s)) /\ Cardinality(1..Len(s)) = Len(s)  BY <1>1, FS_Interval
<1>6. QED  BY <1>4, <1>5, FS_Bijection

-----------------------------------------------------------------------------
(* The graph of a block. *)

LEMMA GraphIs ==
  ASSUME graph \in AllGraphs
  PROVE  /\ graph.active \in Seq(Slots) /\ Distinct(graph.active)
         /\ Active = Elements(graph.active) /\ Active \subseteq Slots
         /\ IsFiniteSet(Active) /\ Cardinality(Active) = Len(graph.active)
         /\ \A j \in DOMAIN graph.routes :
              /\ graph.routes[j].src \in Active /\ graph.routes[j].dst \in Active
              /\ j \in Nat /\ j >= 1 /\ j <= Len(graph.routes)
         /\ Len(graph.routes) \in Nat /\ DOMAIN graph.routes = 1..Len(graph.routes)
         /\ \A s : Into(s) \subseteq DOMAIN graph.routes /\ IsFiniteSet(Into(s))
<1>1. /\ graph.active \in Seq(Slots) /\ Distinct(graph.active)
      /\ graph.routes \in Seq([src : Slots, dst : Slots])
      /\ \A i \in DOMAIN graph.routes : \E j, l \in DOMAIN graph.active :
           graph.active[j] = graph.routes[i].src /\ graph.active[l] = graph.routes[i].dst
  BY GraphsAssumption DEF Distinct
<1>2. Active = Elements(graph.active)  BY DEF Active, Elements
<1>3. Active \subseteq Slots  BY <1>1 DEF Active
<1>4. IsFiniteSet(Active) /\ Cardinality(Active) = Len(graph.active)  BY <1>1, <1>2, DistinctCount
<1>5. DOMAIN graph.routes = 1..Len(graph.routes) /\ Len(graph.routes) \in Nat  BY <1>1
<1>6. \A j \in DOMAIN graph.routes :
        /\ graph.routes[j].src \in Active /\ graph.routes[j].dst \in Active
        /\ j \in Nat /\ j >= 1 /\ j <= Len(graph.routes)
  BY <1>1, <1>5 DEF Active
<1>7. \A s : Into(s) \subseteq DOMAIN graph.routes  BY DEF Into
<1>8. IsFiniteSet(DOMAIN graph.routes)  BY <1>5, FS_Interval
<1>9. \A s : IsFiniteSet(Into(s))  BY <1>7, <1>8, FS_Subset
<1>10. QED  BY <1>1, <1>2, <1>3, <1>4, <1>5, <1>6, <1>7, <1>9

\* One route less to count.
LEMMA OneLess ==
  ASSUME NEW A, IsFiniteSet(A), NEW j \in A
  PROVE  /\ IsFiniteSet(A \ {j}) /\ Cardinality(A \ {j}) = Cardinality(A) - 1
         /\ Cardinality(A) \in Nat /\ Cardinality(A) >= 1
         /\ Cardinality(A) = 1 <=> A \ {j} = {}
<1>1. IsFiniteSet(A \ {j}) /\ Cardinality(A \ {j}) = Cardinality(A) - 1  BY FS_RemoveElement
<1>2. Cardinality(A) \in Nat /\ Cardinality(A \ {j}) \in Nat  BY <1>1, FS_CardinalityType
<1>3. Cardinality(A \ {j}) = 0 <=> A \ {j} = {}  BY <1>1, FS_EmptySet
<1>4. QED  BY <1>1, <1>2, <1>3

-----------------------------------------------------------------------------
(* compute_order. *)

\* Steps outside compute_order: while it runs they change none of its state.
LEMMA AloneRests ==
  ASSUME AloneInv, UNCHANGED aloneVars, phase = "idle" \/ graph' = graph,
         graph' \in AllGraphs, pc' \in [Threads -> Labels],
         pc'[audio] = "alone" <=> pc[audio] = "alone"
  PROVE  AloneInv'
<1>1. UNCHANGED <<phase, at, over, indeg, order>>  BY DEF aloneVars
<1>2. AloneTyped'  BY <1>1 DEF AloneInv, AloneTyped
<1>3. CASE phase = "idle"
  BY <1>1, <1>2, <1>3 DEF AloneInv, Ordered, Rooted, Following, Left, Resting
<1>4. CASE graph' = graph
  BY <1>1, <1>2, <1>4
     DEF AloneInv, Ordered, Rooted, Following, Left, Resting, Passed, Sourced, Into, Active
<1>5. QED  BY <1>3, <1>4

LEMMA BeginInv ==
  ASSUME AloneInv, NEW g \in AllGraphs, StartAlone(g)
  PROVE  AloneInv'
<1>1. /\ phase = "idle" /\ graph' = g /\ order' = << >> /\ phase' = "roots" /\ at' = 1 /\ over' = 1
      /\ indeg' = [s \in Slots |->
                    Cardinality({j \in DOMAIN g.routes : g.routes[j].dst = s})]
      /\ pc' = [pc EXCEPT ![audio] = "alone"] /\ pc[audio] = "idle"
  <2>1. Alone!Begin(g) /\ Goto(audio, "alone") /\ pc[audio] = "idle"  BY DEF StartAlone, CanStart
  <2>2. /\ phase = "idle" /\ graph' = g /\ order' = << >> /\ phase' = "roots" /\ at' = 1 /\ over' = 1
    BY <2>1 DEF Alone!Begin
  <2>3. indeg' = [s \in Slots |->
                    Cardinality({j \in DOMAIN g.routes : g.routes[j].dst = s})]
    BY <2>1 DEF Alone!Begin, Alone!Cardinality, Cardinality
  <2>4. QED  BY <2>1, <2>2, <2>3 DEF Goto
<1>2. audio \in Threads  BY DEF Threads
<1>3. \A s : IsFiniteSet({j \in DOMAIN g.routes : g.routes[j].dst = s})
  <2>1. g.routes \in Seq([src : Slots, dst : Slots])  BY GraphsAssumption
  <2>2. IsFiniteSet(DOMAIN g.routes)  BY <2>1, FS_Interval
  <2>3. QED  BY <2>2, FS_Subset
<1>4. indeg' \in [Slots -> Nat]  BY <1>1, <1>3, FS_CardinalityType
<1>5. \A s \in Slots : indeg'[s] = Cardinality(Into(s)')  BY <1>1 DEF Into
<1>6. AloneTyped'  BY <1>1, <1>2, <1>4 DEF AloneInv, AloneTyped, Labels
<1>7. Elements(order') = {} /\ Distinct(order')  BY <1>1 DEF Elements, Distinct
<1>8. Before(graph'.active, at') = {}
  <2>1. g.active \in Seq(Slots)  BY GraphsAssumption
  <2>2. QED  BY <1>1, <2>1, BeforeIs
<1>9. Rooted'  BY <1>1, <1>5, <1>7, <1>8 DEF Rooted
<1>10. Ordered'  BY <1>1, <1>7 DEF Ordered
<1>11. QED  BY <1>1, <1>6, <1>9, <1>10 DEF AloneInv, Following, Left, Resting

\* The steps of compute_order move nothing but its own state.
LEMMA OrderTyped ==
  ASSUME AloneInv, graph' = graph, pc' = pc, phase # "idle",
         phase' \in {"roots", "follow", "rest", "compute"},
         at' \in Nat \ {0}, over' \in Nat \ {0}, order' \in Seq(Slots), indeg' \in [Slots -> Nat]
  PROVE  AloneTyped'
BY DEF AloneInv, AloneTyped

LEMMA RootsInv ==
  ASSUME AloneInv, Alone!Roots, pc' = pc
  PROVE  AloneInv'
<1> DEFINE a == graph.active[at]
<1>1. /\ phase = "roots" /\ at \in DOMAIN graph.active /\ a \in Active /\ a \in Slots
      /\ order' = IF indeg[a] = 0 THEN Append(order, a) ELSE order
      /\ at' = at + 1 /\ UNCHANGED <<graph, phase, over, indeg>>
      /\ order \in Seq(Slots) /\ at \in Nat \ {0} /\ over \in Nat \ {0} /\ indeg \in [Slots -> Nat]
  <2>1. graph \in AllGraphs /\ at \in Nat \ {0} /\ at <= Len(graph.active)
    BY DEF AloneInv, AloneTyped, Alone!Roots
  <2>2. graph.active \in Seq(Slots) /\ Active \subseteq Slots  BY <2>1, GraphIs
  <2>3. at \in DOMAIN graph.active  BY <2>1, <2>2
  <2>4. a \in Active  BY <2>3 DEF Active
  <2>5. QED  BY <2>2, <2>3, <2>4 DEF Alone!Roots, AloneInv, AloneTyped
<1>2. /\ graph.active \in Seq(Slots) /\ Distinct(graph.active) /\ \A s : IsFiniteSet(Into(s))
      /\ Active \subseteq Slots /\ Active = Elements(graph.active)
  BY GraphIs DEF AloneInv, AloneTyped
<1>3. Before(graph.active, at + 1) = Before(graph.active, at) \cup {a}
      /\ a \notin Before(graph.active, at) /\ Before(graph.active, at) \subseteq Active
  <2>1. Before(graph.active, at + 1) = Before(graph.active, at) \cup {a}
        /\ Before(graph.active, at) \subseteq Active
    BY <1>1, <1>2, BeforeIs
  <2>2. ASSUME NEW l \in DOMAIN graph.active, graph.active[l] = a PROVE ~(l < at)
    <3>1. l = at  BY <1>1, <1>2, <2>2 DEF Distinct
    <3>2. QED  BY <1>1, <3>1
  <2>4. a \notin Before(graph.active, at)  BY <2>2 DEF Before
  <2>3. QED  BY <2>1, <2>4
<1>4. /\ Elements(order) = {s \in Before(graph.active, at) : indeg[s] = 0}
      /\ \A s \in Slots : indeg[s] = Cardinality(Into(s))
      /\ Distinct(order) /\ Elements(order) \subseteq Active
      /\ \A m \in DOMAIN order : indeg[order[m]] = 0 => Sourced(m)
  BY <1>1 DEF AloneInv, Rooted, Ordered
<1>5. order' \in Seq(Slots)  BY <1>1
<1>6. AloneTyped'  BY <1>1, <1>5, OrderTyped
<1>7. Elements(order') = {s \in Before(graph.active, at + 1) : indeg[s] = 0} /\ Distinct(order')
  <2>1. CASE indeg[a] = 0
    <3>1. a \notin Elements(order)  BY <1>3, <1>4
    <3>2. Elements(order') = Elements(order) \cup {a} /\ Distinct(order')
      BY <1>1, <1>4, <2>1, <3>1, AppendElements
    <3>3. QED  BY <1>3, <1>4, <2>1, <3>2
  <2>2. CASE indeg[a] # 0  BY <1>1, <1>3, <1>4, <2>2
  <2>3. QED  BY <2>1, <2>2
<1>8. Rooted'  BY <1>1, <1>4, <1>7 DEF Rooted, Into
<1>9. Ordered'
  <2>1. Elements(order') \subseteq Active  BY <1>1, <1>3, <1>7
  <2>2. ASSUME NEW m \in DOMAIN order', indeg'[order'[m]] = 0 PROVE Sourced(m)'
    <3>1. PICK s \in Slots : s = order'[m]  BY <1>5
    <3>2. Cardinality(Into(s)) = 0  BY <1>1, <1>4, <2>2, <3>1
    <3>3. Into(s) = {}  BY <1>2, <3>2, FS_EmptySet
    <3>4. {i \in DOMAIN graph'.routes : graph'.routes[i].dst = order'[m]} = {}
      BY <1>1, <3>1, <3>3 DEF Into
    <3>5. QED  BY <3>4 DEF Sourced, Into
  <2>3. QED  BY <1>1, <1>7, <2>1, <2>2 DEF Ordered, Active
<1>10. QED  BY <1>1, <1>6, <1>8, <1>9 DEF AloneInv, Following, Left, Resting

LEMMA RootsDoneInv ==
  ASSUME AloneInv, Alone!RootsDone, pc' = pc
  PROVE  AloneInv'
<1>1. /\ phase = "roots" /\ phase' = "follow" /\ at' = 1 /\ over' = 1
      /\ UNCHANGED <<graph, indeg, order>> /\ at > Len(graph.active)
      /\ order \in Seq(Slots) /\ at \in Nat \ {0} /\ indeg \in [Slots -> Nat]
  BY DEF Alone!RootsDone, AloneInv, AloneTyped
<1>2. graph.active \in Seq(Slots) /\ Active = Elements(graph.active)
      /\ \A s : Into(s) \subseteq DOMAIN graph.routes
      /\ \A j \in DOMAIN graph.routes : j \in Nat /\ j >= 1
  BY GraphIs DEF AloneInv, AloneTyped
<1>3. AloneTyped'  BY <1>1, OrderTyped
<1>4. Before(graph.active, at) = Active  BY <1>1, <1>2, BeforeIs
<1>5. \A j \in DOMAIN graph.routes : ~Passed(j)'
  <2>1. SUFFICES ASSUME NEW j \in DOMAIN graph.routes, NEW m \in DOMAIN order
                 PROVE  ~(m < 1 \/ (m = 1 /\ j < 1))
    BY <1>1 DEF Passed
  <2>2. DOMAIN order = 1..Len(order) /\ Len(order) \in Nat  BY <1>1
  <2>4. m \in Nat /\ m >= 1  BY <2>2
  <2>5. j \in Nat /\ j >= 1  BY <1>2
  <2>3. QED  BY <2>4, <2>5
<1>6. \A s \in Slots : {j \in Into(s) : ~Passed(j)}' = Into(s)
  BY <1>1, <1>2, <1>5 DEF Into
<1>7. Following'  BY <1>1, <1>4, <1>6 DEF AloneInv, Rooted, Following, Active
<1>8. Ordered'  BY <1>1 DEF AloneInv, Ordered, Active, Sourced, Into
<1>9. QED  BY <1>1, <1>3, <1>7, <1>8 DEF AloneInv, Rooted, Left, Resting

LEMMA FollowTypes ==
  ASSUME AloneInv, phase = "follow"
  PROVE  /\ order \in Seq(Slots) /\ at \in Nat \ {0} /\ over \in Nat \ {0} /\ indeg \in [Slots -> Nat]
         /\ DOMAIN order = 1..Len(order) /\ Len(order) \in Nat
         /\ Distinct(order) /\ Elements(order) \subseteq Active /\ Active \subseteq Slots
         /\ \A m \in DOMAIN order : m \in Nat /\ order[m] \in Elements(order)
         /\ \A m \in DOMAIN order : indeg[order[m]] = 0 => Sourced(m)
         /\ \A s \in Slots : indeg[s] = Cardinality({j \in Into(s) : ~Passed(j)})
         /\ Elements(order) = {s \in Active : indeg[s] = 0}
         /\ \A s : IsFiniteSet(Into(s)) /\ Into(s) \subseteq DOMAIN graph.routes
         /\ \A j \in DOMAIN graph.routes :
              /\ graph.routes[j].src \in Active /\ graph.routes[j].dst \in Active
              /\ j \in Nat /\ j >= 1 /\ j <= Len(graph.routes)
         /\ Len(graph.routes) \in Nat /\ DOMAIN graph.routes = 1..Len(graph.routes)
<1>1. /\ graph \in AllGraphs
      /\ order \in Seq(Slots) /\ at \in Nat \ {0} /\ over \in Nat \ {0} /\ indeg \in [Slots -> Nat]
  BY DEF AloneInv, AloneTyped
<1>2. /\ Distinct(order) /\ Elements(order) \subseteq Active
      /\ \A m \in DOMAIN order : indeg[order[m]] = 0 => Sourced(m)
      /\ \A s \in Slots : indeg[s] = Cardinality({j \in Into(s) : ~Passed(j)})
      /\ Elements(order) = {s \in Active : indeg[s] = 0}
  BY DEF AloneInv, Ordered, Following
<1>3. DOMAIN order = 1..Len(order) /\ Len(order) \in Nat  BY <1>1
<1>4. \A m \in DOMAIN order : m \in Nat /\ order[m] \in Elements(order)  BY <1>3 DEF Elements
<1>5. QED  BY <1>1, <1>2, <1>3, <1>4, GraphIs

\* Route `over` of the head: its destination has one route less to wait for.
LEMMA FollowHead ==
  ASSUME AloneInv, Alone!Follow, pc' = pc, graph.routes[over].src = order[at]
  PROVE  AloneInv'
<1>0. PICK d : d = graph.routes[over].dst  OBVIOUS
<1>1. /\ phase = "follow" /\ UNCHANGED <<graph, phase, at>> /\ over' = over + 1
      /\ at <= Len(order) /\ over <= Len(graph.routes)
      /\ indeg' = [indeg EXCEPT ![d] = @ - 1]
      /\ order' = IF indeg[d] = 1 THEN Append(order, d) ELSE order
  BY <1>0 DEF Alone!Follow
<1>2. /\ order \in Seq(Slots) /\ at \in Nat \ {0} /\ over \in Nat \ {0} /\ indeg \in [Slots -> Nat]
      /\ DOMAIN order = 1..Len(order) /\ Len(order) \in Nat
      /\ Distinct(order) /\ Elements(order) \subseteq Active /\ Active \subseteq Slots
      /\ \A m \in DOMAIN order : m \in Nat /\ order[m] \in Elements(order)
      /\ \A m \in DOMAIN order : indeg[order[m]] = 0 => Sourced(m)
      /\ \A s \in Slots : indeg[s] = Cardinality({j \in Into(s) : ~Passed(j)})
      /\ Elements(order) = {s \in Active : indeg[s] = 0}
      /\ \A s : IsFiniteSet(Into(s)) /\ Into(s) \subseteq DOMAIN graph.routes
      /\ \A j \in DOMAIN graph.routes :
           /\ graph.routes[j].src \in Active /\ graph.routes[j].dst \in Active
           /\ j \in Nat /\ j >= 1 /\ j <= Len(graph.routes)
      /\ Len(graph.routes) \in Nat /\ DOMAIN graph.routes = 1..Len(graph.routes)
  BY <1>1, FollowTypes
<1>3. over \in DOMAIN graph.routes /\ at \in DOMAIN order /\ d \in Active /\ d \in Slots
      /\ over \in Into(d)
  <2>1. over \in DOMAIN graph.routes /\ at \in DOMAIN order  BY <1>1, <1>2
  <2>2. d \in Active /\ d \in Slots  BY <1>0, <1>2, <2>1
  <2>3. QED  BY <1>0, <2>1, <2>2 DEF Into
<1>4. ~Passed(over)
  <2>1. SUFFICES ASSUME NEW m \in DOMAIN order, order[m] = graph.routes[over].src,
                        m < at \/ (m = at /\ over < over)
                 PROVE  FALSE
    BY DEF Passed
  <2>2. m = at  BY <1>2, <1>3, <2>1 DEF Distinct
  <2>3. QED  BY <1>2, <2>1, <2>2
<1>5. /\ \A n \in DOMAIN order : n \in DOMAIN order' /\ order'[n] = order[n]
      /\ \A n \in DOMAIN order' : n \in DOMAIN order \/ n = Len(order) + 1
      /\ order' \in Seq(Slots)
  BY <1>1, <1>2, <1>3, AppendElements
<1>6. ASSUME NEW j \in DOMAIN graph.routes
      PROVE  Passed(j)' <=> (Passed(j) \/ j = over)
  <2>1. ASSUME Passed(j)' PROVE Passed(j) \/ j = over
    <3>1. PICK m \in DOMAIN order' : /\ order'[m] = graph.routes[j].src
                                     /\ m < at \/ (m = at /\ j < over + 1)
      BY <1>1, <2>1 DEF Passed
    <3>2. m \in DOMAIN order  BY <1>1, <1>2, <1>5, <3>1
    <3>3. order[m] = graph.routes[j].src  BY <1>5, <3>1, <3>2
    <3>4. j < over + 1 <=> j < over \/ j = over  BY <1>2
    <3>5. QED  BY <3>1, <3>2, <3>3, <3>4 DEF Passed
  <2>2. ASSUME Passed(j) PROVE Passed(j)'
    <3>1. PICK m \in DOMAIN order : /\ order[m] = graph.routes[j].src
                                    /\ m < at \/ (m = at /\ j < over)
      BY <2>2 DEF Passed
    <3>2. m \in DOMAIN order' /\ order'[m] = graph.routes[j].src  BY <1>5, <3>1
    <3>3. m < at \/ (m = at /\ j < over + 1)  BY <1>2, <3>1
    <3>4. QED  BY <1>1, <3>2, <3>3 DEF Passed
  <2>3. ASSUME j = over PROVE Passed(j)'
    <3>1. at \in DOMAIN order' /\ order'[at] = graph.routes[j].src  BY <1>3, <1>5, <2>3
    <3>2. at = at /\ j < over + 1  BY <1>2, <2>3
    <3>3. QED  BY <1>1, <3>1, <3>2 DEF Passed
  <2>4. QED  BY <2>1, <2>2, <2>3
<1> DEFINE Waits(s) == {j \in Into(s) : ~Passed(j)}
<1>7. \A s : Waits(s)' = Waits(s) \ {over}
  BY <1>1, <1>2, <1>6 DEF Into
<1>8. Waits(d)' = Waits(d) \ {over} /\ \A s \in Slots : s # d => Waits(s)' = Waits(s)
  <2>1. \A s \in Slots : s # d => over \notin Into(s)  BY <1>0 DEF Into
  <2>2. QED  BY <1>7, <2>1
<1>9. /\ Cardinality(Waits(d) \ {over}) = indeg[d] - 1 /\ indeg[d] >= 1
      /\ indeg[d] = 1 <=> Waits(d) \ {over} = {}
  <2>1. over \in Waits(d) /\ IsFiniteSet(Waits(d))  BY <1>2, <1>3, <1>4, FS_Subset
  <2>2. indeg[d] = Cardinality(Waits(d))  BY <1>2, <1>3
  <2>3. QED  BY ZenonT(30), <2>1, <2>2, OneLess
<1>10. \A s \in Slots : indeg'[s] = Cardinality(Waits(s)')
  BY <1>1, <1>2, <1>3, <1>8, <1>9
<1>11. indeg' \in [Slots -> Nat]
  <2>1. indeg[d] - 1 \in Nat  BY <1>2, <1>3, <1>9
  <2>2. QED  BY <1>1, <1>2, <2>1
<1>12. AloneTyped'  BY <1>1, <1>2, <1>5, <1>11, OrderTyped
<1>13. d \notin Elements(order)  BY <1>2, <1>9
<1>14. /\ Elements(order') = {s \in Active : indeg'[s] = 0}
       /\ Distinct(order') /\ Elements(order') \subseteq Active
  <2>1. CASE indeg[d] = 1
    <3>1. order' = Append(order, d)  BY <1>1, <2>1
    <3>2. Elements(order') = Elements(order) \cup {d} /\ Distinct(order')
      BY <1>2, <1>3, <1>13, <3>1, AppendElements
    <3>3. indeg'[d] = 0 /\ \A s \in Slots : s # d => indeg'[s] = indeg[s]
      BY <1>1, <1>2, <1>3, <2>1
    <3>4. QED  BY <1>2, <1>3, <3>2, <3>3
  <2>2. CASE indeg[d] # 1
    <3>1. order' = order  BY <1>1, <2>2
    <3>2. indeg'[d] # 0 /\ indeg[d] # 0 /\ \A s \in Slots : s # d => indeg'[s] = indeg[s]
      BY <1>1, <1>2, <1>3, <1>9, <2>2
    <3>3. QED  BY <1>2, <1>3, <3>1, <3>2
  <2>3. QED  BY <2>1, <2>2
<1>15. ASSUME NEW m \in DOMAIN order', indeg'[order'[m]] = 0 PROVE Sourced(m)'
  <2>1. CASE m \in DOMAIN order
    <3>1. order'[m] = order[m] /\ order[m] \in Elements(order)  BY <1>2, <1>5, <2>1
    <3>2. indeg[order[m]] = 0  BY <1>2, <3>1
    <3>3. Sourced(m)  BY <1>2, <2>1, <3>2
    <3>4. \A n \in 1..m-1 : n \in DOMAIN order  BY <1>2, <2>1
    <3>5. QED  BY <1>1, <1>5, <3>1, <3>3, <3>4 DEF Sourced, Into
  <2>2. CASE m = Len(order) + 1 /\ indeg[d] = 1
    <3>1. order'[m] = d  BY <1>1, <1>2, <1>3, <2>2, AppendElements
    <3>2. Waits(d) \ {over} = {}  BY <1>9, <2>2
    <3>3. ASSUME NEW j \in Into(d)
          PROVE  \E n \in 1..m-1 : order'[n] = graph.routes[j].src
      <4>1. j \in DOMAIN graph.routes  BY <1>2
      <4>2. Passed(j) \/ j = over  BY <3>2
      <4>3. Passed(j)'  BY <1>6, <4>1, <4>2
      <4>4. PICK n \in DOMAIN order' : /\ order'[n] = graph.routes[j].src
                                       /\ n < at \/ (n = at /\ j < over + 1)
        BY <1>1, <4>3 DEF Passed
      <4>5. n \in DOMAIN order  BY <1>1, <1>2, <1>5, <4>4
      <4>6. n \in 1..m-1  BY <1>2, <2>2, <4>5
      <4>7. QED  BY <4>4, <4>6
    <3>4. Into(d)' = Into(d)  BY <1>1 DEF Into
    <3>5. QED  BY <1>1, <3>1, <3>3 DEF Sourced, Into
  <2>3. CASE m = Len(order) + 1 /\ indeg[d] # 1  BY <1>1, <1>2, <2>3
  <2>4. QED  BY <1>5, <2>1, <2>2, <2>3
<1>16. Following'
  <2>1. \A s \in Slots : indeg'[s] = Cardinality({j \in Into(s) : ~Passed(j)})'  BY <1>10
  <2>2. Active' = Active  BY <1>1 DEF Active
  <2>3. Elements(order)' = {s \in Active : indeg[s] = 0}'  BY <1>14, <2>2
  <2>4. QED  BY <2>1, <2>3 DEF Following
<1>17. Ordered'  BY <1>1, <1>14, <1>15 DEF Ordered, Active
<1>18. QED  BY <1>1, <1>12, <1>16, <1>17 DEF AloneInv, Rooted, Left, Resting

\* A route of another instance, or the next head: nothing is counted.
LEMMA NotCounted ==
  ASSUME AloneInv, phase = "follow", UNCHANGED <<graph, phase, indeg, order, pc>>,
         at' \in Nat \ {0}, over' \in Nat \ {0},
         \A j \in DOMAIN graph.routes : Passed(j)' <=> Passed(j)
  PROVE  AloneInv'
<1>1. \A s : Into(s) \subseteq DOMAIN graph.routes  BY FollowTypes
<1>2. AloneTyped'  BY FollowTypes, OrderTyped
<1>3. \A s \in Slots : {j \in Into(s) : ~Passed(j)}' = {j \in Into(s) : ~Passed(j)}
  BY <1>1 DEF Into
<1>4. Following'  BY <1>3, FollowTypes DEF Following, Active
<1>5. Ordered'  BY DEF AloneInv, Ordered, Active, Sourced, Into
<1>6. QED  BY <1>2, <1>4, <1>5 DEF AloneInv, Rooted, Left, Resting

LEMMA FollowInv ==
  ASSUME AloneInv, Alone!Follow, pc' = pc
  PROVE  AloneInv'
<1>1. CASE graph.routes[over].src = order[at]  BY <1>1, FollowHead
<1>2. CASE graph.routes[over].src # order[at]
  <2>1. /\ phase = "follow" /\ UNCHANGED <<graph, phase, at, indeg, order>> /\ over' = over + 1
    BY <1>2 DEF Alone!Follow
  <2>2. /\ at \in Nat \ {0} /\ over \in Nat \ {0}
        /\ \A j \in DOMAIN graph.routes : j \in Nat /\ j >= 1
    BY <2>1, FollowTypes
  <2>3. ASSUME NEW j \in DOMAIN graph.routes PROVE Passed(j)' <=> Passed(j)
    <3>1. j < over + 1 <=> j < over \/ j = over  BY <2>2
    <3>2. QED  BY <1>2, <2>1, <3>1 DEF Passed
  <2>4. QED  BY <2>1, <2>2, <2>3, NotCounted
<1>3. QED  BY <1>1, <1>2

LEMMA NextHeadInv ==
  ASSUME AloneInv, Alone!NextHead, pc' = pc
  PROVE  AloneInv'
<1>1. /\ phase = "follow" /\ UNCHANGED <<graph, phase, indeg, order>> /\ at' = at + 1 /\ over' = 1
      /\ over > Len(graph.routes)
  BY DEF Alone!NextHead
<1>2. /\ at \in Nat \ {0} /\ over \in Nat \ {0} /\ Len(graph.routes) \in Nat
      /\ \A j \in DOMAIN graph.routes : j \in Nat /\ j >= 1 /\ j <= Len(graph.routes)
      /\ \A m \in DOMAIN order : m \in Nat
  BY <1>1, FollowTypes
<1>3. ASSUME NEW j \in DOMAIN graph.routes PROVE Passed(j)' <=> Passed(j)
  <2>1. j < over /\ ~(j < 1)  BY <1>1, <1>2
  <2>2. \A m \in DOMAIN order : m < at + 1 <=> m < at \/ m = at  BY <1>2
  <2>3. QED  BY <1>1, <2>1, <2>2 DEF Passed
<1>4. QED  BY <1>1, <1>2, <1>3, NotCounted

\* Every head was passed: what is left waits for something that is left.
LEMMA FollowDoneInv ==
  ASSUME AloneInv, Alone!FollowDone, pc' = pc
  PROVE  AloneInv'
<1>1. /\ phase = "follow" /\ UNCHANGED <<graph, indeg, order>> /\ at' = 1 /\ over' = 1
      /\ at > Len(order)
      /\ phase' = IF Len(order) < Len(graph.active) THEN "rest" ELSE "compute"
  BY DEF Alone!FollowDone
<1>2. /\ order \in Seq(Slots) /\ at \in Nat \ {0} /\ indeg \in [Slots -> Nat]
      /\ DOMAIN order = 1..Len(order) /\ Len(order) \in Nat
      /\ Distinct(order) /\ Elements(order) \subseteq Active /\ Active \subseteq Slots
      /\ \A m \in DOMAIN order : m \in Nat /\ order[m] \in Elements(order)
      /\ \A s \in Slots : indeg[s] = Cardinality({j \in Into(s) : ~Passed(j)})
      /\ Elements(order) = {s \in Active : indeg[s] = 0}
      /\ \A s : Into(s) \subseteq DOMAIN graph.routes
      /\ \A j \in DOMAIN graph.routes : graph.routes[j].src \in Active
  BY <1>1, FollowTypes
<1>3. graph.active \in Seq(Slots) /\ Active = Elements(graph.active) /\ IsFiniteSet(Active)
      /\ Cardinality(Active) = Len(graph.active)
  BY GraphIs DEF AloneInv, AloneTyped
<1>4. AloneTyped'  BY <1>1, <1>2, OrderTyped
<1>5. ASSUME NEW s \in Active, indeg[s] # 0
      PROVE  \E j \in Into(s) : indeg[graph.routes[j].src] # 0
  <2>1. {j \in Into(s) : ~Passed(j)} # {}  BY <1>2, <1>5, FS_EmptySet
  <2>2. PICK j \in Into(s) : ~Passed(j)  BY <2>1
  <2>3. \A m \in DOMAIN order : order[m] # graph.routes[j].src  BY <1>1, <1>2, <2>2 DEF Passed
  <2>4. graph.routes[j].src \notin Elements(order) /\ graph.routes[j].src \in Active
    BY <1>2, <2>3 DEF Elements
  <2>5. QED  BY <1>2, <2>4
<1>6. Left'  BY <1>1, <1>5 DEF Left, Active, Into
<1>7. Ordered'  BY <1>1 DEF AloneInv, Ordered, Active, Sourced, Into
<1>8. CASE Len(order) < Len(graph.active)
  <2>1. phase' = "rest"  BY <1>1, <1>8
  <2>2. Before(graph'.active, at') = {}  BY <1>1, <1>3, BeforeIs
  <2>3. Resting'  BY <1>1, <1>2, <2>2 DEF Resting, Active
  <2>4. QED  BY <1>4, <1>6, <1>7, <2>1, <2>3 DEF AloneInv, Rooted, Following
<1>9. CASE ~(Len(order) < Len(graph.active))
  <2>1. phase' = "compute"  BY <1>1, <1>9
  <2>2. Cardinality(Elements(order)) = Len(order)  BY <1>2, DistinctCount
  <2>3. Cardinality(Elements(order)) <= Cardinality(Active)  BY <1>2, <1>3, FS_Subset
  <2>4. Len(graph.active) \in Nat  BY <1>3
  <2>5. Cardinality(Elements(order)) = Cardinality(Active)
    BY <1>2, <1>3, <1>9, <2>2, <2>3, <2>4
  <2>6. Elements(order) = Active  BY <1>2, <1>3, <2>5, FS_Subset
  <2>7. Elements(order') = Active'  BY <1>1, <2>6 DEF Active
  <2>8. QED  BY <1>4, <1>6, <1>7, <2>1, <2>7 DEF AloneInv, Rooted, Following, Resting
<1>10. QED  BY <1>8, <1>9

LEMMA RestInv ==
  ASSUME AloneInv, Alone!Rest, pc' = pc
  PROVE  AloneInv'
<1> DEFINE a == graph.active[at]
<1>1. /\ phase = "rest" /\ at <= Len(graph.active)
      /\ order' = IF indeg[a] > 0 THEN Append(order, a) ELSE order
      /\ at' = at + 1 /\ UNCHANGED <<graph, phase, over, indeg>>
      /\ order \in Seq(Slots) /\ at \in Nat \ {0} /\ over \in Nat \ {0} /\ indeg \in [Slots -> Nat]
  BY DEF Alone!Rest, AloneInv, AloneTyped
<1>2. graph.active \in Seq(Slots) /\ Active = Elements(graph.active) /\ Active \subseteq Slots
      /\ Distinct(graph.active)
  BY GraphIs DEF AloneInv, AloneTyped
<1>3. at \in DOMAIN graph.active /\ a \in Active /\ a \in Slots
  <2>1. at \in DOMAIN graph.active  BY <1>1, <1>2
  <2>2. QED  BY <1>2, <2>1 DEF Active
<1>4. Before(graph.active, at + 1) = Before(graph.active, at) \cup {a}
      /\ a \notin Before(graph.active, at)
  <2>1. Before(graph.active, at + 1) = Before(graph.active, at) \cup {a}
    BY <1>1, <1>2, <1>3, BeforeIs
  <2>2. ASSUME NEW l \in DOMAIN graph.active, graph.active[l] = a PROVE ~(l < at)
    <3>1. l = at  BY <1>2, <1>3, <2>2 DEF Distinct
    <3>2. QED  BY <1>1, <3>1
  <2>3. QED  BY <2>1, <2>2 DEF Before
<1>5. /\ Elements(order) = {s \in Active : indeg[s] = 0 \/ s \in Before(graph.active, at)}
      /\ Distinct(order) /\ \A m \in DOMAIN order : indeg[order[m]] = 0 => Sourced(m)
  BY <1>1 DEF AloneInv, Resting, Ordered
<1>6. /\ \A n \in DOMAIN order : n \in DOMAIN order' /\ order'[n] = order[n]
      /\ \A n \in DOMAIN order' : n \in DOMAIN order \/ (n = Len(order) + 1 /\ indeg[a] # 0 /\ order'[n] = a)
      /\ order' \in Seq(Slots)
  <2>1. CASE indeg[a] > 0
    <3>1. order' = Append(order, a) /\ indeg[a] # 0  BY <1>1, <2>1
    <3>2. QED  BY <1>1, <1>3, <3>1, AppendElements
  <2>2. CASE ~(indeg[a] > 0)  BY <1>1, <2>2
  <2>3. QED  BY <2>1, <2>2
<1>7. /\ Elements(order') = {s \in Active : indeg[s] = 0 \/ s \in Before(graph.active, at + 1)}
      /\ Distinct(order')
  <2>1. CASE indeg[a] > 0
    <3>1. order' = Append(order, a) /\ indeg[a] # 0  BY <1>1, <2>1
    <3>2. a \notin Elements(order)  BY <1>4, <1>5, <3>1
    <3>3. Elements(order') = Elements(order) \cup {a} /\ Distinct(order')
      BY <1>1, <1>3, <1>5, <3>1, <3>2, AppendElements
    <3>4. QED  BY <1>3, <1>4, <1>5, <3>1, <3>3
  <2>2. CASE ~(indeg[a] > 0)
    <3>1. order' = order /\ indeg[a] = 0  BY <1>1, <1>3, <2>2
    <3>2. QED  BY <1>3, <1>4, <1>5, <3>1
  <2>3. QED  BY <2>1, <2>2
<1>8. ASSUME NEW m \in DOMAIN order', indeg'[order'[m]] = 0 PROVE Sourced(m)'
  <2>1. m \in DOMAIN order /\ order'[m] = order[m] /\ Sourced(m)  BY <1>1, <1>5, <1>6, <1>8
  <2>2. \A n \in 1..m-1 : n \in DOMAIN order
    <3>1. DOMAIN order = 1..Len(order) /\ Len(order) \in Nat  BY <1>1
    <3>2. QED  BY <2>1, <3>1
  <2>3. QED  BY <1>1, <1>6, <2>1, <2>2 DEF Sourced, Into
<1>9. AloneTyped'  BY <1>1, <1>6, OrderTyped
<1>10. Resting'  BY <1>1, <1>7 DEF Resting, Active
<1>11. Ordered'  BY <1>1, <1>7, <1>8 DEF Ordered, Active
<1>12. Left'  BY <1>1 DEF AloneInv, Left, Active, Into
<1>13. QED  BY <1>1, <1>9, <1>10, <1>11, <1>12 DEF AloneInv, Rooted, Following

LEMMA RestDoneInv ==
  ASSUME AloneInv, Alone!RestDone, pc' = pc
  PROVE  AloneInv'
<1>1. /\ phase = "rest" /\ phase' = "compute" /\ at' = 1 /\ UNCHANGED <<graph, over, indeg, order>>
      /\ at > Len(graph.active) /\ at \in Nat \ {0} /\ over \in Nat \ {0}
      /\ order \in Seq(Slots) /\ indeg \in [Slots -> Nat]
  BY DEF Alone!RestDone, AloneInv, AloneTyped
<1>2. graph.active \in Seq(Slots) /\ Active = Elements(graph.active)
  BY GraphIs DEF AloneInv, AloneTyped
<1>3. AloneTyped'  BY <1>1, OrderTyped
<1>4. Before(graph.active, at) = Active  BY <1>1, <1>2, BeforeIs
<1>5. Elements(order') = Active'  BY <1>1, <1>4 DEF AloneInv, Resting, Active
<1>6. Ordered'  BY <1>1 DEF AloneInv, Ordered, Active, Sourced, Into
<1>7. Left'  BY <1>1 DEF AloneInv, Left, Active, Into
<1>8. QED  BY <1>1, <1>3, <1>5, <1>6, <1>7 DEF AloneInv, Rooted, Following, Resting

LEMMA ComputeAloneInv ==
  ASSUME AloneInv, ComputeAlone
  PROVE  AloneInv'
<1>1. /\ phase = "compute" /\ UNCHANGED <<graph, phase, over, indeg, order, pc>> /\ at' = at + 1
      /\ order \in Seq(Slots) /\ at \in Nat \ {0} /\ over \in Nat \ {0} /\ indeg \in [Slots -> Nat]
  BY DEF ComputeAlone, Alone!Compute, AloneInv, AloneTyped
<1>2. AloneTyped'  BY <1>1, OrderTyped
<1>3. Ordered' /\ Left' /\ (phase' = "compute" => Elements(order') = Active')
  BY <1>1 DEF AloneInv, Ordered, Left, Active, Sourced, Into
<1>4. QED  BY <1>1, <1>2, <1>3 DEF AloneInv, Rooted, Following, Resting

LEMMA EndAloneInv ==
  ASSUME AloneInv, EndAlone
  PROVE  AloneInv'
<1>1. /\ phase' = "idle" /\ UNCHANGED <<graph, over, indeg>> /\ at' = 1 /\ order' = << >>
      /\ pc' = [pc EXCEPT ![audio] = "idle"] /\ pc \in [Threads -> Labels] /\ audio \in Threads
      /\ graph \in AllGraphs /\ over \in Nat \ {0} /\ indeg \in [Slots -> Nat]
  BY DEF EndAlone, Alone!End, Goto, AloneInv, AloneTyped, Threads
<1>2. AloneTyped'  BY <1>1 DEF AloneTyped, Labels
<1>3. QED  BY <1>1, <1>2 DEF AloneInv, Ordered, Rooted, Following, Left, Resting

\* A thread goes from one label to another, and compute_order's state rests.
LEMMA GotoRests ==
  ASSUME AloneInv, NEW t \in Threads, NEW l \in Labels \ {"alone"},
         pc[t] # "alone", Goto(t, l) \/ pc' = pc, UNCHANGED <<graph, aloneVars>>
  PROVE  AloneInv'
<1>1. pc \in [Threads -> Labels] /\ graph \in AllGraphs  BY DEF AloneInv, AloneTyped
<1>2. pc' \in [Threads -> Labels] /\ (pc'[audio] = "alone" <=> pc[audio] = "alone")
  BY <1>1 DEF Goto, Threads
<1>3. QED  BY <1>1, <1>2, AloneRests

LEMMA TaskRests ==
  ASSUME AloneInv, NEW t \in Threads, TaskStep(t)
  PROVE  AloneInv'
<1> USE DEF blockVars, taskVars, stopVars, Labels, InBlock, InTask
<1>1. CASE PopEmpty(t)
  <2>1. Again(t) \in {"help", "loop"}  BY DEF Again
  <2>2. QED  BY <1>1, <2>1, GotoRests DEF PopEmpty
<1>2. CASE Pop(t)  BY <1>2, GotoRests DEF Pop
<1>3. CASE Gather(t)  BY <1>3, GotoRests DEF Gather
<1>4. CASE Process(t)  BY <1>4, GotoRests DEF Process
<1>5. CASE Release(t)
  <2>1. /\ pc[t] = "release" /\ UNCHANGED <<graph, aloneVars>>
        /\ Goto(t, "push") \/ pc' = pc
    BY <1>5 DEF Release
  <2>2. QED  BY <2>1, GotoRests
<1>6. CASE PushReady(t)  BY <1>6, GotoRests DEF PushReady
<1>7. CASE Finish(t)
  <2>1. Again(t) \in {"help", "loop"}  BY DEF Again
  <2>2. QED  BY <1>7, <2>1, GotoRests DEF Finish
<1>8. QED  BY <1>1, <1>2, <1>3, <1>4, <1>5, <1>6, <1>7 DEF TaskStep

LEMMA AloneStep == AloneInv /\ [Next]_vars => AloneInv'
<1> SUFFICES ASSUME AloneInv, [Next]_vars PROVE AloneInv'  OBVIOUS
<1> USE DEF Labels, InBlock, InTask
<1>1. graph \in AllGraphs /\ pc \in [Threads -> Labels] /\ audio \in Threads /\ Workers \subseteq Threads
  BY DEF AloneInv, AloneTyped, Threads
<1>2. CASE UNCHANGED vars
  BY <1>1, <1>2, AloneRests DEF vars, blockVars
<1>3. ASSUME NEW g \in Available, StartBlock(g) PROVE AloneInv'
  <2>1. /\ pc[audio] = "idle" /\ graph' = g /\ pc' = [pc EXCEPT ![audio] = "count"]
        /\ UNCHANGED aloneVars
    BY <1>3 DEF StartBlock, CanStart, Goto
  <2>2. phase = "idle"  BY <2>1 DEF AloneInv, AloneTyped
  <2>3. g \in AllGraphs  BY DEF Available, AllGraphs
  <2>4. QED  BY <1>1, <2>1, <2>2, <2>3, AloneRests
<1>4. ASSUME NEW g \in Available, StartAlone(g) PROVE AloneInv'
  BY <1>4, BeginInv DEF Available, AllGraphs
<1>5. CASE OrderAlone
  <2>1. pc' = pc /\ Alone!Order  BY <1>5 DEF OrderAlone
  <2>2. QED
    BY <2>1, RootsInv, RootsDoneInv, FollowInv, NextHeadInv, FollowDoneInv, RestInv, RestDoneInv
       DEF Alone!Order
<1>6. CASE ComputeAlone \/ EndAlone  BY <1>6, ComputeAloneInv, EndAloneInv
<1>7. CASE CountDeps \/ SetRemaining \/ OpenBlock \/ SeedDone \/ CloseBlock
  BY <1>1, <1>7, GotoRests
     DEF CountDeps, SetRemaining, OpenBlock, SeedDone, CloseBlock, blockVars
<1>8. CASE SeedOne  BY <1>1, <1>8, GotoRests DEF SeedOne
<1>9. CASE Help
  <2>1. /\ pc[audio] = "help" /\ UNCHANGED <<graph, aloneVars>>
        /\ Goto(audio, "pop") \/ Goto(audio, "close")
    BY <1>9 DEF Help, blockVars
  <2>2. QED  BY <1>1, <2>1, GotoRests
<1>10. ASSUME NEW t \in Threads, TaskStep(t) PROVE AloneInv'  BY <1>10, TaskRests
<1>11. ASSUME NEW w \in Workers, Loop(w) \/ CheckBlock(w) PROVE AloneInv'
  <2>1. /\ pc[w] \in {"loop", "check"} /\ UNCHANGED <<graph, aloneVars>>
        /\ \E l \in {"loop", "check", "pop", "exited"} : Goto(w, l)
    BY <1>11 DEF Loop, CheckBlock, blockVars
  <2>2. QED  BY <1>1, <2>1, GotoRests
<1>12. CASE Stop \/ Joined
  BY <1>1, <1>12, AloneRests DEF Stop, Joined, blockVars
<1>13. QED
  BY <1>1, <1>2, <1>3, <1>4, <1>5, <1>6, <1>7, <1>8, <1>9, <1>10, <1>11, <1>12
     DEF Next, AudioStep, WorkerStep

LEMMA AloneStarts == Init => AloneInv
<1> SUFFICES ASSUME Init PROVE AloneInv  OBVIOUS
<1>1. /\ graph \in AllGraphs /\ phase = "idle" /\ at = 1 /\ over = 1
      /\ indeg = [s \in Slots |-> 0] /\ order = << >>
  BY DEF Init, Alone!Init, Available, AllGraphs
<1>2. pc \in [Threads -> Labels] /\ pc[audio] # "alone"
  BY DEF Init, Labels, Threads
<1>3. AloneTyped  BY <1>1, <1>2 DEF AloneTyped
<1>4. QED  BY <1>1, <1>3 DEF AloneInv, Ordered, Rooted, Following, Left, Resting

\* The order compute_order makes is one of all active instances, each once, for
\* any routes between them: cycles, loops and routes made twice included.
THEOREM OrderIsAlwaysPermutation == Spec => []OrderIsPermutation
<1>1. AloneInv => OrderIsPermutation
  BY DEF AloneInv, Ordered, OrderIsPermutation, Distinct, Elements
<1>2. QED  BY <1>1, AloneStarts, AloneStep, PTL DEF Spec

-----------------------------------------------------------------------------
(* Capacity of the ready queue. *)

LEMMA TwoToThe == ASSUME NEW n \in Nat PROVE 2^n \in Nat /\ 2^n >= n
<1>1. IsFiniteSet(1..n) /\ Cardinality(1..n) = n  BY FS_Interval
<1>2. IsFiniteSet(SUBSET (1..n)) /\ Cardinality(SUBSET (1..n)) = 2^n  BY <1>1, FS_SUBSET
<1> DEFINE f == [x \in 1..n |-> {x}]
<1>3. f \in Injection(1..n, SUBSET (1..n))  BY DEF Injection, IsInjective
<1>4. Cardinality(1..n) <= Cardinality(SUBSET (1..n))  BY <1>2, <1>3, FS_Injection
<1>5. Cardinality(SUBSET (1..n)) \in Nat  BY <1>2, FS_CardinalityType
<1>6. QED  BY <1>1, <1>2, <1>4, <1>5

LEMMA Least == ASSUME NEW S, S \subseteq Nat, S # {} PROVE \E x \in S : \A y \in S : x <= y
<1> DEFINE Less == {p \in Nat \X Nat : p[1] < p[2]}
<1>1. IsWellFoundedOn(Less, Nat)  BY NatLessThanWellFounded, Zenon DEF OpToRel
<1>2. PICK x \in S : \A y \in S : ~(<<y, x>> \in Less)
  <2> HIDE DEF Less
  <2>1. QED  BY <1>1, WFMin
<1>3. ASSUME NEW y \in S PROVE x <= y
  <2>1. x \in Nat /\ y \in Nat /\ <<y, x>> \in Nat \X Nat  OBVIOUS
  <2>2. <<y, x>>[1] = y /\ <<y, x>>[2] = x  OBVIOUS
  <2>3. ~(y < x)  BY <1>2, <2>1, <2>2
  <2>4. QED  BY <2>1, <2>3
<1>4. QED  BY <1>3

\* engine::start gives every slot of the pool a cell.
LEMMA QueueHoldsAll == IsFiniteSet(Slots) /\ Cardinality(Slots) \in Nat /\ Cardinality(Slots) <= QueueCapacity
                       /\ QueueCapacity \in Nat
<1>1. IsFiniteSet(Slots) /\ Cardinality(Slots) \in Nat  BY SlotsAssumption, FS_CardinalityType
<1>2. PICK n \in Nat : n = IF Cardinality(Slots) > 2 THEN Cardinality(Slots) ELSE 2  BY <1>1
<1> DEFINE S == {p \in PowersOf2(n) : p >= n}
<1>3. S \subseteq Nat  BY TwoToThe DEF PowersOf2
<1>4. 2^n \in S  BY TwoToThe DEF PowersOf2
<1>5. \E p \in S : \A q \in S : p <= q  BY <1>3, <1>4, Least
<1>6. \E p \in PowersOf2(n) : p >= n /\ \A q \in PowersOf2(n) : q >= n => q >= p
  BY <1>3, <1>5
<1>7. NextPow2(n) \in PowersOf2(n) /\ NextPow2(n) >= n  BY <1>6 DEF NextPow2
<1>8. NextPow2(n) \in Nat  BY <1>3, <1>7
<1>9. QueueCapacity = NextPow2(n)  BY <1>2 DEF QueueCapacity
<1>10. QED  BY <1>1, <1>2, <1>7, <1>8, <1>9

\* So a push of a task that is not queued always fits.
LEMMA PushFits ==
  ASSUME queue \in Seq(Slots), Distinct(queue), NEW s \in Slots, s \notin Elements(queue), Push(s)
  PROVE  queue' = Append(queue, s)
<1>1. Elements(queue) \subseteq Slots \ {s}
  <2>1. DOMAIN queue = 1..Len(queue)  OBVIOUS
  <2>2. QED  BY <2>1 DEF Elements
<1>2. IsFiniteSet(Slots \ {s}) /\ Cardinality(Slots \ {s}) = Cardinality(Slots) - 1
  BY QueueHoldsAll, FS_RemoveElement
<1>3. Cardinality(Elements(queue)) <= Cardinality(Slots) - 1  BY <1>1, <1>2, FS_Subset
<1>4. Cardinality(Elements(queue)) = Len(queue)  BY DistinctCount
<1>5. Len(queue) < QueueCapacity  BY <1>3, <1>4, QueueHoldsAll
<1>6. QED  BY <1>5 DEF Push

-----------------------------------------------------------------------------
(* The tasks of a block. *)

SeedingLabels == {"seed", "help", "pop", "close"} \cup InTask

LEMMA BlockTypes ==
  ASSUME TypeOK
  PROVE  /\ graph \in AllGraphs /\ dep \in [Slots -> Nat] /\ queue \in Seq(Slots)
         /\ tasks_remaining \in Nat /\ seeded \in Nat
         /\ pc \in [Threads -> Labels] /\ task \in [Threads -> Slots] /\ k \in [Threads -> Nat \ {0}]
         /\ output \in [Slots -> {"old", "writing", "done"}] /\ runs \in [Slots -> Nat]
         /\ audio \in Threads /\ Workers \subseteq Threads
BY DEF TypeOK, Threads, Available, AllGraphs

\* A step that moves no task: threads outside a task stay outside.
LEMMA TasksRest ==
  ASSUME UNCHANGED <<graph, queue, runs, output, task, k>>,
         \A t \in Threads : pc'[t] = pc[t] \/ (pc[t] \notin InTask /\ pc'[t] \notin InTask)
  PROVE  /\ \A t \in Threads : \A s : (Holds(t, s)' <=> Holds(t, s)) /\ (Pushes(t, s)' <=> Pushes(t, s))
         /\ \A s : (Ready(s)' <=> Ready(s)) /\ (Finished(s)' <=> Finished(s)) /\ Unmet(s)' = Unmet(s)
         /\ OnePlace => OnePlace'
         /\ Tasks => Tasks'
<1> USE DEF InTask
<1>1. ASSUME NEW t \in Threads, NEW s
      PROVE  (Holds(t, s)' <=> Holds(t, s)) /\ (Pushes(t, s)' <=> Pushes(t, s))
  BY DEF Holds, Pushes
<1>2. ASSUME NEW s PROVE (Ready(s)' <=> Ready(s)) /\ (Finished(s)' <=> Finished(s))
  BY <1>1 DEF Ready, Finished, Elements
<1>3. ASSUME NEW j PROVE Followed(j)' <=> Followed(j)
  <2>1. PICK s : s = graph.routes[j].src  OBVIOUS
  <2>2. \A t \in Threads : Holds(t, s)' <=> Holds(t, s)  BY <1>1
  <2>3. \A t \in Threads : Holds(t, s) => pc'[t] = pc[t]  BY DEF Holds
  <2>4. Followed(j) <=> /\ runs[s] > 0
                        /\ \A t \in Threads : Holds(t, s) =>
                             pc[t] \in {"release", "push"} /\ (j < k[t] \/ (j = k[t] /\ pc[t] = "push"))
    BY <2>1 DEF Followed
  <2>5. Followed(j)' <=> /\ runs'[s] > 0
                         /\ \A t \in Threads : Holds(t, s)' =>
                              pc'[t] \in {"release", "push"} /\ (j < k'[t] \/ (j = k'[t] /\ pc'[t] = "push"))
    BY <2>1 DEF Followed
  <2>6. QED  BY <2>2, <2>3, <2>4, <2>5
<1>4. ASSUME NEW s PROVE Unmet(s)' = Unmet(s)  BY <1>3 DEF Unmet, Into
<1>5. OnePlace => OnePlace'  BY <1>1 DEF OnePlace, Elements, Distinct
<1>6. Tasks => Tasks'  BY <1>2 DEF Tasks
<1>7. QED  BY <1>1, <1>2, <1>4, <1>5, <1>6

\* What is ready stays seeded, and has its inputs.
LEMMA SeededKept ==
  ASSUME Seeded, UNCHANGED <<graph, seeded>>,
         pc[audio] \in SeedingLabels => pc'[audio] \in SeedingLabels,
         \A s \in Slots : Ready(s)' => Ready(s),
         \A s \in Slots : Unmet(s)' \subseteq Unmet(s)
  PROVE  Seeded'
<1>1. ASSUME NEW s \in Slots, Ready(s)'
      PROVE  pc'[audio] \in SeedingLabels /\ Unmet(s)' = {} /\ s \in Before(graph'.active, seeded' + 1)
  BY <1>1 DEF Seeded, SeedingLabels
<1>2. QED  BY <1>1 DEF Seeded, SeedingLabels

LEMMA CountedKept ==
  ASSUME Counted, graph' = graph, graph \in AllGraphs, UNCHANGED <<dep, tasks_remaining>>,
         pc'[audio] = "count" => pc[audio] = "count",
         pc'[audio] \in {"count", "remaining"} => pc[audio] \in {"count", "remaining"},
         pc[audio] \in {"count", "remaining"} => pc'[audio] \in {"count", "remaining"},
         pc[audio] = "count" => pc'[audio] = "count",
         pc'[audio] = "close" => tasks_remaining = 0,
         \A s \in Slots : Unmet(s)' = Unmet(s),
         \A s \in Slots : Finished(s)' <=> Finished(s)
  PROVE  Counted'
<1>1. Active' = Active /\ Active \subseteq Slots  BY GraphIs DEF Active
<1>2. {s \in Active : ~Finished(s)}' = {s \in Active : ~Finished(s)}  BY <1>1
<1>3. \A s \in Active' : Cardinality(Unmet(s))' = Cardinality(Unmet(s))  BY <1>1
<1>4. QED  BY <1>1, <1>2, <1>3 DEF Counted

\* Before the seeding loop nothing is ready.
LEMMA NothingReady ==
  ASSUME TypeOK, BlockInv, pc[audio] \in {"count", "remaining", "open"}
  PROVE  /\ \A s \in Slots : ~Ready(s) /\ runs[s] = 0 /\ ~Finished(s)
         /\ \A j \in DOMAIN graph.routes : ~Followed(j)
         /\ \A s \in Slots : Unmet(s) = Into(s)
<1>1. ASSUME NEW s \in Slots PROVE ~Ready(s)
  BY DEF BlockInv, InBlock, Seeded, InTask
<1>2. \A s \in Slots : runs[s] = 0
  <2>1. \A s \in Slots : runs[s] \in Nat  BY BlockTypes
  <2>2. QED  BY <1>1, <2>1 DEF Ready
<1>3. \A s \in Slots : ~Finished(s)  BY <1>2 DEF Finished
<1>4. \A j \in DOMAIN graph.routes : graph.routes[j].src \in Slots  BY BlockTypes, GraphIs
<1>5. \A j \in DOMAIN graph.routes : ~Followed(j)  BY <1>2, <1>4 DEF Followed
<1>6. \A s \in Slots : Unmet(s) = Into(s)  BY <1>5 DEF Unmet, Into
<1>7. QED  BY <1>1, <1>2, <1>3, <1>5, <1>6

\* A new block finds nothing of the last one.
LEMMA StartBlockInv ==
  ASSUME TypeOK, BlockInv, NEW g \in Available, StartBlock(g)
  PROVE  BlockInv'
<1> USE DEF InBlock, InTask
<1>1. /\ pc[audio] = "idle" /\ pc' = [pc EXCEPT ![audio] = "count"] /\ graph' = g
      /\ UNCHANGED <<queue, task, k, pool>> /\ pool \in {"up", "joining"}
      /\ runs' = [s \in Slots |-> 0] /\ output' = [s \in Slots |-> "old"]
  BY DEF StartBlock, CanStart, InParallel, Goto, NothingComputed, stopVars
<1>2. g \in Graphs  BY <1>1 DEF Available
<1>3. queue' = << >> /\ \A t \in Threads : pc'[t] \notin InTask
  BY <1>1, BlockTypes DEF BlockInv
<1>4. Elements(queue') = {} /\ Distinct(queue')  BY <1>3 DEF Elements, Distinct
<1>5. \A t \in Threads : \A s : ~Holds(t, s)' /\ ~Pushes(t, s)'  BY <1>3 DEF Holds, Pushes
<1>6. \A s \in Slots : ~Ready(s)' /\ ~Finished(s)'  BY <1>1, <1>4, <1>5 DEF Ready, Finished
<1>7. OnePlace'  BY <1>4, <1>5 DEF OnePlace
<1>8. Tasks'  BY <1>1, <1>3, <1>6 DEF Tasks
<1>9. Seeded'  BY <1>6 DEF Seeded
<1>10. pc'[audio] = "count"  BY <1>1, BlockTypes
<1>11. Counted'  BY <1>10 DEF Counted
<1>12. QED  BY <1>1, <1>2, <1>7, <1>8, <1>9, <1>10, <1>11 DEF BlockInv

LEMMA CountDepsInv ==
  ASSUME TypeOK, BlockInv, CountDeps
  PROVE  BlockInv'
<1> USE DEF InBlock, InTask
<1>1. /\ pc[audio] = "count" /\ pc' = [pc EXCEPT ![audio] = "remaining"]
      /\ UNCHANGED <<graph, queue, task, k, output, runs, seeded, tasks_remaining>>
      /\ dep' = [s \in Slots |-> IF s \in Active THEN Cardinality(Into(s)) ELSE dep[s]]
  BY DEF CountDeps, Goto, taskVars
<1>2. pc'[audio] = "remaining" /\ \A t \in Threads : t # audio => pc'[t] = pc[t]
  BY <1>1, BlockTypes
<1>3. \A t \in Threads : pc'[t] = pc[t] \/ (pc[t] \notin InTask /\ pc'[t] \notin InTask)
  BY <1>1, <1>2
<1>4. graph \in Graphs /\ OnePlace /\ Tasks /\ Seeded  BY <1>1 DEF BlockInv
<1>5. \A s \in Slots : ~Ready(s) /\ Unmet(s) = Into(s)  BY <1>1, NothingReady
<1>6. /\ \A s \in Slots : ~Ready(s)' /\ Unmet(s)' = Unmet(s)
      /\ OnePlace' /\ Tasks'
  BY <1>1, <1>3, <1>4, <1>5, TasksRest
<1>7. Seeded'  BY <1>6 DEF Seeded
<1>8. Active \subseteq Slots /\ Active' = Active  BY <1>1, BlockTypes, GraphIs DEF Active
<1>9. \A s \in Active : dep'[s] = Cardinality(Unmet(s)')  BY <1>1, <1>5, <1>6, <1>8
<1>10. Counted'  BY <1>2, <1>8, <1>9 DEF Counted
<1>11. QED  BY <1>1, <1>2, <1>4, <1>6, <1>7, <1>10 DEF BlockInv

LEMMA SetRemainingInv ==
  ASSUME TypeOK, BlockInv, SetRemaining
  PROVE  BlockInv'
<1> USE DEF InBlock, InTask
<1>1. /\ pc[audio] = "remaining" /\ pc' = [pc EXCEPT ![audio] = "open"]
      /\ UNCHANGED <<graph, queue, task, k, output, runs, seeded, dep>>
      /\ tasks_remaining' = Len(graph.active)
  BY DEF SetRemaining, Goto, taskVars
<1>2. pc'[audio] = "open" /\ \A t \in Threads : t # audio => pc'[t] = pc[t]
  BY <1>1, BlockTypes
<1>3. \A t \in Threads : pc'[t] = pc[t] \/ (pc[t] \notin InTask /\ pc'[t] \notin InTask)
  BY <1>1, <1>2
<1>4. graph \in Graphs /\ OnePlace /\ Tasks /\ Seeded /\ Counted  BY <1>1 DEF BlockInv
<1>5. \A s \in Slots : ~Ready(s) /\ ~Finished(s)  BY <1>1, NothingReady
<1>6. /\ \A s \in Slots : ~Ready(s)' /\ ~Finished(s)' /\ Unmet(s)' = Unmet(s)
      /\ OnePlace' /\ Tasks'
  BY <1>1, <1>3, <1>4, <1>5, TasksRest
<1>7. Seeded'  BY <1>6 DEF Seeded
<1>8. Active \subseteq Slots /\ Active' = Active /\ Cardinality(Active) = Len(graph.active)
  BY <1>1, BlockTypes, GraphIs DEF Active
<1>9. {s \in Active : ~Finished(s)}' = Active  BY <1>6, <1>8
<1>10. \A s \in Active : dep'[s] = Cardinality(Unmet(s)')  BY <1>1, <1>4, <1>6, <1>8 DEF Counted
<1>11. tasks_remaining' = Cardinality({s \in Active : ~Finished(s)})'  BY <1>1, <1>8, <1>9
<1>12. Counted'  BY <1>2, <1>8, <1>10, <1>11 DEF Counted
<1>13. QED  BY <1>1, <1>2, <1>4, <1>6, <1>7, <1>12 DEF BlockInv

\* The audio thread goes on to another of its loops.
LEMMA AudioMovesInv ==
  ASSUME TypeOK, BlockInv, OpenBlock \/ SeedDone \/ Help
  PROVE  BlockInv'
<1> USE DEF InBlock, InTask
<1>1. /\ UNCHANGED <<graph, queue, task, k, output, runs, dep, tasks_remaining>>
      /\ \/ pc[audio] = "open" /\ pc' = [pc EXCEPT ![audio] = "seed"]
         \/ seeded' = seeded /\ pc[audio] = "seed" /\ pc' = [pc EXCEPT ![audio] = "help"]
         \/ seeded' = seeded /\ pc[audio] = "help" /\ pc' = [pc EXCEPT ![audio] = "pop"]
         \/ /\ seeded' = seeded /\ pc[audio] = "help" /\ pc' = [pc EXCEPT ![audio] = "close"]
            /\ ~(tasks_remaining > 0)
  BY DEF OpenBlock, SeedDone, Help, Goto, taskVars, blockVars
<1>2. /\ \A t \in Threads : t # audio => pc'[t] = pc[t]
      /\ \/ pc[audio] = "open" /\ pc'[audio] = "seed"
         \/ seeded' = seeded /\ pc[audio] = "seed" /\ pc'[audio] = "help"
         \/ seeded' = seeded /\ pc[audio] = "help" /\ pc'[audio] = "pop"
         \/ /\ seeded' = seeded /\ pc[audio] = "help" /\ pc'[audio] = "close"
            /\ ~(tasks_remaining > 0)
  BY <1>1, BlockTypes
<1>3. \A t \in Threads : pc'[t] = pc[t] \/ (pc[t] \notin InTask /\ pc'[t] \notin InTask)
  BY <1>2
<1>4. graph \in Graphs /\ OnePlace /\ Tasks /\ Seeded /\ Counted  BY <1>2 DEF BlockInv
<1>5. /\ \A s \in Slots : (Ready(s)' <=> Ready(s)) /\ (Finished(s)' <=> Finished(s))
      /\ \A s \in Slots : Unmet(s)' = Unmet(s)
      /\ OnePlace' /\ Tasks'
  BY <1>1, <1>3, <1>4, TasksRest
<1>6. Seeded'
  <2>1. CASE pc[audio] = "open"
    <3>1. \A s \in Slots : ~Ready(s)  BY <2>1, NothingReady
    <3>2. QED  BY <1>5, <3>1 DEF Seeded
  <2>2. CASE pc[audio] # "open"
    <3>1. seeded' = seeded /\ pc'[audio] \in SeedingLabels  BY <1>2, <2>2 DEF SeedingLabels
    <3>2. QED  BY <1>1, <1>4, <1>5, <3>1, SeededKept
  <2>3. QED  BY <2>1, <2>2
<1>7. Counted'
  <2>1. pc'[audio] = "close" => tasks_remaining = 0  BY <1>2, BlockTypes
  <2>2. QED  BY <1>1, <1>2, <1>4, <1>5, <2>1, BlockTypes, CountedKept
<1>8. QED  BY <1>1, <1>2, <1>4, <1>5, <1>6, <1>7 DEF BlockInv

\* All tasks counted: all active instances ran, and no thread has one.
LEMMA AllFinished ==
  ASSUME TypeOK, BlockInv, pc[audio] = "close"
  PROVE  /\ \A s \in Active : Finished(s)
         /\ \A s \in Slots : Ready(s) => s \in Active
         /\ queue = << >> /\ \A t \in Threads : pc[t] \notin InTask
<1> USE DEF InBlock, InTask
<1>1. OnePlace /\ Seeded /\ Counted  BY DEF BlockInv
<1>2. /\ graph.active \in Seq(Slots) /\ Active = Elements(graph.active)
      /\ IsFiniteSet(Active) /\ Active \subseteq Slots /\ seeded + 1 \in Nat \ {0}
  BY BlockTypes, GraphIs
<1>3. \A s \in Slots : Ready(s) => s \in Active  BY <1>1, <1>2, BeforeIs DEF Seeded
<1>4. \A s \in Active : Finished(s)
  <2>1. Cardinality({s \in Active : ~Finished(s)}) = 0  BY <1>1 DEF Counted
  <2>2. IsFiniteSet({s \in Active : ~Finished(s)})  BY <1>2, FS_Subset
  <2>3. QED  BY <2>1, <2>2, FS_EmptySet
<1>5. \A t \in Threads : pc[t] \notin InTask
  <2>1. SUFFICES ASSUME NEW t \in Threads, pc[t] \in InTask PROVE FALSE  OBVIOUS
  <2>2. task[t] \in Slots /\ Holds(t, task[t])  BY <2>1, BlockTypes DEF Holds
  <2>3. Finished(task[t])  BY <1>3, <1>4, <2>2 DEF Ready
  <2>4. QED  BY <2>2, <2>3 DEF Finished
<1>6. queue = << >>
  <2>1. SUFFICES ASSUME queue # << >> PROVE FALSE  OBVIOUS
  <2>2. queue \in Seq(Slots)  BY BlockTypes
  <2>3. Head(queue) \in Elements(queue) /\ Head(queue) \in Slots
    BY <2>1, <2>2, TailElements
  <2>4. Finished(Head(queue))  BY <1>3, <1>4, <2>3 DEF Ready
  <2>5. runs[Head(queue)] = 0  BY <1>1, <2>3 DEF OnePlace
  <2>6. QED  BY <2>4, <2>5 DEF Finished
<1>7. QED  BY <1>3, <1>4, <1>5, <1>6

LEMMA CloseBlockInv ==
  ASSUME TypeOK, BlockInv, CloseBlock
  PROVE  BlockInv'
<1> USE DEF InBlock, InTask
<1>1. pc[audio] = "close" /\ pc' = [pc EXCEPT ![audio] = "idle"] /\ queue' = queue
  BY DEF CloseBlock, Goto
<1>2. pc'[audio] = "idle" /\ \A t \in Threads : t # audio => pc'[t] = pc[t]
  BY <1>1, BlockTypes
<1>3. queue' = << >> /\ \A t \in Threads : pc'[t] \notin InTask  BY <1>1, <1>2, AllFinished
<1>4. QED  BY <1>2, <1>3 DEF BlockInv

\* SeedOne pushes an instance without routes into it: one that was ready already
\* would be an instance the loop has passed.
LEMMA SeedOneInv ==
  ASSUME TypeOK, BlockInv, SeedOne
  PROVE  BlockInv'
<1> USE DEF InBlock, InTask
<1>1. /\ pc[audio] = "seed" /\ seeded < Len(graph.active) /\ seeded' = seeded + 1
      /\ UNCHANGED <<graph, task, k, output, runs, dep, tasks_remaining, pc>>
      /\ IF dep[graph.active[seeded + 1]] = 0 THEN Push(graph.active[seeded + 1]) ELSE queue' = queue
  BY DEF SeedOne, taskVars
<1>2. graph \in Graphs /\ OnePlace /\ Tasks /\ Seeded /\ Counted  BY <1>1 DEF BlockInv
<1>3. /\ graph.active \in Seq(Slots) /\ Distinct(graph.active) /\ Active \subseteq Slots
      /\ Active = Elements(graph.active) /\ seeded \in Nat /\ queue \in Seq(Slots)
      /\ \A s : IsFiniteSet(Into(s))
  BY BlockTypes, GraphIs
<1>4. PICK n \in Nat \ {0} : n = seeded + 1  BY <1>3
<1>5. PICK s : s = graph.active[n]  OBVIOUS
<1>6. n \in DOMAIN graph.active /\ s \in Active /\ s \in Slots
  <2>1. n \in DOMAIN graph.active  BY <1>1, <1>3, <1>4
  <2>2. QED  BY <1>3, <1>5, <2>1 DEF Active
<1>7. Before(graph.active, n + 1) = Before(graph.active, n) \cup {s}
  BY <1>3, <1>5, <1>6, BeforeIs
<1>8. s \notin Before(graph.active, n)
  <2>1. ASSUME NEW l \in DOMAIN graph.active, graph.active[l] = s PROVE ~(l < n)
    <3>1. l = n  BY <1>3, <1>5, <1>6, <2>1 DEF Distinct
    <3>2. QED  BY <3>1
  <2>2. QED  BY <2>1 DEF Before
<1>9. ~Ready(s)  BY <1>2, <1>4, <1>6, <1>8 DEF Seeded
<1>10. s \notin Elements(queue) /\ runs[s] = 0 /\ \A t \in Threads : ~Holds(t, s) /\ ~Pushes(t, s)
  <2>1. runs[s] \in Nat  BY <1>6, BlockTypes
  <2>2. QED  BY <1>9, <2>1 DEF Ready
<1>11. \/ queue' = queue
       \/ queue' = Append(queue, s) /\ Unmet(s) = {}
  <2>1. CASE dep[s] = 0
    <3>1. queue' = Append(queue, s)  BY <1>1, <1>2, <1>3, <1>4, <1>5, <1>6, <1>10, <2>1, PushFits DEF OnePlace
    <3>2. Cardinality(Unmet(s)) = 0  BY <1>1, <1>2, <1>6, <2>1 DEF Counted
    <3>3. IsFiniteSet(Unmet(s))  BY <1>3, FS_Subset DEF Unmet
    <3>4. QED  BY <3>1, <3>2, <3>3, FS_EmptySet
  <2>2. CASE dep[s] # 0  BY <1>1, <1>4, <1>5, <2>2
  <2>3. QED  BY <2>1, <2>2
<1>12. /\ \A t \in Threads : \A x : (Holds(t, x)' <=> Holds(t, x)) /\ (Pushes(t, x)' <=> Pushes(t, x))
       /\ \A x : (Finished(x)' <=> Finished(x)) /\ Unmet(x)' = Unmet(x)
  BY <1>1 DEF Holds, Pushes, Finished, Unmet, Followed, Into
<1>13. /\ Elements(queue') \subseteq Elements(queue) \cup {s}
       /\ Elements(queue') # Elements(queue) => Unmet(s) = {}
       /\ Distinct(queue')
  <2>1. CASE queue' = queue  BY <1>2, <2>1 DEF OnePlace
  <2>2. CASE queue' = Append(queue, s) /\ Unmet(s) = {}
    BY <1>2, <1>3, <1>6, <1>10, <2>2, AppendElements DEF OnePlace
  <2>3. QED  BY <1>11, <2>1, <2>2
<1>14. OnePlace'  BY <1>1, <1>2, <1>10, <1>12, <1>13 DEF OnePlace
<1>15. Tasks'  BY <1>1, <1>2, <1>12 DEF Tasks
<1>16. Seeded'
  <2>1. ASSUME NEW x \in Slots, Ready(x)'
        PROVE  Unmet(x)' = {} /\ x \in Before(graph.active, n + 1)
    <3>1. CASE Ready(x)  BY <1>2, <1>4, <1>7, <1>12, <3>1 DEF Seeded
    <3>2. CASE ~Ready(x)
      <4>1. x \in Elements(queue') /\ x \notin Elements(queue)
        BY <1>1, <1>12, <2>1, <3>2 DEF Ready
      <4>2. x = s /\ Unmet(s) = {}  BY <1>13, <4>1
      <4>3. QED  BY <1>7, <1>12, <4>2
    <3>3. QED  BY <3>1, <3>2
  <2>2. QED  BY <1>1, <1>4, <2>1 DEF Seeded
<1>17. Counted'
  <2>1. pc'[audio] # "close"  BY <1>1
  <2>2. QED  BY <1>1, <1>2, <1>12, <2>1, BlockTypes, CountedKept
<1>18. QED  BY <1>1, <1>2, <1>14, <1>15, <1>16, <1>17 DEF BlockInv

-----------------------------------------------------------------------------
(* The steps of a thread with a task. *)

Along(t, j) == pc[t] \in {"release", "push"} /\ (j < k[t] \/ (j = k[t] /\ pc[t] = "push"))

\* A step of thread t, which has or takes task s, moves no other task.
MovesOnly(t, s) ==
  /\ graph' = graph
  /\ \A u \in Threads : u # t => pc'[u] = pc[u] /\ task'[u] = task[u] /\ k'[u] = k[u]
  /\ \A x : x # s => ~Holds(t, x) /\ ~Holds(t, x)' /\ runs'[x] = runs[x]

LEMMA OthersFollowed ==
  ASSUME NEW t \in Threads, NEW s, MovesOnly(t, s), NEW j, graph.routes[j].src # s
  PROVE  Followed(j)' <=> Followed(j)
<1>1. PICK x : x = graph.routes[j].src  OBVIOUS
<1>2. runs'[x] = runs[x] /\ ~Holds(t, x) /\ ~Holds(t, x)'  BY <1>1 DEF MovesOnly
<1>3. \A u \in Threads : u # t => pc'[u] = pc[u] /\ k'[u] = k[u] /\ (Holds(u, x)' <=> Holds(u, x))
  BY DEF MovesOnly, Holds
<1>4. Followed(j) <=> runs[x] > 0 /\ \A u \in Threads : Holds(u, x) => Along(u, j)
  BY <1>1 DEF Followed, Along
<1>5. Followed(j)' <=> runs'[x] > 0 /\ \A u \in Threads : Holds(u, x)' => Along(u, j)'
  BY <1>1 DEF Followed, Along, MovesOnly
<1>6. \A u \in Threads : u # t => (Along(u, j)' <=> Along(u, j))  BY <1>3 DEF Along
<1>7. QED  BY <1>2, <1>3, <1>4, <1>5, <1>6

LEMMA OwnFollowed ==
  ASSUME NEW t \in Threads, NEW s, \A u \in Threads : Holds(u, s) => u = t,
         NEW j, graph.routes[j].src = s
  PROVE  Holds(t, s) => (Followed(j) <=> runs[s] > 0 /\ Along(t, j))
BY DEF Followed, Along

LEMMA OwnFollowedNext ==
  ASSUME NEW t \in Threads, NEW s, \A u \in Threads : Holds(u, s)' => u = t,
         NEW j, graph'.routes[j].src = s
  PROVE  /\ Holds(t, s)' => (Followed(j)' <=> runs'[s] > 0 /\ Along(t, j)')
         /\ ~Holds(t, s)' => (Followed(j)' <=> runs'[s] > 0)
<1>1. Followed(j)' <=> runs'[s] > 0 /\ \A u \in Threads : Holds(u, s)' => Along(u, j)'
  BY DEF Followed, Along
<1>2. QED  BY <1>1

LEMMA TaskIs ==
  ASSUME TypeOK, BlockInv, NEW t \in Threads,
         pc[t] \in InTask \/ (pc[t] = "pop" /\ queue # << >>)
  PROVE  /\ pc[audio] \in SeedingLabels /\ pc[audio] \in InBlock
         /\ graph \in Graphs /\ OnePlace /\ Tasks /\ Seeded /\ Counted
         /\ pc[t] \in InTask => /\ task[t] \in Slots /\ task[t] \in Active
                                /\ Holds(t, task[t]) /\ Unmet(task[t]) = {}
                                /\ \A u \in Threads : Holds(u, task[t]) => u = t
<1> USE DEF InBlock, InTask
<1>1. pc[audio] \in InBlock  BY DEF BlockInv
<1>2. graph \in Graphs /\ OnePlace /\ Tasks /\ Seeded /\ Counted  BY <1>1 DEF BlockInv
<1>3. CASE pc[t] \in InTask
  <2>1. task[t] \in Slots /\ Holds(t, task[t])  BY <1>3, BlockTypes DEF Holds
  <2>2. Ready(task[t])  BY <2>1 DEF Ready
  <2>3. /\ pc[audio] \in SeedingLabels /\ Unmet(task[t]) = {}
        /\ task[t] \in Before(graph.active, seeded + 1)
    BY <1>2, <2>1, <2>2 DEF Seeded, SeedingLabels
  <2>4. /\ graph.active \in Seq(Slots) /\ Active = Elements(graph.active) /\ seeded + 1 \in Nat \ {0}
    BY SMTT(30), BlockTypes, GraphIs
  <2>5. task[t] \in Active  BY <2>3, <2>4, BeforeIs
  <2>6. QED  BY <1>1, <1>2, <2>1, <2>3, <2>5 DEF OnePlace
<1>4. CASE pc[t] = "pop" /\ queue # << >>
  <2>1. Head(queue) \in Elements(queue) /\ Head(queue) \in Slots
    BY <1>4, BlockTypes, TailElements
  <2>2. Ready(Head(queue))  BY <2>1 DEF Ready
  <2>3. QED  BY <1>1, <1>2, <1>4, <2>1, <2>2 DEF Seeded, SeedingLabels
<1>5. QED  BY <1>3, <1>4

\* A step of a task that counts nothing.
LEMMA TaskKeeps ==
  ASSUME TypeOK, NEW t \in Threads,
         pc[audio] \in SeedingLabels, graph \in Graphs, Seeded, Counted,
         UNCHANGED <<graph, seeded, dep, tasks_remaining>>,
         \A u \in Threads : u # t => pc'[u] = pc[u],
         t = audio => pc'[t] \in SeedingLabels \ {"close"},
         OnePlace', Tasks',
         \A s \in Slots : /\ Ready(s)' => Ready(s)
                          /\ Unmet(s)' = Unmet(s)
                          /\ Finished(s)' <=> Finished(s)
  PROVE  BlockInv'
<1> USE DEF InBlock, InTask, SeedingLabels
<1>1. pc'[audio] \in SeedingLabels /\ (pc'[audio] = "close" => pc[audio] = "close")
  BY BlockTypes
<1>2. Seeded'  BY <1>1, SeededKept
<1>3. pc'[audio] = "close" => tasks_remaining = 0  BY <1>1 DEF Counted
<1>4. Counted'  BY <1>1, <1>3, BlockTypes, CountedKept
<1>5. QED  BY <1>1, <1>2, <1>4 DEF BlockInv

\* No two threads have what a thread takes from the queue.
LEMMA PopInv ==
  ASSUME TypeOK, BlockInv, NEW t \in Threads, Pop(t)
  PROVE  BlockInv'
<1> USE DEF InBlock, InTask
<1>1. PICK s : s = Head(queue)  OBVIOUS
<1>2. /\ pc[t] = "pop" /\ queue # << >> /\ task' = [task EXCEPT ![t] = s] /\ queue' = Tail(queue)
      /\ pc' = [pc EXCEPT ![t] = "gather"]
      /\ UNCHANGED <<graph, dep, tasks_remaining, seeded, k, output, runs>>
  BY <1>1 DEF Pop, Goto, blockVars
<1>3. /\ pc[audio] \in SeedingLabels /\ graph \in Graphs /\ OnePlace /\ Tasks /\ Seeded /\ Counted
  BY <1>2, TaskIs
<1>4. /\ s \in Elements(queue) /\ s \in Slots /\ Elements(queue') \subseteq Elements(queue)
      /\ s \notin Elements(queue') /\ Distinct(queue')
  BY <1>1, <1>2, <1>3, BlockTypes, TailElements DEF OnePlace
<1>5. /\ pc'[t] = "gather" /\ task'[t] = s
      /\ \A u \in Threads : u # t => pc'[u] = pc[u] /\ task'[u] = task[u] /\ k'[u] = k[u]
  BY <1>2, BlockTypes
<1>6. runs[s] = 0 /\ \A u \in Threads : ~Holds(u, s) /\ ~Pushes(u, s)
  BY <1>3, <1>4 DEF OnePlace
<1>7. /\ \A x : ~Holds(t, x) /\ ~Pushes(t, x) /\ ~Pushes(t, x)' /\ (Holds(t, x)' <=> x = s)
      /\ \A u \in Threads : u # t =>
           \A x : (Holds(u, x)' <=> Holds(u, x)) /\ (Pushes(u, x)' <=> Pushes(u, x))
  BY <1>2, <1>5 DEF Holds, Pushes
<1>8. MovesOnly(t, s)  BY <1>2, <1>5, <1>7 DEF MovesOnly
<1>9. \A u \in Threads : Holds(u, s)' => u = t  BY <1>6, <1>7
<1>10. ASSUME NEW j PROVE Followed(j)' <=> Followed(j)
  <2>1. CASE graph.routes[j].src = s
    <3>1. ~Followed(j)  BY <1>6, <2>1 DEF Followed
    <3>2. ~Followed(j)'  BY <1>2, <1>6, <2>1 DEF Followed
    <3>3. QED  BY <3>1, <3>2
  <2>2. CASE graph.routes[j].src # s  BY <1>8, <2>2, OthersFollowed
  <2>3. QED  BY <2>1, <2>2
<1>11. OnePlace'
  <2>1. \A u, w \in Threads : \A x \in Slots : Holds(u, x)' /\ Holds(w, x)' => u = w
    BY <1>3, <1>6, <1>7 DEF OnePlace
  <2>2. \A u, w \in Threads : \A x \in Slots : Pushes(u, x)' /\ Pushes(w, x)' => u = w
    BY <1>3, <1>7 DEF OnePlace
  <2>3. \A x \in Elements(queue') : runs'[x] = 0 /\ \A u \in Threads : ~Holds(u, x)' /\ ~Pushes(u, x)'
    BY <1>2, <1>3, <1>4, <1>7 DEF OnePlace
  <2>4. \A u, w \in Threads : \A x \in Slots : Pushes(u, x)' => runs'[x] = 0 /\ ~Holds(w, x)'
    BY <1>2, <1>3, <1>6, <1>7 DEF OnePlace
  <2>5. QED  BY <1>4, <2>1, <2>2, <2>3, <2>4 DEF OnePlace
<1>12. \A x \in Slots : Finished(x)' <=> Finished(x)
  BY <1>2, <1>6, <1>7 DEF Finished
<1>13. Tasks'
  <2>1. \A u \in Threads : u # t => runs'[task'[u]] = runs[task[u]] /\ output'[task'[u]] = output[task[u]]
    BY <1>2, <1>5
  <2>2. QED  BY <1>2, <1>3, <1>5, <1>6, <1>12, <2>1 DEF Tasks
<1>14. \A x \in Slots : Ready(x)' => Ready(x)
  BY <1>2, <1>4, <1>7 DEF Ready
<1>15. \A x : Unmet(x)' = Unmet(x)  BY <1>2, <1>10 DEF Unmet, Into
<1>16. t = audio => pc'[t] \in SeedingLabels \ {"close"}  BY <1>5 DEF SeedingLabels
<1>17. QED  BY <1>2, <1>3, <1>5, <1>11, <1>12, <1>13, <1>14, <1>15, <1>16, TaskKeeps

\* A thread stays with its task: who has which task, and what is queued, stays.
LEMMA StaysWith ==
  ASSUME NEW t \in Threads, pc[t] \in InTask, pc'[t] \in InTask, UNCHANGED <<graph, queue, task>>,
         \A u \in Threads : u # t => pc'[u] = pc[u] /\ k'[u] = k[u],
         \A x : x # task[t] => runs'[x] = runs[x]
  PROVE  /\ \A u \in Threads : \A x : Holds(u, x)' <=> Holds(u, x)
         /\ \A u \in Threads : u # t => \A x : Pushes(u, x)' <=> Pushes(u, x)
         /\ MovesOnly(t, task[t])
<1>1. ASSUME NEW u \in Threads, NEW x PROVE Holds(u, x)' <=> Holds(u, x)
  BY DEF Holds
<1>2. ASSUME NEW u \in Threads, u # t, NEW x PROVE Pushes(u, x)' <=> Pushes(u, x)
  BY <1>2 DEF Pushes
<1>3. PICK s : s = task[t]  OBVIOUS
<1>4. \A x : x # s => ~Holds(t, x) /\ ~Holds(t, x)' /\ runs'[x] = runs[x]
  BY <1>3 DEF Holds
<1>5. MovesOnly(t, s)  BY <1>4 DEF MovesOnly
<1>6. QED  BY <1>1, <1>2, <1>3, <1>5

LEMMA GatherInv ==
  ASSUME TypeOK, BlockInv, NEW t \in Threads, Gather(t)
  PROVE  BlockInv'
<1> USE DEF InBlock, InTask
<1>1. PICK s : s = task[t]  OBVIOUS
<1>2. /\ pc[t] = "gather" /\ pc' = [pc EXCEPT ![t] = "process"]
      /\ runs' = [runs EXCEPT ![s] = @ + 1] /\ output' = [output EXCEPT ![s] = "writing"]
      /\ UNCHANGED <<graph, dep, tasks_remaining, seeded, queue, task, k>>
  BY <1>1 DEF Gather, Goto, blockVars
<1>3. /\ pc[audio] \in SeedingLabels /\ graph \in Graphs /\ OnePlace /\ Tasks /\ Seeded /\ Counted
      /\ s \in Slots /\ Holds(t, s) /\ \A u \in Threads : Holds(u, s) => u = t
  BY <1>1, <1>2, TaskIs
<1>4. /\ pc'[t] = "process" /\ \A u \in Threads : u # t => pc'[u] = pc[u]
      /\ runs[s] = 0 /\ runs'[s] > 0 /\ output'[s] = "writing"
      /\ \A x : x # s => runs'[x] = runs[x] /\ output'[x] = output[x]
  BY <1>1, <1>2, <1>3, BlockTypes DEF Tasks
<1>5. /\ \A u \in Threads : \A x : Holds(u, x)' <=> Holds(u, x)
      /\ \A u \in Threads : u # t => \A x : Pushes(u, x)' <=> Pushes(u, x)
      /\ MovesOnly(t, s)
  BY <1>1, <1>2, <1>4, StaysWith
<1>6. \A x : ~Pushes(t, x) /\ ~Pushes(t, x)'  BY <1>2, <1>4 DEF Pushes
<1>7. ASSUME NEW j PROVE Followed(j)' <=> Followed(j)
  <2>1. CASE graph.routes[j].src = s
    <3>1. ~Followed(j)  BY <1>4, <2>1 DEF Followed
    <3>2. ~Followed(j)'
      <4>1. graph'.routes[j].src = s /\ Holds(t, s)' /\ pc'[t] \notin {"release", "push"}
        BY <1>2, <1>3, <1>4, <1>5, <2>1
      <4>2. QED  BY <4>1 DEF Followed
    <3>3. QED  BY <3>1, <3>2
  <2>2. CASE graph.routes[j].src # s  BY <1>5, <2>2, OthersFollowed
  <2>3. QED  BY <2>1, <2>2
<1>8. s \notin Elements(queue) /\ \A u \in Threads : ~Pushes(u, s)
  BY <1>3 DEF OnePlace
<1>9. OnePlace'
  <2>1. \A x \in Elements(queue) : x # s  BY <1>8
  <2>2. \A u \in Threads : \A x : Pushes(u, x)' => Pushes(u, x) /\ x # s  BY <1>5, <1>6, <1>8
  <2>3. queue' = queue /\ Elements(queue') = Elements(queue)  BY <1>2
  <2>4. \A x \in Elements(queue') : runs'[x] = 0 /\ \A u \in Threads : ~Holds(u, x)' /\ ~Pushes(u, x)'
    BY <1>3, <1>4, <1>5, <2>1, <2>2, <2>3 DEF OnePlace
  <2>5. \A u, w \in Threads : \A x \in Slots : Pushes(u, x)' => runs'[x] = 0 /\ ~Holds(w, x)'
    BY <1>3, <1>4, <1>5, <2>2 DEF OnePlace
  <2>6. QED  BY <1>3, <1>5, <2>2, <2>3, <2>4, <2>5 DEF OnePlace
<1>10. \A x \in Slots : Finished(x)' <=> Finished(x)
  BY <1>3, <1>4, <1>5 DEF Finished
<1>11. Tasks'
  <2>1. \A u \in Threads : u # t /\ pc'[u] \in InTask => task'[u] # s
    BY <1>2, <1>3, <1>4 DEF Holds
  <2>2. \A u \in Threads : u # t /\ pc'[u] \in InTask =>
          runs'[task'[u]] = runs[task[u]] /\ output'[task'[u]] = output[task[u]]
    BY <1>2, <1>4, <2>1
  <2>3. \A x \in Slots : /\ Finished(x)' => output'[x] = "done"
                         /\ runs'[x] = 0 => output'[x] = "old"
    <3>1. ~Finished(s)'  BY <1>3, <1>5 DEF Finished
    <3>2. QED  BY <1>3, <1>4, <1>10, <3>1 DEF Tasks
  <2>4. QED  BY <1>1, <1>2, <1>3, <1>4, <2>2, <2>3 DEF Tasks
<1>12. \A x \in Slots : Ready(x)' => Ready(x)
  BY <1>2, <1>3, <1>4, <1>5, <1>6 DEF Ready
<1>13. \A x : Unmet(x)' = Unmet(x)  BY <1>2, <1>7 DEF Unmet, Into
<1>14. t = audio => pc'[t] \in SeedingLabels \ {"close"}  BY <1>4 DEF SeedingLabels
<1>15. QED  BY <1>2, <1>3, <1>4, <1>9, <1>10, <1>11, <1>12, <1>13, <1>14, TaskKeeps

LEMMA ProcessInv ==
  ASSUME TypeOK, BlockInv, NEW t \in Threads, Process(t)
  PROVE  BlockInv'
<1> USE DEF InBlock, InTask
<1>1. PICK s : s = task[t]  OBVIOUS
<1>2. /\ pc[t] = "process" /\ pc' = [pc EXCEPT ![t] = "release"]
      /\ output' = [output EXCEPT ![s] = "done"] /\ k' = [k EXCEPT ![t] = 1]
      /\ UNCHANGED <<graph, dep, tasks_remaining, seeded, queue, task, runs>>
  BY <1>1 DEF Process, Goto, blockVars
<1>3. /\ pc[audio] \in SeedingLabels /\ graph \in Graphs /\ OnePlace /\ Tasks /\ Seeded /\ Counted
      /\ s \in Slots /\ Holds(t, s) /\ \A u \in Threads : Holds(u, s) => u = t
  BY <1>1, <1>2, TaskIs
<1>4. /\ pc'[t] = "release" /\ k'[t] = 1 /\ \A u \in Threads : u # t => pc'[u] = pc[u] /\ k'[u] = k[u]
      /\ runs[s] > 0 /\ output'[s] = "done" /\ \A x : x # s => output'[x] = output[x]
  BY <1>1, <1>2, <1>3, BlockTypes DEF Tasks
<1>5. /\ \A u \in Threads : \A x : Holds(u, x)' <=> Holds(u, x)
      /\ \A u \in Threads : u # t => \A x : Pushes(u, x)' <=> Pushes(u, x)
      /\ MovesOnly(t, s)
  BY <1>1, <1>2, <1>4, StaysWith
<1>6. \A x : ~Pushes(t, x) /\ ~Pushes(t, x)'  BY <1>2, <1>4 DEF Pushes
<1>7. ASSUME NEW j \in DOMAIN graph.routes PROVE Followed(j)' <=> Followed(j)
  <2>1. CASE graph.routes[j].src = s
    <3>1. ~Followed(j)  BY <1>2, <1>3, <2>1 DEF Followed
    <3>2. ~Followed(j)'
      <4>1. graph'.routes[j].src = s /\ Holds(t, s)' /\ pc'[t] = "release" /\ k'[t] = 1
        BY <1>2, <1>3, <1>4, <1>5, <2>1
      <4>2. j \in Nat /\ j >= 1  BY BlockTypes, GraphIs
      <4>3. ~(j < 1)  BY <4>2
      <4>4. QED  BY <4>1, <4>3 DEF Followed
    <3>3. QED  BY <3>1, <3>2
  <2>2. CASE graph.routes[j].src # s  BY <1>5, <2>2, OthersFollowed
  <2>3. QED  BY <2>1, <2>2
<1>8. \A u \in Threads : \A x : Pushes(u, x)' <=> Pushes(u, x)  BY <1>5, <1>6
<1>9. OnePlace'  BY <1>2, <1>3, <1>5, <1>8 DEF OnePlace
<1>10. \A x \in Slots : Finished(x)' <=> Finished(x)
  BY <1>2, <1>5 DEF Finished
<1>11. Tasks'
  <2>1. \A u \in Threads : u # t /\ pc'[u] \in InTask => task'[u] # s
    BY <1>2, <1>3, <1>4 DEF Holds
  <2>2. \A u \in Threads : u # t /\ pc'[u] \in InTask =>
          /\ runs'[task'[u]] = runs[task[u]] /\ output'[task'[u]] = output[task[u]]
          /\ k'[u] = k[u]
    BY <1>2, <1>4, <2>1
  <2>3. \A x \in Slots : /\ Finished(x)' => output'[x] = "done"
                         /\ runs'[x] = 0 => output'[x] = "old"
    BY <1>2, <1>3, <1>4, <1>10 DEF Tasks
  <2>4. QED  BY <1>1, <1>2, <1>3, <1>4, <2>2, <2>3 DEF Tasks
<1>12. \A x \in Slots : Ready(x)' => Ready(x)
  BY <1>2, <1>5, <1>8 DEF Ready
<1>13. \A x : Unmet(x)' = Unmet(x)
  <2>1. \A x : Into(x) \subseteq DOMAIN graph.routes /\ Into(x)' = Into(x)  BY <1>2 DEF Into
  <2>2. QED  BY <1>7, <2>1 DEF Unmet
<1>14. t = audio => pc'[t] \in SeedingLabels \ {"close"}  BY <1>4 DEF SeedingLabels
<1>15. QED  BY <1>2, <1>3, <1>4, <1>9, <1>10, <1>11, <1>12, <1>13, <1>14, TaskKeeps

\* No step of a task's route loop changes who holds which task.
LEMMA InRoutes ==
  ASSUME TypeOK, BlockInv, NEW t \in Threads, pc[t] \in {"release", "push"}
  PROVE  /\ task[t] \in Slots /\ task[t] \in Active /\ Holds(t, task[t])
         /\ \A u \in Threads : Holds(u, task[t]) => u = t
         /\ runs[task[t]] > 0 /\ output[task[t]] = "done"
         /\ pc[audio] \in SeedingLabels /\ graph \in Graphs
         /\ OnePlace /\ Tasks /\ Seeded /\ Counted
         /\ k[t] \in Nat \ {0}
<1>1. pc[t] \in InTask  BY DEF InTask
<1>2. QED  BY <1>1, TaskIs, BlockTypes DEF Tasks

LEMMA ReleaseOtherInv ==
  ASSUME TypeOK, BlockInv, NEW t \in Threads, Release(t), graph.routes[k[t]].src # task[t]
  PROVE  BlockInv'
<1> USE DEF InBlock, InTask
<1>1. PICK s : s = task[t]  OBVIOUS
<1>2. /\ pc[t] = "release" /\ k' = [k EXCEPT ![t] = @ + 1]
      /\ UNCHANGED <<graph, dep, tasks_remaining, seeded, queue, task, output, runs, pc>>
  BY DEF Release
<1>3. /\ pc[audio] \in SeedingLabels /\ graph \in Graphs /\ OnePlace /\ Tasks /\ Seeded /\ Counted
      /\ s \in Slots /\ Holds(t, s) /\ \A u \in Threads : Holds(u, s) => u = t
      /\ runs[s] > 0 /\ k[t] \in Nat \ {0}
  BY <1>1, <1>2, InRoutes
<1>4. k'[t] = k[t] + 1 /\ \A u \in Threads : u # t => k'[u] = k[u]
  BY <1>2, BlockTypes
<1>5. /\ \A u \in Threads : \A x : Holds(u, x)' <=> Holds(u, x)
      /\ \A u \in Threads : u # t => \A x : Pushes(u, x)' <=> Pushes(u, x)
      /\ MovesOnly(t, s)
  BY <1>1, <1>2, <1>4, StaysWith
<1>6. \A x : ~Pushes(t, x) /\ ~Pushes(t, x)'  BY <1>2 DEF Pushes
<1>7. ASSUME NEW j \in DOMAIN graph.routes PROVE Followed(j)' <=> Followed(j)
  <2>1. CASE graph.routes[j].src = s
    <3>1. j # k[t]  BY <1>1, <2>1
    <3>2. j \in Nat  BY BlockTypes, GraphIs
    <3>3. j < k[t] + 1 <=> j < k[t]  BY <1>3, <3>1, <3>2
    <3>4. Along(t, j)' <=> Along(t, j)  BY <1>2, <1>4, <3>1, <3>2, <3>3 DEF Along
    <3>5. Followed(j) <=> runs[s] > 0 /\ Along(t, j)  BY <1>3, <2>1, OwnFollowed
    <3>6. Followed(j)' <=> runs'[s] > 0 /\ Along(t, j)'
      BY <1>2, <1>3, <1>5, <2>1, OwnFollowedNext
    <3>7. QED  BY <1>2, <3>4, <3>5, <3>6
  <2>2. CASE graph.routes[j].src # s  BY <1>5, <2>2, OthersFollowed
  <2>3. QED  BY <2>1, <2>2
<1>8. \A u \in Threads : \A x : Pushes(u, x)' <=> Pushes(u, x)  BY <1>5, <1>6
<1>9. OnePlace'  BY <1>2, <1>3, <1>5, <1>8 DEF OnePlace
<1>10. \A x \in Slots : Finished(x)' <=> Finished(x)  BY <1>2, <1>5 DEF Finished
<1>11. Tasks'
  <2>1. \A u \in Threads : pc'[u] = "push" => k'[u] = k[u]  BY <1>2, <1>4
  <2>2. QED  BY <1>2, <1>3, <1>10, <2>1 DEF Tasks
<1>12. \A x \in Slots : Ready(x)' => Ready(x)  BY <1>2, <1>5, <1>8 DEF Ready
<1>13. \A x : Unmet(x)' = Unmet(x)
  <2>1. \A x : Into(x) \subseteq DOMAIN graph.routes /\ Into(x)' = Into(x)  BY <1>2 DEF Into
  <2>2. QED  BY <1>7, <2>1 DEF Unmet
<1>14. t = audio => pc'[t] \in SeedingLabels \ {"close"}  BY <1>2 DEF SeedingLabels
<1>15. QED  BY <1>2, <1>3, <1>9, <1>10, <1>11, <1>12, <1>13, <1>14, TaskKeeps

\* The destination of the route a task follows was waiting for it, so nobody
\* has pushed it: who finds its count at 1 is the only one to push it.  The
\* seeding loop has passed it, which is older than the task.
LEMMA ReleaseOwn ==
  ASSUME TypeOK, BlockInv, NEW t \in Threads, Release(t), graph.routes[k[t]].src = task[t]
  PROVE  \E d \in Active :
    /\ d = graph.routes[k[t]].dst /\ k[t] \in DOMAIN graph.routes /\ ~Ready(d)
    /\ dep' = [dep EXCEPT ![d] = @ - 1] /\ dep[d] - 1 \in Nat
    /\ \A j \in DOMAIN graph.routes : Followed(j)' <=> Followed(j) \/ j = k[t]
    /\ dep[d] - 1 = Cardinality(Unmet(d)') /\ (dep[d] = 1 <=> Unmet(d)' = {})
    /\ Unmet(d)' \subseteq Unmet(d) /\ \A x : x # d => Unmet(x)' = Unmet(x)
    /\ \A u \in Threads : \A x : Holds(u, x)' <=> Holds(u, x)
    /\ \A u \in Threads : u # t => \A x : Pushes(u, x)' <=> Pushes(u, x)
    /\ \A x : Pushes(t, x)' <=> (dep[d] = 1 /\ x = d)
    /\ pc'[t] \in {"release", "push"} /\ \A u \in Threads : u # t => pc'[u] = pc[u]
    /\ \A u \in Threads : pc'[u] = "push" => k'[u] = k[u]
<1> USE DEF InBlock, InTask
<1>1. PICK s : s = task[t]  OBVIOUS
<1>2. PICK d : d = graph.routes[k[t]].dst  OBVIOUS
<1>3. /\ pc[t] = "release" /\ k[t] <= Len(graph.routes)
      /\ UNCHANGED <<graph, tasks_remaining, seeded, queue, task, output, runs>>
      /\ dep' = [dep EXCEPT ![d] = @ - 1]
      /\ IF dep[d] = 1 THEN pc' = [pc EXCEPT ![t] = "push"] /\ k' = k
                       ELSE k' = [k EXCEPT ![t] = @ + 1] /\ pc' = pc
  BY <1>2 DEF Release, Goto
<1>4. /\ pc[audio] \in SeedingLabels /\ Seeded /\ Counted
      /\ s \in Slots /\ Holds(t, s) /\ \A u \in Threads : Holds(u, s) => u = t
      /\ runs[s] > 0 /\ k[t] \in Nat \ {0}
  BY <1>1, <1>3, InRoutes
<1>5. /\ Len(graph.routes) \in Nat /\ DOMAIN graph.routes = 1..Len(graph.routes)
      /\ \A j \in DOMAIN graph.routes : j \in Nat /\ graph.routes[j].dst \in Active
      /\ Active \subseteq Slots /\ \A x : IsFiniteSet(Into(x)) /\ Into(x) \subseteq DOMAIN graph.routes
  BY BlockTypes, GraphIs
<1>6. k[t] \in DOMAIN graph.routes  BY <1>3, <1>4, <1>5
<1>7. d \in Active /\ d \in Slots /\ k[t] \in Into(d)  BY <1>2, <1>5, <1>6 DEF Into
<1>8. /\ \A u \in Threads : u # t => pc'[u] = pc[u] /\ k'[u] = k[u]
      /\ dep[d] = 1 => pc'[t] = "push" /\ k'[t] = k[t]
      /\ dep[d] # 1 => pc'[t] = "release" /\ k'[t] = k[t] + 1
  BY <1>3, BlockTypes
<1>9. /\ \A u \in Threads : \A x : Holds(u, x)' <=> Holds(u, x)
      /\ \A u \in Threads : u # t => \A x : Pushes(u, x)' <=> Pushes(u, x)
      /\ MovesOnly(t, s)
  BY <1>1, <1>3, <1>8, StaysWith
<1>10. \A x : Pushes(t, x)' <=> (dep[d] = 1 /\ x = d)  BY <1>2, <1>3, <1>8 DEF Pushes
<1>11. ASSUME NEW j \in DOMAIN graph.routes PROVE Followed(j)' <=> Followed(j) \/ j = k[t]
  <2>1. CASE graph.routes[j].src = s
    <3>1. j \in Nat  BY <1>5
    <3>2. j < k[t] + 1 <=> j < k[t] \/ j = k[t]  BY <1>4, <3>1
    <3>3. Along(t, j)' <=> j < k[t] \/ j = k[t]  BY <1>8, <3>2 DEF Along
    <3>4. Along(t, j) <=> j < k[t]  BY <1>3 DEF Along
    <3>5. Followed(j) <=> runs[s] > 0 /\ Along(t, j)  BY <1>4, <2>1, OwnFollowed
    <3>6. Followed(j)' <=> runs'[s] > 0 /\ Along(t, j)'
      BY <1>3, <1>4, <1>9, <2>1, OwnFollowedNext
    <3>7. QED  BY <1>3, <1>4, <3>3, <3>4, <3>5, <3>6
  <2>2. CASE graph.routes[j].src # s
    <3>1. j # k[t]  BY <1>1, <2>2
    <3>2. QED  BY <1>9, <2>2, <3>1, OthersFollowed
  <2>3. QED  BY <2>1, <2>2
<1>12. ~Followed(k[t])
  <2>1. ~Along(t, k[t])  BY <1>3, <1>4 DEF Along
  <2>2. QED  BY <1>1, <1>4, <2>1, OwnFollowed
<1>13. \A x : Unmet(x)' = Unmet(x) \ {k[t]}
  <2>1. \A x : Into(x)' = Into(x)  BY <1>3 DEF Into
  <2>2. QED  BY <1>5, <1>11, <2>1 DEF Unmet
<1>14. \A x : x # d => Unmet(x)' = Unmet(x)
  <2>1. \A x : x # d => k[t] \notin Unmet(x)  BY <1>2 DEF Unmet, Into
  <2>2. QED  BY <1>13, <2>1
<1>15. k[t] \in Unmet(d) /\ IsFiniteSet(Unmet(d))
  <2>1. k[t] \in Unmet(d)  BY <1>7, <1>12 DEF Unmet
  <2>2. Unmet(d) \subseteq Into(d)  BY DEF Unmet
  <2>3. QED  BY <1>5, <2>1, <2>2, FS_Subset
<1>16. dep[d] = Cardinality(Unmet(d))  BY <1>4, <1>7 DEF Counted, SeedingLabels
<1>17. /\ dep[d] - 1 = Cardinality(Unmet(d)') /\ (dep[d] = 1 <=> Unmet(d)' = {}) /\ dep[d] - 1 \in Nat
  <2>1. PICK A : A = Unmet(d)  OBVIOUS
  <2>2. /\ IsFiniteSet(A \ {k[t]}) /\ Cardinality(A \ {k[t]}) = Cardinality(A) - 1
        /\ Cardinality(A) = 1 <=> A \ {k[t]} = {}
    BY <1>15, <2>1, OneLess
  <2>3. Cardinality(A \ {k[t]}) \in Nat  BY <2>2, FS_CardinalityType
  <2>4. Unmet(d)' = A \ {k[t]} /\ dep[d] = Cardinality(A)  BY <1>13, <1>16, <2>1
  <2>5. QED  BY <2>2, <2>3, <2>4
<1>18. ~Ready(d)  BY <1>4, <1>7, <1>15 DEF Seeded
<1>19. \A u \in Threads : pc'[u] = "push" => k'[u] = k[u]  BY <1>8
<1>20. Unmet(d)' \subseteq Unmet(d) /\ pc'[t] \in {"release", "push"}  BY <1>8, <1>13
<1>21. QED  BY <1>2, <1>3, <1>6, <1>7, <1>8, <1>9, <1>10, <1>11, <1>14, <1>17, <1>18, <1>19, <1>20

LEMMA ReleaseOwnInv ==
  ASSUME TypeOK, BlockInv, SpawnedIntoOlder,
         NEW t \in Threads, Release(t), graph.routes[k[t]].src = task[t]
  PROVE  BlockInv'
<1> USE DEF InBlock, InTask
<1>1. PICK d \in Active :
    /\ d = graph.routes[k[t]].dst /\ k[t] \in DOMAIN graph.routes /\ ~Ready(d)
    /\ dep' = [dep EXCEPT ![d] = @ - 1] /\ dep[d] - 1 \in Nat
    /\ \A j \in DOMAIN graph.routes : Followed(j)' <=> Followed(j) \/ j = k[t]
    /\ dep[d] - 1 = Cardinality(Unmet(d)') /\ (dep[d] = 1 <=> Unmet(d)' = {})
    /\ Unmet(d)' \subseteq Unmet(d) /\ \A x : x # d => Unmet(x)' = Unmet(x)
    /\ \A u \in Threads : \A x : Holds(u, x)' <=> Holds(u, x)
    /\ \A u \in Threads : u # t => \A x : Pushes(u, x)' <=> Pushes(u, x)
    /\ \A x : Pushes(t, x)' <=> (dep[d] = 1 /\ x = d)
    /\ pc'[t] \in {"release", "push"} /\ \A u \in Threads : u # t => pc'[u] = pc[u]
    /\ \A u \in Threads : pc'[u] = "push" => k'[u] = k[u]
  BY ReleaseOwn
<1>2. PICK s : s = task[t]  OBVIOUS
<1>3. /\ pc[t] = "release" /\ graph.routes[k[t]].src = s
      /\ UNCHANGED <<graph, tasks_remaining, seeded, queue, task, output, runs>>
  BY <1>2 DEF Release
<1>4. /\ pc[audio] \in SeedingLabels /\ graph \in Graphs /\ OnePlace /\ Tasks /\ Seeded /\ Counted
      /\ s \in Slots /\ s \in Active /\ Holds(t, s) /\ runs[s] > 0 /\ output[s] = "done"
  BY <1>2, <1>3, InRoutes
<1>5. /\ graph.active \in Seq(Slots) /\ Active = Elements(graph.active) /\ Active \subseteq Slots
      /\ seeded \in Nat /\ d \in Slots
  BY BlockTypes, GraphIs
<1>6. d \notin Elements(queue) /\ runs[d] = 0 /\ \A u \in Threads : ~Holds(u, d) /\ ~Pushes(u, d)
  <2>1. runs[d] \in Nat  BY <1>5, BlockTypes
  <2>2. QED  BY SMTT(30), <1>1, <2>1 DEF Ready
<1>7. d \in Before(graph.active, seeded + 1)
  <2>1. s \in Before(graph.active, seeded + 1)  BY <1>4 DEF Seeded, Ready
  <2>2. PICK m \in DOMAIN graph.active : graph.active[m] = s /\ m < seeded + 1
    BY <2>1 DEF Before
  <2>3. PICK n \in DOMAIN graph.active : graph.active[n] = d  BY <1>5 DEF Elements
  <2>4. m > n  BY <1>1, <1>3, <1>4, <2>2, <2>3 DEF SpawnedIntoOlder
  <2>5. m \in Nat /\ n \in Nat
    <3>1. DOMAIN graph.active = 1..Len(graph.active)  BY <1>5
    <3>2. QED  BY <3>1
  <2>6. n < seeded + 1  BY <1>5, <2>2, <2>4, <2>5
  <2>7. QED  BY <2>3, <2>6 DEF Before
<1>8. OnePlace'
  <2>1. \A u, w \in Threads : \A x \in Slots : Holds(u, x)' /\ Holds(w, x)' => u = w
    BY <1>1, <1>4 DEF OnePlace
  <2>2. \A u, w \in Threads : \A x \in Slots : Pushes(u, x)' /\ Pushes(w, x)' => u = w
    BY <1>1, <1>4, <1>6 DEF OnePlace
  <2>3. queue' = queue /\ Elements(queue') = Elements(queue) /\ runs' = runs  BY <1>3
  <2>4. \A x \in Elements(queue) : x # d  BY <1>6
  <2>5. \A x \in Elements(queue') : runs'[x] = 0 /\ \A u \in Threads : ~Holds(u, x)' /\ ~Pushes(u, x)'
    BY <1>1, <1>4, <2>3, <2>4 DEF OnePlace
  <2>6. \A u, w \in Threads : \A x \in Slots : Pushes(u, x)' => runs'[x] = 0 /\ ~Holds(w, x)'
    BY <1>1, <1>4, <1>6, <2>3 DEF OnePlace
  <2>7. QED  BY <1>4, <2>1, <2>2, <2>3, <2>5, <2>6 DEF OnePlace
<1>9. \A x \in Slots : Finished(x)' <=> Finished(x)  BY <1>1, <1>3 DEF Finished
<1>10. Tasks'
  <2>1. \A u \in Threads :
          /\ pc'[u] = "gather" => pc[u] = "gather"
          /\ pc'[u] = "process" => pc[u] = "process"
          /\ pc'[u] \in {"release", "push"} => pc[u] \in {"release", "push"}
          /\ pc'[u] = "push" => k'[u] = k[u] /\ (pc[u] = "push" \/ u = t)
    BY <1>1, <1>3
  <2>2. ASSUME NEW u \in Threads, pc'[u] = "push"
        PROVE  k'[u] \in DOMAIN graph.routes /\ graph.routes[k'[u]].src = task'[u]
    BY <1>1, <1>2, <1>3, <1>4, <2>1, <2>2 DEF Tasks
  <2>3. QED  BY <1>3, <1>4, <1>9, <2>1, <2>2 DEF Tasks
<1>11. \A x \in Slots : Ready(x)' => Ready(x) \/ (x = d /\ dep[d] = 1)
  BY <1>1, <1>3 DEF Ready
<1>12. pc'[audio] \in SeedingLabels /\ (pc'[audio] = "close" => pc[audio] = "close")
  BY <1>1, <1>4, BlockTypes DEF SeedingLabels
<1>13. Seeded'
  <2>1. ASSUME NEW x \in Slots, Ready(x)'
        PROVE  Unmet(x)' = {} /\ x \in Before(graph.active, seeded + 1)
    <3>1. CASE Ready(x)
      <4>1. x # d  BY <1>1, <3>1
      <4>2. QED  BY <1>1, <1>4, <3>1, <4>1 DEF Seeded
    <3>2. CASE x = d /\ dep[d] = 1  BY <1>1, <1>7, <3>2
    <3>3. QED  BY <1>11, <2>1, <3>1, <3>2
  <2>2. QED  BY <1>3, <1>12, <2>1 DEF Seeded, SeedingLabels
<1>14. Active' = Active  BY <1>3 DEF Active
<1>15. Counted'
  <2>1. ASSUME NEW x \in Active PROVE dep'[x] = Cardinality(Unmet(x)')
    <3>1. x \in Slots /\ dep \in [Slots -> Nat]  BY <1>5, BlockTypes
    <3>2. CASE x = d  BY <1>1, <3>1, <3>2
    <3>3. CASE x # d
      <4>1. dep'[x] = dep[x] /\ Unmet(x)' = Unmet(x)  BY <1>1, <3>1, <3>3
      <4>2. dep[x] = Cardinality(Unmet(x))  BY <1>4 DEF Counted, SeedingLabels
      <4>3. QED  BY <4>1, <4>2
    <3>4. QED  BY <3>2, <3>3
  <2>2. {x \in Active : ~Finished(x)}' = {x \in Active : ~Finished(x)}  BY <1>5, <1>9, <1>14
  <2>3. tasks_remaining' = Cardinality({x \in Active : ~Finished(x)})'
    BY <1>3, <1>4, <2>2 DEF Counted, SeedingLabels
  <2>4. pc'[audio] = "close" => tasks_remaining' = 0  BY <1>3, <1>4, <1>12 DEF Counted
  <2>5. QED  BY <1>14, <2>1, <2>3, <2>4 DEF Counted
<1>16. QED  BY <1>3, <1>4, <1>8, <1>10, <1>12, <1>13, <1>15 DEF BlockInv, SeedingLabels

LEMMA ReleaseInv ==
  ASSUME TypeOK, BlockInv, SpawnedIntoOlder, NEW t \in Threads, Release(t)
  PROVE  BlockInv'
BY ReleaseOtherInv, ReleaseOwnInv

LEMMA PushReadyInv ==
  ASSUME TypeOK, BlockInv, NEW t \in Threads, PushReady(t)
  PROVE  BlockInv' /\ queue' \in Seq(Slots)
<1> USE DEF InBlock, InTask
<1>1. PICK s : s = task[t]  OBVIOUS
<1>2. PICK d : d = graph.routes[k[t]].dst  OBVIOUS
<1>3. /\ pc[t] = "push" /\ Push(d) /\ pc' = [pc EXCEPT ![t] = "release"]
      /\ k' = [k EXCEPT ![t] = @ + 1]
      /\ UNCHANGED <<graph, dep, tasks_remaining, seeded, task, output, runs>>
  BY <1>2 DEF PushReady, Goto, blockVars
<1>4. /\ pc[audio] \in SeedingLabels /\ graph \in Graphs /\ OnePlace /\ Tasks /\ Seeded /\ Counted
      /\ s \in Slots /\ Holds(t, s) /\ \A u \in Threads : Holds(u, s) => u = t
      /\ runs[s] > 0 /\ output[s] = "done" /\ k[t] \in Nat \ {0}
  BY <1>1, <1>3, InRoutes
<1>5. k[t] \in DOMAIN graph.routes /\ graph.routes[k[t]].src = s  BY <1>1, <1>3, <1>4 DEF Tasks
<1>6. d \in Slots /\ Pushes(t, d) /\ queue \in Seq(Slots)
  <2>1. d \in Active /\ Active \subseteq Slots  BY <1>2, <1>5, BlockTypes, GraphIs
  <2>2. QED  BY <1>2, <1>3, <2>1, BlockTypes DEF Pushes
<1>7. /\ d \notin Elements(queue) /\ runs[d] = 0 /\ \A u \in Threads : ~Holds(u, d)
      /\ \A u \in Threads : Pushes(u, d) => u = t
  BY <1>4, <1>6 DEF OnePlace
<1>8. queue' = Append(queue, d)  BY <1>3, <1>4, <1>6, <1>7, PushFits DEF OnePlace
<1>9. Elements(queue') = Elements(queue) \cup {d} /\ Distinct(queue') /\ queue' \in Seq(Slots)
  BY <1>4, <1>6, <1>7, <1>8, AppendElements DEF OnePlace
<1>10. /\ pc'[t] = "release" /\ k'[t] = k[t] + 1
       /\ \A u \in Threads : u # t => pc'[u] = pc[u] /\ k'[u] = k[u]
  BY <1>3, BlockTypes
<1>11. /\ \A u \in Threads : \A x : Holds(u, x)' <=> Holds(u, x)
       /\ \A u \in Threads : u # t => \A x : Pushes(u, x)' <=> Pushes(u, x)
       /\ \A x : ~Pushes(t, x)'
       /\ MovesOnly(t, s)
  <2>1. ASSUME NEW u \in Threads, NEW x PROVE Holds(u, x)' <=> Holds(u, x)
    BY <1>3, <1>10 DEF Holds
  <2>2. ASSUME NEW u \in Threads, u # t, NEW x PROVE Pushes(u, x)' <=> Pushes(u, x)
    BY <1>3, <1>10, <2>2 DEF Pushes
  <2>3. \A x : ~Pushes(t, x)'  BY <1>10 DEF Pushes
  <2>4. \A x : x # s => ~Holds(t, x) /\ ~Holds(t, x)'  BY <1>1, <1>3 DEF Holds
  <2>5. MovesOnly(t, s)  BY <1>3, <1>10, <2>4 DEF MovesOnly
  <2>6. QED  BY <2>1, <2>2, <2>3, <2>5
<1>12. ASSUME NEW j \in DOMAIN graph.routes PROVE Followed(j)' <=> Followed(j)
  <2>1. CASE graph.routes[j].src = s
    <3>1. j \in Nat  BY BlockTypes, GraphIs
    <3>2. j < k[t] + 1 <=> j < k[t] \/ j = k[t]  BY <1>4, <3>1
    <3>3. Along(t, j)' <=> Along(t, j)  BY <1>3, <1>10, <3>2 DEF Along
    <3>4. Followed(j) <=> runs[s] > 0 /\ Along(t, j)  BY <1>4, <2>1, OwnFollowed
    <3>5. Followed(j)' <=> runs'[s] > 0 /\ Along(t, j)'
      BY <1>3, <1>4, <1>11, <2>1, OwnFollowedNext
    <3>6. QED  BY <1>3, <3>3, <3>4, <3>5
  <2>2. CASE graph.routes[j].src # s  BY <1>11, <2>2, OthersFollowed
  <2>3. QED  BY <2>1, <2>2
<1>13. OnePlace'
  <2>1. \A u \in Threads : \A x : Pushes(u, x)' => Pushes(u, x) /\ u # t  BY <1>11
  <2>2. \A u \in Threads : ~Holds(u, d)' /\ ~Pushes(u, d)'  BY <1>7, <1>11, <2>1
  <2>3. \A x \in Elements(queue') : runs'[x] = 0 /\ \A u \in Threads : ~Holds(u, x)' /\ ~Pushes(u, x)'
    BY <1>3, <1>4, <1>7, <1>9, <1>11, <2>1, <2>2 DEF OnePlace
  <2>4. QED  BY <1>3, <1>4, <1>9, <1>11, <2>1, <2>3 DEF OnePlace
<1>14. \A x \in Slots : Finished(x)' <=> Finished(x)  BY <1>3, <1>11 DEF Finished
<1>15. Tasks'
  <2>1. \A u \in Threads :
          /\ pc'[u] = "gather" => pc[u] = "gather"
          /\ pc'[u] = "process" => pc[u] = "process"
          /\ pc'[u] \in {"release", "push"} => pc[u] \in {"release", "push"}
          /\ pc'[u] = "push" => k'[u] = k[u] /\ pc[u] = "push"
    BY <1>3, <1>10
  <2>2. QED  BY <1>3, <1>4, <1>14, <2>1 DEF Tasks
<1>16. \A x \in Slots : Ready(x)' => Ready(x)
  <2>1. Ready(d)  BY <1>6 DEF Ready
  <2>2. QED  BY <1>3, <1>9, <1>11, <2>1 DEF Ready
<1>17. \A x : Unmet(x)' = Unmet(x)
  <2>1. \A x : Into(x) \subseteq DOMAIN graph.routes /\ Into(x)' = Into(x)  BY <1>3 DEF Into
  <2>2. QED  BY <1>12, <2>1 DEF Unmet
<1>18. t = audio => pc'[t] \in SeedingLabels \ {"close"}  BY <1>10 DEF SeedingLabels
<1>19. QED
  BY <1>3, <1>4, <1>9, <1>10, <1>13, <1>14, <1>15, <1>16, <1>17, <1>18, TaskKeeps

LEMMA FinishInv ==
  ASSUME TypeOK, BlockInv, NEW t \in Threads, Finish(t)
  PROVE  BlockInv' /\ tasks_remaining' \in Nat
<1> USE DEF InBlock, InTask
<1>1. PICK s : s = task[t]  OBVIOUS
<1>2. /\ pc[t] = "release" /\ k[t] > Len(graph.routes)
      /\ tasks_remaining' = tasks_remaining - 1 /\ pc' = [pc EXCEPT ![t] = Again(t)]
      /\ UNCHANGED <<graph, dep, seeded, queue, task, k, output, runs>>
  BY DEF Finish, Goto, taskVars
<1>3. /\ pc[audio] \in SeedingLabels /\ graph \in Graphs /\ OnePlace /\ Tasks /\ Seeded /\ Counted
      /\ s \in Slots /\ s \in Active /\ Holds(t, s) /\ \A u \in Threads : Holds(u, s) => u = t
      /\ runs[s] > 0 /\ output[s] = "done" /\ k[t] \in Nat \ {0}
  BY <1>1, <1>2, InRoutes
<1>4. /\ pc'[t] \in {"help", "loop"} /\ (t = audio => pc'[t] = "help")
      /\ \A u \in Threads : u # t => pc'[u] = pc[u]
  BY <1>2, BlockTypes DEF Again
<1>5. pc[audio] # "close"  BY <1>2, AllFinished
<1>6. /\ \A u \in Threads : u # t => \A x : (Holds(u, x)' <=> Holds(u, x)) /\ (Pushes(u, x)' <=> Pushes(u, x))
      /\ \A x : ~Holds(t, x)' /\ ~Pushes(t, x)' /\ ~Pushes(t, x) /\ (Holds(t, x) <=> x = s)
      /\ MovesOnly(t, s)
  <2>1. ASSUME NEW u \in Threads, u # t, NEW x
        PROVE  (Holds(u, x)' <=> Holds(u, x)) /\ (Pushes(u, x)' <=> Pushes(u, x))
    BY <1>2, <1>4, <2>1 DEF Holds, Pushes
  <2>2. \A x : ~Holds(t, x)' /\ ~Pushes(t, x)' /\ ~Pushes(t, x) /\ (Holds(t, x) <=> x = s)
    BY <1>1, <1>2, <1>4 DEF Holds, Pushes
  <2>3. MovesOnly(t, s)  BY <1>2, <1>4, <2>2 DEF MovesOnly
  <2>4. QED  BY <2>1, <2>2, <2>3
<1>7. \A u \in Threads : ~Holds(u, s)'  BY <1>3, <1>6
<1>8. ASSUME NEW j \in DOMAIN graph.routes PROVE Followed(j)' <=> Followed(j)
  <2>1. CASE graph.routes[j].src = s
    <3>1. j < k[t]
      <4>1. j \in Nat /\ j <= Len(graph.routes) /\ Len(graph.routes) \in Nat  BY BlockTypes, GraphIs
      <4>2. QED  BY <1>2, <1>3, <4>1
    <3>2. Along(t, j)  BY <1>2, <3>1 DEF Along
    <3>3. Followed(j)  BY <1>3, <2>1, <3>2, OwnFollowed
    <3>4. Followed(j)'  BY <1>2, <1>3, <1>7, <2>1, OwnFollowedNext
    <3>5. QED  BY <3>3, <3>4
  <2>2. CASE graph.routes[j].src # s  BY <1>6, <2>2, OthersFollowed
  <2>3. QED  BY <2>1, <2>2
<1>9. \A x : Unmet(x)' = Unmet(x)
  <2>1. \A x : Into(x) \subseteq DOMAIN graph.routes /\ Into(x)' = Into(x)  BY <1>2 DEF Into
  <2>2. QED  BY <1>8, <2>1 DEF Unmet
<1>10. /\ \A x : x # s => (Finished(x)' <=> Finished(x))
       /\ ~Finished(s) /\ Finished(s)'
  BY <1>2, <1>3, <1>6, <1>7 DEF Finished
<1>11. OnePlace'
  <2>1. \A u \in Threads : \A x : (Holds(u, x)' => Holds(u, x)) /\ (Pushes(u, x)' => Pushes(u, x))
    BY <1>6
  <2>2. QED  BY <1>2, <1>3, <2>1 DEF OnePlace, Elements, Distinct
<1>12. Tasks'
  <2>1. \A u \in Threads : pc'[u] \in InTask => pc'[u] = pc[u]  BY <1>2, <1>4
  <2>2. QED  BY <1>2, <1>3, <1>10, <2>1 DEF Tasks
<1>13. \A x \in Slots : Ready(x)' => Ready(x)
  BY <1>2, <1>6 DEF Ready, Elements
<1>14. pc'[audio] \in SeedingLabels \ {"close"}  BY <1>3, <1>4, <1>5, BlockTypes DEF SeedingLabels
<1>15. Seeded'
  <2>1. \A x \in Slots : Unmet(x)' \subseteq Unmet(x)  BY <1>9
  <2>2. QED  BY <1>2, <1>3, <1>13, <1>14, <2>1, SeededKept
<1>16. /\ tasks_remaining = Cardinality({x \in Active : ~Finished(x)})
       /\ \A x \in Active : dep[x] = Cardinality(Unmet(x))
  BY <1>3 DEF Counted, SeedingLabels
<1> DEFINE A == {x \in Active : ~Finished(x)}
<1>17. A' = A \ {s}
  <2>1. Active' = Active  BY <1>2 DEF Active
  <2>2. QED  BY <1>10, <2>1
<1>18. s \in A /\ IsFiniteSet(A)
  <2>1. IsFiniteSet(Active)  BY BlockTypes, GraphIs
  <2>2. QED  BY <1>3, <1>10, <2>1, FS_Subset
<1>19. tasks_remaining' = Cardinality(A') /\ tasks_remaining' \in Nat
  <2>1. PICK B : B = A  OBVIOUS
  <2>2. s \in B /\ IsFiniteSet(B)  BY <1>18, <2>1
  <2>3. /\ IsFiniteSet(B \ {s}) /\ Cardinality(B \ {s}) = Cardinality(B) - 1
    BY <2>2, OneLess
  <2>4. Cardinality(B \ {s}) \in Nat  BY <2>3, FS_CardinalityType
  <2>5. A' = B \ {s} /\ tasks_remaining = Cardinality(B)  BY <1>16, <1>17, <2>1
  <2>6. QED  BY <1>2, <2>3, <2>4, <2>5
<1>20. Counted'
  <2>1. \A x \in Active' : dep'[x] = Cardinality(Unmet(x)')
    BY <1>2, <1>9, <1>16 DEF Active
  <2>2. QED  BY <1>14, <1>19, <2>1 DEF Counted, SeedingLabels
<1>21. QED
  BY <1>2, <1>3, <1>11, <1>12, <1>14, <1>15, <1>19, <1>20 DEF BlockInv, SeedingLabels

-----------------------------------------------------------------------------
(* The inductive invariant. *)

\* A thread without a task moves on: a pop that failed, a worker's loop, the
\* control thread's steps.
LEMMA IdlingInv ==
  ASSUME TypeOK, BlockInv, NEW t \in Threads,
         UNCHANGED <<graph, dep, queue, tasks_remaining, seeded, task, k, output, runs>>,
         \A u \in Threads : u # t => pc'[u] = pc[u],
         pc'[t] = pc[t] \/ (pc[t] \notin InTask /\ pc'[t] \notin InTask),
         t = audio => pc'[t] = pc[t] \/ (pc[t] = "pop" /\ pc'[t] = "help")
  PROVE  BlockInv'
<1> USE DEF InBlock, InTask
<1>1. \A u \in Threads : pc'[u] = pc[u] \/ (pc[u] \notin InTask /\ pc'[u] \notin InTask)
  OBVIOUS
<1>2. pc'[audio] = pc[audio] \/ (pc[audio] = "pop" /\ pc'[audio] = "help")  BY BlockTypes
<1>3. CASE pc[audio] \notin InBlock
  <2>1. pc'[audio] \notin InBlock  BY <1>2, <1>3
  <2>2. queue = << >> /\ \A u \in Threads : pc[u] \notin InTask  BY <1>3 DEF BlockInv
  <2>3. QED  BY <1>1, <2>1, <2>2 DEF BlockInv
<1>4. CASE pc[audio] \in InBlock
  <2>1. graph \in Graphs /\ OnePlace /\ Tasks /\ Seeded /\ Counted  BY <1>4 DEF BlockInv
  <2>2. /\ \A s \in Slots : (Ready(s)' <=> Ready(s)) /\ (Finished(s)' <=> Finished(s)) /\ Unmet(s)' = Unmet(s)
        /\ OnePlace' /\ Tasks'
    BY <1>1, <2>1, TasksRest
  <2>3. Seeded'
    <3>1. pc[audio] \in SeedingLabels => pc'[audio] \in SeedingLabels  BY <1>2 DEF SeedingLabels
    <3>2. QED  BY <2>1, <2>2, <3>1, SeededKept
  <2>4. Counted'
    <3>1. pc'[audio] = "close" => tasks_remaining = 0  BY <1>2, <2>1 DEF Counted
    <3>2. QED  BY <1>2, <2>1, <2>2, <3>1, BlockTypes, CountedKept
  <2>5. QED  BY <1>2, <1>4, <2>1, <2>2, <2>3, <2>4 DEF BlockInv
<1>5. QED  BY <1>3, <1>4

\* The audio thread alone: no thread has a task, and none gets one.
LEMMA AloneBlockInv ==
  ASSUME TypeOK, BlockInv, pc[audio] \in {"idle", "alone"}, pc'[audio] \in {"idle", "alone"},
         queue' = queue, \A t \in Threads : t # audio => pc'[t] = pc[t]
  PROVE  BlockInv'
<1> USE DEF InBlock, InTask
<1>1. queue = << >> /\ \A t \in Threads : pc[t] \notin InTask  BY DEF BlockInv
<1>2. \A t \in Threads : pc'[t] \notin InTask  BY <1>1
<1>3. QED  BY <1>1, <1>2 DEF BlockInv

LEMMA TaskBlockInv ==
  ASSUME TypeOK, BlockInv, SpawnedIntoOlder, NEW t \in Threads, TaskStep(t)
  PROVE  BlockInv'
<1>1. CASE PopEmpty(t)
  <2>1. /\ pc[t] = "pop" /\ pc'[t] \in {"help", "loop"} /\ (t = audio => pc'[t] = "help")
        /\ UNCHANGED <<graph, dep, queue, tasks_remaining, seeded, task, k, output, runs>>
        /\ \A u \in Threads : u # t => pc'[u] = pc[u]
    BY <1>1, BlockTypes DEF PopEmpty, Goto, Again, blockVars, taskVars
  <2>2. QED  BY <2>1, IdlingInv DEF InTask
<1>2. QED
  BY <1>1, PopInv, GatherInv, ProcessInv, ReleaseInv, PushReadyInv, FinishInv DEF TaskStep

LEMMA BlockStep ==
  ASSUME TypeOK, AloneInv, BlockInv, SpawnedIntoOlder, [Next]_vars
  PROVE  BlockInv'
<1> USE DEF InBlock, InTask
<1>1. audio \in Threads /\ pc \in [Threads -> Labels] /\ Workers \subseteq Threads /\ audio \notin Workers
  BY BlockTypes, ThreadsAssumption
<1>2. CASE UNCHANGED vars
  BY <1>1, <1>2, IdlingInv DEF vars, blockVars, taskVars
<1>3. ASSUME NEW g \in Available, StartAlone(g) PROVE BlockInv'
  BY <1>1, <1>3, AloneBlockInv DEF StartAlone, CanStart, Goto
<1>4. CASE OrderAlone \/ ComputeAlone \/ EndAlone
  <2>1. /\ phase # "idle" /\ queue' = queue
        /\ pc' = pc \/ pc' = [pc EXCEPT ![audio] = "idle"]
    BY <1>4
       DEF OrderAlone, ComputeAlone, EndAlone, Goto, Alone!Order, Alone!Roots, Alone!RootsDone, Alone!Follow,
           Alone!NextHead, Alone!FollowDone, Alone!Rest, Alone!RestDone, Alone!Compute, Alone!End
  <2>2. pc[audio] = "alone"  BY <2>1 DEF AloneInv, AloneTyped
  <2>3. QED  BY <1>1, <2>1, <2>2, AloneBlockInv
<1>5. ASSUME NEW w \in Workers, Loop(w) \/ CheckBlock(w) PROVE BlockInv'
  <2>1. /\ pc[w] \in {"loop", "check"} /\ pc'[w] \in {"loop", "check", "pop", "exited"}
        /\ UNCHANGED <<graph, dep, queue, tasks_remaining, seeded, task, k, output, runs>>
        /\ \A u \in Threads : u # w => pc'[u] = pc[u]
    BY <1>1, <1>5 DEF Loop, CheckBlock, Goto, blockVars, taskVars
  <2>2. QED  BY <1>1, <2>1, IdlingInv
<1>6. CASE Stop \/ Joined
  BY <1>1, <1>6, IdlingInv DEF Stop, Joined, blockVars, taskVars
<1>7. QED
  BY <1>1, <1>2, <1>3, <1>4, <1>5, <1>6, StartBlockInv, CountDepsInv, SetRemainingInv, AudioMovesInv,
     SeedOneInv, CloseBlockInv, TaskBlockInv
     DEF Next, AudioStep, WorkerStep

\* Nobody computes beside the audio thread when it computes alone.
LEMMA ComputedAloneStep ==
  ASSUME TypeOK, AloneInv, ComputedAlone, BlockInv, [Next]_vars
  PROVE  ComputedAlone'
<1> USE DEF InBlock, InTask
<1> DEFINE Done == {s \in Slots : output[s] = "done"}
<1>1. phase # "idle" <=> pc[audio] = "alone"  BY DEF AloneInv, AloneTyped
<1>2. pc[audio] = "alone" => \A t \in Threads : pc[t] \notin InTask  BY DEF BlockInv
<1>3. /\ order \in Seq(Slots) /\ at \in Nat \ {0} /\ audio \in Threads /\ output \in [Slots -> {"old", "writing", "done"}]
      /\ pc \in [Threads -> Labels]
  BY BlockTypes DEF AloneInv, AloneTyped
<1>4. ASSUME UNCHANGED <<output, phase, at, order>> PROVE ComputedAlone'
  BY <1>4 DEF ComputedAlone, Before
<1>5. ASSUME phase' = "idle" PROVE ComputedAlone'  BY <1>5 DEF ComputedAlone
<1>6. ASSUME NEW g \in Available, StartAlone(g) PROVE ComputedAlone'
  <2>1. output' = [s \in Slots |-> "old"] /\ phase' = "roots"
    BY <1>6 DEF StartAlone, NothingComputed, Alone!Begin
  <2>2. QED  BY <2>1 DEF ComputedAlone
<1>7. ASSUME OrderAlone PROVE ComputedAlone'
  <2>1. output' = output /\ phase # "idle" /\ phase # "compute" /\ Alone!Order
    BY <1>7 DEF OrderAlone, taskVars, Alone!Order, Alone!Roots, Alone!RootsDone, Alone!Follow,
           Alone!NextHead, Alone!FollowDone, Alone!Rest, Alone!RestDone
  <2>2. Done = {}  BY <2>1 DEF ComputedAlone
  <2>3. phase' = "compute" => at' = 1 /\ order' = order
    BY <2>1 DEF Alone!Order, Alone!Roots, Alone!RootsDone, Alone!Follow,
           Alone!NextHead, Alone!FollowDone, Alone!Rest, Alone!RestDone
  <2>4. Before(order, 1) = {}  BY <1>3, BeforeIs
  <2>5. QED  BY <2>1, <2>2, <2>3, <2>4 DEF ComputedAlone
<1>8. ASSUME ComputeAlone PROVE ComputedAlone'
  <2>1. /\ phase = "compute" /\ at <= Len(order) /\ UNCHANGED <<phase, order>> /\ at' = at + 1
        /\ output' = [output EXCEPT ![order[at]] = "done"]
    BY <1>8 DEF ComputeAlone, Alone!Compute
  <2>2. at \in DOMAIN order /\ order[at] \in Slots  BY <1>3, <2>1
  <2>3. Done = Before(order, at)  BY <2>1 DEF ComputedAlone
  <2>4. Done' = Done \cup {order[at]}  BY <1>3, <2>1, <2>2
  <2>5. Before(order, at + 1) = Before(order, at) \cup {order[at]}  BY <1>3, <2>2, BeforeIs
  <2>6. QED  BY <2>1, <2>3, <2>4, <2>5 DEF ComputedAlone
<1>9. CASE EndAlone  BY <1>5, <1>9 DEF EndAlone, Alone!End
<1>10. ASSUME NEW g \in Available, StartBlock(g) PROVE ComputedAlone'
  BY <1>1, <1>5, <1>10 DEF StartBlock, CanStart, aloneVars
<1>11. ASSUME NEW t \in Threads, TaskStep(t) PROVE ComputedAlone'
  <2>1. CASE Gather(t) \/ Process(t)
    <3>1. pc[t] \in InTask /\ phase' = phase  BY <2>1 DEF Gather, Process, aloneVars
    <3>2. phase' = "idle"  BY <1>1, <1>2, <3>1
    <3>3. QED  BY <1>5, <3>2
  <2>2. CASE PopEmpty(t) \/ Pop(t) \/ Release(t) \/ PushReady(t) \/ Finish(t)
    BY <1>4, <2>2 DEF PopEmpty, Pop, Release, PushReady, Finish, taskVars, aloneVars
  <2>3. QED  BY <1>11, <2>1, <2>2 DEF TaskStep
<1>12. CASE CountDeps \/ SetRemaining \/ OpenBlock \/ SeedOne \/ SeedDone \/ Help \/ CloseBlock
  BY <1>4, <1>12
     DEF CountDeps, SetRemaining, OpenBlock, SeedOne, SeedDone, Help, CloseBlock, taskVars, aloneVars
<1>13. CASE UNCHANGED vars \/ Stop \/ Joined
  BY <1>4, <1>13 DEF vars, Stop, Joined, taskVars, aloneVars
<1>14. ASSUME NEW w \in Workers, Loop(w) \/ CheckBlock(w) PROVE ComputedAlone'
  BY <1>4, <1>14 DEF Loop, CheckBlock, taskVars, aloneVars
<1>15. QED
  BY <1>3, <1>6, <1>7, <1>8, <1>9, <1>10, <1>11, <1>12, <1>13, <1>14, BlockTypes
     DEF Next, AudioStep, WorkerStep

\* What AloneInv says of compute_order's variables is what TypeOK says.
LEMMA TypeStep ==
  ASSUME TypeOK, AloneInv, BlockInv, SpawnedIntoOlder, [Next]_vars
  PROVE  TypeOK'
<1> DEFINE Own == <<dep, queue, tasks_remaining, block_active, running, pool, seeded, task, k, output, runs>>
<1>1. /\ phase' \in {"idle", "roots", "follow", "rest", "compute"} /\ at' \in Nat /\ over' \in Nat
      /\ indeg' \in [Slots -> Nat] /\ order' \in Seq(Slots) /\ pc' \in [Threads -> Labels]
  BY AloneStep DEF AloneInv, AloneTyped
<1>2. /\ graph \in AllGraphs /\ audio \in Threads /\ Workers \subseteq Threads
      /\ Len(graph.active) \in Nat /\ Active \subseteq Slots /\ \A s : IsFiniteSet(Into(s))
  <2>1. graph \in AllGraphs /\ audio \in Threads /\ Workers \subseteq Threads  BY BlockTypes
  <2>2. graph.active \in Seq(Slots) /\ Active \subseteq Slots /\ \A s : IsFiniteSet(Into(s))
    BY <2>1, GraphIs
  <2>3. QED  BY <2>1, <2>2
<1>3. ASSUME graph' = graph, pool' = pool, dep' \in [Slots -> Nat], queue' \in Seq(Slots),
             tasks_remaining' \in Nat, block_active' \in BOOLEAN, running' \in BOOLEAN, seeded' \in Nat,
             task' \in [Threads -> Slots], k' \in [Threads -> Nat \ {0}],
             output' \in [Slots -> {"old", "writing", "done"}], runs' \in [Slots -> Nat]
      PROVE  TypeOK'
  BY <1>1, <1>3 DEF TypeOK, Available
<1>4. ASSUME NEW g \in Available, StartBlock(g) \/ StartAlone(g) PROVE TypeOK'
  <2>1. /\ graph' = g /\ pool' = pool
        /\ output' = [s \in Slots |-> "old"] /\ runs' = [s \in Slots |-> 0]
        /\ UNCHANGED <<dep, queue, tasks_remaining, block_active, running, seeded, task, k>>
    BY <1>4 DEF StartBlock, StartAlone, Alone!Begin, NothingComputed, stopVars
  <2>2. graph' \in Available'  BY <1>4, <2>1 DEF Available
  <2>3. output' \in [Slots -> {"old", "writing", "done"}] /\ runs' \in [Slots -> Nat]  BY <2>1
  <2>4. QED  BY <1>1, <2>1, <2>2, <2>3 DEF TypeOK
<1>5. ASSUME UNCHANGED <<graph, Own>> PROVE TypeOK'
  BY <1>3, <1>5 DEF TypeOK
<1>6. CASE OrderAlone \/ EndAlone
  <2>1. graph' = graph
    BY <1>6
       DEF OrderAlone, EndAlone, Alone!Order, Alone!Roots, Alone!RootsDone, Alone!Follow,
           Alone!NextHead, Alone!FollowDone, Alone!Rest, Alone!RestDone, Alone!End
  <2>2. QED  BY <1>5, <1>6, <2>1 DEF OrderAlone, EndAlone, blockVars, taskVars, stopVars
<1>7. CASE ComputeAlone
  <2>1. /\ output' = [output EXCEPT ![order[at]] = "done"] /\ runs' = [runs EXCEPT ![order[at]] = @ + 1]
        /\ UNCHANGED <<graph, dep, queue, tasks_remaining, block_active, running, pool, seeded, task, k>>
    BY <1>7 DEF ComputeAlone, blockVars, stopVars
  <2>4. order[at] \in Slots
    <3>1. order \in Seq(Slots) /\ at \in Nat \ {0} /\ at <= Len(order)
      BY <1>7 DEF ComputeAlone, Alone!Compute, AloneInv, AloneTyped
    <3>2. QED  BY <3>1
  <2>5. output \in [Slots -> {"old", "writing", "done"}] /\ runs \in [Slots -> Nat]  BY BlockTypes
  <2>2. output' \in [Slots -> {"old", "writing", "done"}] /\ runs' \in [Slots -> Nat]
    BY <2>1, <2>4, <2>5
  <2>3. QED  BY <1>3, <2>1, <2>2 DEF TypeOK
<1>8. CASE CountDeps
  <2>1. \A s \in Slots : Cardinality(Into(s)) \in Nat  BY <1>2, FS_CardinalityType
  <2>2. /\ dep' \in [Slots -> Nat]
        /\ UNCHANGED <<graph, queue, tasks_remaining, block_active, running, pool, seeded, task, k, output, runs>>
    BY <1>8, <2>1 DEF CountDeps, taskVars, stopVars, TypeOK
  <2>3. QED  BY <1>3, <2>2 DEF TypeOK
<1>9. CASE SetRemaining \/ OpenBlock \/ SeedDone \/ Help \/ CloseBlock
  <2>1. /\ UNCHANGED <<graph, dep, queue, running, pool, task, k, output, runs>>
        /\ tasks_remaining' = tasks_remaining \/ tasks_remaining' = Len(graph.active)
        /\ block_active' = block_active \/ block_active' \in BOOLEAN
        /\ seeded' = seeded \/ seeded' = 0
    BY <1>9
       DEF SetRemaining, OpenBlock, SeedDone, Help, CloseBlock, blockVars, taskVars, stopVars
  <2>2. tasks_remaining' \in Nat /\ block_active' \in BOOLEAN /\ seeded' \in Nat
    BY <1>2, <2>1 DEF TypeOK
  <2>3. QED  BY <1>3, <2>1, <2>2 DEF TypeOK
<1>10. CASE SeedOne
  <2>1. /\ seeded < Len(graph.active) /\ seeded' = seeded + 1
        /\ UNCHANGED <<graph, dep, tasks_remaining, block_active, running, pool, task, k, output, runs>>
        /\ queue' = queue \/ queue' = Append(queue, graph.active[seeded + 1])
    BY <1>10 DEF SeedOne, Push, taskVars, stopVars
  <2>2. graph.active[seeded + 1] \in Slots
    <3>1. graph.active \in Seq(Slots) /\ seeded \in Nat  BY <1>2, GraphIs DEF TypeOK
    <3>2. QED  BY <2>1, <3>1
  <2>5. queue \in Seq(Slots) /\ seeded \in Nat  BY BlockTypes
  <2>6. Append(queue, graph.active[seeded + 1]) \in Seq(Slots)  BY <2>2, <2>5
  <2>3. queue' \in Seq(Slots) /\ seeded' \in Nat  BY <2>1, <2>5, <2>6
  <2>4. QED  BY <1>3, <2>1, <2>3 DEF TypeOK
<1>11. ASSUME NEW t \in Threads, TaskStep(t) PROVE TypeOK'
  <2> USE DEF blockVars, taskVars, stopVars
  <2>1. CASE PopEmpty(t)  BY <1>5, <2>1 DEF PopEmpty
  <2>2. CASE Pop(t)
    <3>1. /\ queue # << >> /\ task' = [task EXCEPT ![t] = Head(queue)] /\ queue' = Tail(queue)
          /\ UNCHANGED <<graph, dep, tasks_remaining, block_active, running, pool, seeded, k, output, runs>>
      BY <2>2 DEF Pop
    <3>2. queue \in Seq(Slots)  BY DEF TypeOK
    <3>3. Head(queue) \in Slots /\ queue' \in Seq(Slots)  BY <3>1, <3>2
    <3>4. task' \in [Threads -> Slots]  BY <3>1, <3>3 DEF TypeOK
    <3>5. QED  BY <1>3, <3>1, <3>3, <3>4 DEF TypeOK
  <2>3. CASE Gather(t)
    <3>1. /\ output' \in [Slots -> {"old", "writing", "done"}] /\ runs' \in [Slots -> Nat]
          /\ UNCHANGED <<graph, dep, queue, tasks_remaining, block_active, running, pool, seeded, task, k>>
      BY <2>3 DEF Gather, TypeOK
    <3>2. QED  BY <1>3, <3>1 DEF TypeOK
  <2>4. CASE Process(t)
    <3>1. /\ output' \in [Slots -> {"old", "writing", "done"}] /\ k' \in [Threads -> Nat \ {0}]
          /\ UNCHANGED <<graph, dep, queue, tasks_remaining, block_active, running, pool, seeded, task, runs>>
      BY <2>4 DEF Process, TypeOK
    <3>2. QED  BY <1>3, <3>1 DEF TypeOK
  <2>5. CASE Release(t)
    <3>1. /\ UNCHANGED <<graph, queue, tasks_remaining, block_active, running, pool, seeded, task, output, runs>>
          /\ k' = k \/ k' = [k EXCEPT ![t] = @ + 1]
      BY <2>5 DEF Release
    <3>2. k' \in [Threads -> Nat \ {0}]  BY <3>1 DEF TypeOK
    <3>3. dep' \in [Slots -> Nat]
      <4>1. CASE graph.routes[k[t]].src = task[t]
        <5>1. \E d \in Active : dep' = [dep EXCEPT ![d] = @ - 1] /\ dep[d] - 1 \in Nat
          BY <2>5, <4>1, ReleaseOwn
        <5>2. QED  BY <1>2, <5>1 DEF TypeOK
      <4>2. CASE graph.routes[k[t]].src # task[t]  BY <2>5, <4>2 DEF Release, TypeOK
      <4>3. QED  BY <4>1, <4>2
    <3>4. QED  BY <1>3, <3>1, <3>2, <3>3 DEF TypeOK
  <2>6. CASE PushReady(t)
    <3>1. queue' \in Seq(Slots)  BY <2>6, PushReadyInv
    <3>2. /\ k' \in [Threads -> Nat \ {0}]
          /\ UNCHANGED <<graph, dep, tasks_remaining, block_active, running, pool, seeded, task, output, runs>>
      BY <2>6 DEF PushReady, TypeOK
    <3>3. QED  BY <1>3, <3>1, <3>2 DEF TypeOK
  <2>7. CASE Finish(t)
    <3>1. tasks_remaining' \in Nat  BY <2>7, FinishInv
    <3>2. UNCHANGED <<graph, dep, queue, block_active, running, pool, seeded, task, k, output, runs>>
      BY <2>7 DEF Finish
    <3>3. QED  BY <1>3, <3>1, <3>2 DEF TypeOK
  <2>8. QED  BY <1>11, <2>1, <2>2, <2>3, <2>4, <2>5, <2>6, <2>7 DEF TaskStep
<1>12. ASSUME NEW w \in Workers, Loop(w) \/ CheckBlock(w) PROVE TypeOK'
  BY <1>5, <1>12 DEF Loop, CheckBlock, blockVars, taskVars, stopVars
<1>13. CASE Stop \/ Joined
  BY <1>1, <1>13 DEF Stop, Joined, TypeOK, Available, blockVars, taskVars
<1>14. CASE UNCHANGED vars  BY <1>5, <1>14 DEF vars, blockVars, taskVars, stopVars
<1>15. QED
  BY <1>2, <1>4, <1>6, <1>7, <1>8, <1>9, <1>10, <1>11, <1>12, <1>13, <1>14 DEF Next, AudioStep, WorkerStep

LEMMA InvStarts == Init => IInv
<1> SUFFICES ASSUME Init PROVE IInv  OBVIOUS
<1>1. /\ audio \in Threads /\ pc[audio] = "idle" /\ \A t \in Threads : pc[t] \in {"idle", "loop", "exited"}
      /\ pc \in [Threads -> Labels] /\ queue = << >>
  BY DEF Init, Threads, Labels
<1>2. BlockInv  BY <1>1 DEF BlockInv, InBlock, InTask
<1>3. ComputedAlone  BY DEF Init, Alone!Init, ComputedAlone
<1>4. NoTask \in Slots  BY SlotsAssumption DEF NoTask
<1>5. /\ phase = "idle" /\ at = 1 /\ over = 1 /\ indeg \in [Slots -> Nat] /\ order \in Seq(Slots)
  BY DEF Init, Alone!Init
<1>6. TypeOK
  <2>1. /\ graph \in Available /\ tasks_remaining \in Nat
        /\ block_active \in BOOLEAN /\ running \in BOOLEAN /\ pool \in {"none", "up", "joining", "gone"}
        /\ seeded \in Nat
    BY DEF Init
  <2>5. dep \in [Slots -> Nat]  BY DEF Init
  <2>6. queue \in Seq(Slots)  BY <1>1
  <2>2. /\ task \in [Threads -> Slots] /\ k \in [Threads -> Nat \ {0}]
        /\ output \in [Slots -> {"old", "writing", "done"}] /\ runs \in [Slots -> Nat]
    BY <1>4 DEF Init
  <2>3. phase \in {"idle", "roots", "follow", "rest", "compute"} /\ at \in Nat /\ over \in Nat  BY <1>5
  <2>4. QED  BY <1>1, <1>5, <2>1, <2>2, <2>3, <2>5, <2>6 DEF TypeOK
<1>7. QED  BY <1>2, <1>3, <1>6, AloneStarts DEF IInv

\* The inductive invariant of the executors: voices are only spawned into older
\* ones.
THEOREM Invariance == SpawnedIntoOlder => (Spec => []IInv)
<1> SUFFICES ASSUME SpawnedIntoOlder PROVE Spec => []IInv  OBVIOUS
<1>1. IInv /\ [Next]_vars => IInv'
  BY AloneStep, BlockStep, ComputedAloneStep, TypeStep DEF IInv
<1>2. QED  BY <1>1, InvStarts, PTL DEF Spec

LEMMA UpstreamDone ==
  ASSUME TypeOK, BlockInv, NEW t \in Threads, pc[t] = "process", NEW j \in Into(task[t])
  PROVE  output[graph.routes[j].src] = "done"
<1> USE DEF InBlock, InTask
<1>1. Tasks /\ Unmet(task[t]) = {}  BY TaskIs
<1>2. j \in DOMAIN graph.routes /\ Followed(j)  BY <1>1 DEF Unmet, Into
<1>3. PICK s : s = graph.routes[j].src  OBVIOUS
<1>4. s \in Slots  BY <1>2, <1>3, BlockTypes, GraphIs
<1>5. CASE \E u \in Threads : Holds(u, s)
  <2>1. PICK u \in Threads : Holds(u, s)  BY <1>5
  <2>2. pc[u] \in {"release", "push"} /\ task[u] = s  BY <1>2, <1>3, <2>1 DEF Followed, Holds
  <2>3. QED  BY <1>1, <1>3, <2>2 DEF Tasks
<1>6. CASE ~\E u \in Threads : Holds(u, s)
  <2>1. Finished(s)  BY <1>2, <1>3, <1>6 DEF Followed, Finished
  <2>2. QED  BY <1>1, <1>3, <1>4, <2>1 DEF Tasks
<1>7. QED  BY <1>5, <1>6

\* gather_inputs never reads a buffer of the last block, or one another thread
\* is writing: whatever order the threads take the tasks in, a task runs after
\* all that are routed into it.
THEOREM InputsAreComplete == SpawnedIntoOlder => (Spec => []InputsComplete)
<1>1. IInv => InputsComplete  BY UpstreamDone DEF IInv, InputsComplete
<1>2. QED  BY <1>1, Invariance, PTL

\* Once the audio thread has left compute_parallel no worker is in a task and
\* nothing is queued, and every active instance has its output.
THEOREM TheBarrierHolds == SpawnedIntoOlder => (Spec => []BarrierHolds)
<1>1. IInv => BarrierHolds
  <2> SUFFICES ASSUME IInv PROVE BarrierHolds  OBVIOUS
  <2> USE DEF InBlock, InTask
  <2>1. TypeOK /\ BlockInv /\ \A w \in Workers : w \in Threads  BY DEF IInv, Threads
  <2>2. CASE pc[audio] \notin InBlock  BY <2>1, <2>2 DEF BlockInv, BarrierHolds
  <2>3. CASE pc[audio] \in {"count", "remaining", "open"}
    <3>1. \A s \in Slots : ~Ready(s)  BY <2>1, <2>3, NothingReady
    <3>2. \A t \in Threads : pc[t] \notin InTask  BY <2>1, <3>1, BlockTypes DEF Ready, Holds
    <3>3. queue = << >>
      <4>1. SUFFICES ASSUME queue # << >> PROVE FALSE  OBVIOUS
      <4>2. Head(queue) \in Elements(queue) /\ Head(queue) \in Slots
        BY <2>1, <4>1, BlockTypes, TailElements
      <4>3. QED  BY <3>1, <4>2 DEF Ready
    <3>4. QED  BY <2>1, <2>3, <3>2, <3>3 DEF BarrierHolds
  <2>4. CASE pc[audio] = "close"
    <3>1. /\ \A s \in Active : Finished(s)
          /\ queue = << >> /\ \A t \in Threads : pc[t] \notin InTask
      BY <2>1, <2>4, AllFinished
    <3>2. Tasks /\ Active \subseteq Slots  BY <2>1, <2>4, BlockTypes, GraphIs DEF BlockInv
    <3>3. QED  BY <2>1, <3>1, <3>2 DEF BarrierHolds, Tasks
  <2>5. CASE pc[audio] \notin Outside
    <3>1. pc[audio] # "close"  BY <2>5 DEF Outside
    <3>2. QED  BY <2>5, <3>1 DEF BarrierHolds
  <2>6. QED  BY <2>2, <2>3, <2>4, <2>5 DEF Outside
<1>2. QED  BY <1>1, Invariance, PTL

\* A task that ran is no one's again before the next block.
RunsOnce ==
  /\ OncePerBlock
  /\ \A s \in Slots : output[s] = "old" => runs[s] = 0
  /\ phase # "idle" => \A s \in Slots : output[s] # "writing"

LEMMA RunsOnceStep ==
  ASSUME IInv, RunsOnce, [Next]_vars
  PROVE  RunsOnce'
<1> USE DEF InBlock, InTask
<1>1. /\ TypeOK /\ AloneInv /\ ComputedAlone /\ BlockInv
      /\ phase # "idle" <=> pc[audio] = "alone"
      /\ runs \in [Slots -> Nat] /\ output \in [Slots -> {"old", "writing", "done"}]
  BY DEF IInv, TypeOK, AloneInv, AloneTyped
<1>2. ASSUME UNCHANGED <<output, runs>>, phase' # "idle" => phase # "idle" PROVE RunsOnce'
  BY <1>2 DEF RunsOnce, OncePerBlock
<1>3. ASSUME NEW g \in Available, StartBlock(g) \/ StartAlone(g) PROVE RunsOnce'
  <2>1. output' = [s \in Slots |-> "old"] /\ runs' = [s \in Slots |-> 0]
    BY <1>3 DEF StartBlock, StartAlone, NothingComputed
  <2>2. QED  BY <2>1 DEF RunsOnce, OncePerBlock
<1>4. CASE OrderAlone \/ EndAlone
  BY <1>2, <1>4
     DEF OrderAlone, EndAlone, taskVars, Alone!Order, Alone!Roots, Alone!RootsDone, Alone!Follow,
         Alone!NextHead, Alone!FollowDone, Alone!Rest, Alone!RestDone, Alone!End
<1>5. CASE ComputeAlone
  <2>1. PICK s : s = order[at]  OBVIOUS
  <2>2. /\ phase = "compute" /\ at <= Len(order) /\ phase' = phase
        /\ output' = [output EXCEPT ![s] = "done"] /\ runs' = [runs EXCEPT ![s] = @ + 1]
    BY <1>5, <2>1 DEF ComputeAlone, Alone!Compute
  <2>3. order \in Seq(Slots) /\ at \in Nat \ {0} /\ Distinct(order)
    BY <1>1, <2>2 DEF AloneInv, AloneTyped, Ordered
  <2>4. at \in DOMAIN order /\ s \in Slots  BY <2>1, <2>2, <2>3
  <2>5. s \notin Before(order, at)
    <3>1. ASSUME NEW l \in DOMAIN order, order[l] = s PROVE ~(l < at)
      <4>1. l = at  BY <2>1, <2>3, <2>4, <3>1 DEF Distinct
      <4>2. QED  BY <2>3, <4>1
    <3>2. QED  BY <3>1 DEF Before
  <2>6. output[s] # "done"  BY <1>1, <2>2, <2>4, <2>5 DEF ComputedAlone
  <2>7. runs[s] = 0  BY <1>1, <2>2, <2>4, <2>6 DEF RunsOnce
  <2>8. QED  BY <1>1, <2>2, <2>4, <2>7 DEF RunsOnce, OncePerBlock
<1>6. ASSUME NEW t \in Threads, Gather(t) PROVE RunsOnce'
  <2>1. PICK s : s = task[t]  OBVIOUS
  <2>2. /\ pc[t] = "gather" /\ phase' = phase
        /\ output' = [output EXCEPT ![s] = "writing"] /\ runs' = [runs EXCEPT ![s] = @ + 1]
    BY <1>6, <2>1 DEF Gather, aloneVars
  <2>3. s \in Slots /\ runs[s] = 0 /\ pc[audio] \in InBlock  BY <1>1, <2>1, <2>2, TaskIs DEF Tasks
  <2>4. phase = "idle"  BY <1>1, <2>3
  <2>5. QED  BY <1>1, <2>2, <2>3, <2>4 DEF RunsOnce, OncePerBlock
<1>7. ASSUME NEW t \in Threads, Process(t) PROVE RunsOnce'
  <2>1. output' = [output EXCEPT ![task[t]] = "done"] /\ runs' = runs /\ phase' = phase
    BY <1>7 DEF Process, aloneVars
  <2>2. QED  BY <1>1, <2>1 DEF RunsOnce, OncePerBlock
<1>8. ASSUME NEW t \in Threads, PopEmpty(t) \/ Pop(t) \/ Release(t) \/ PushReady(t) \/ Finish(t)
      PROVE  RunsOnce'
  BY <1>2, <1>8 DEF PopEmpty, Pop, Release, PushReady, Finish, taskVars, aloneVars
<1>9. CASE CountDeps \/ SetRemaining \/ OpenBlock \/ SeedOne \/ SeedDone \/ Help \/ CloseBlock
  BY <1>2, <1>9
     DEF CountDeps, SetRemaining, OpenBlock, SeedOne, SeedDone, Help, CloseBlock, taskVars, aloneVars
<1>10. CASE UNCHANGED vars \/ Stop \/ Joined
  BY <1>2, <1>10 DEF vars, Stop, Joined, taskVars, aloneVars
<1>11. ASSUME NEW w \in Workers, Loop(w) \/ CheckBlock(w) PROVE RunsOnce'
  BY <1>2, <1>11 DEF Loop, CheckBlock, taskVars, aloneVars
<1>12. QED
  BY <1>1, <1>3, <1>4, <1>5, <1>6, <1>7, <1>8, <1>9, <1>10, <1>11, BlockTypes
     DEF Next, AudioStep, WorkerStep, TaskStep

\* The seeding loop reads dep while tasks count it down; yet when voices are
\* only spawned into older ones the loop is past whatever a task makes ready,
\* and no instance is computed twice in a block.
THEOREM NobodyRunsTwice == SpawnedIntoOlder => (Spec => []OncePerBlock)
<1> SUFFICES ASSUME SpawnedIntoOlder PROVE Spec => []OncePerBlock  OBVIOUS
<1>1. Init => RunsOnce  BY DEF Init, Alone!Init, RunsOnce, OncePerBlock
<1>2. IInv /\ RunsOnce /\ [Next]_vars => RunsOnce'  BY RunsOnceStep
<1>3. RunsOnce => OncePerBlock  BY DEF RunsOnce
<1>4. Spec => []IInv  BY Invariance
<1>5. QED  BY <1>1, <1>2, <1>3, <1>4, PTL DEF Spec

-----------------------------------------------------------------------------
(* Both executors implement BlockCompute. *)

Done == {s \in Slots : output[s] = "done"}

LEMMA UpstreamIs ==
  ASSUME NEW s
  PROVE  /\ Block!Active(graph) = Active
         /\ \A x \in Block!Upstream(graph, s) : \E j \in Into(s) : x = graph.routes[j].src
         /\ \A j \in Into(s) : graph.routes[j].src \in Block!Upstream(graph, s)
BY DEF Block!Active, Block!Upstream, Active, Into

\* What a step of the executors is to the block, if it computes nothing.
LEMMA Stutters ==
  ASSUME graph' = graph, output' = output, pc'[audio] = "idle" <=> pc[audio] = "idle"
  PROVE  UNCHANGED Block!vars
<1>1. {s \in Slots : output[s] = "done"}' = {s \in Slots : output[s] = "done"}  OBVIOUS
<1>2. QED  BY <1>1 DEF Block!vars

LEMMA Computes ==
  ASSUME NEW s \in Active, graph' = graph, pc[audio] # "idle", pc'[audio] # "idle", s \notin Done,
         Done' = Done \cup {s},
         (\A j \in Into(s) : graph.routes[j].src \in Done) \/ Block!FedByCycle(graph, s)
  PROVE  Block!Next
<1>1. (\A j \in Into(s) : graph.routes[j].src \in Done) => Block!Upstream(graph, s) \subseteq Done
  BY UpstreamIs
<1>2. Block!Compute(s)  BY <1>1, UpstreamIs DEF Block!Compute, Done
<1>3. QED  BY <1>2, UpstreamIs DEF Block!Next

\* compute_sequential computes in the order of compute_order: after all that are
\* routed into it, or out of the fallback, which a cycle feeds.
LEMMA ComputeAloneIsCompute ==
  ASSUME IInv, ComputeAlone
  PROVE  Block!Next
<1>1. PICK s : s = order[at]  OBVIOUS
<1>2. /\ phase = "compute" /\ at <= Len(order) /\ pc' = pc /\ graph' = graph
      /\ output' = [output EXCEPT ![s] = "done"]
  BY <1>1 DEF ComputeAlone, Alone!Compute, blockVars
<1>3. /\ TypeOK /\ AloneInv /\ ComputedAlone /\ pc[audio] = "alone"
      /\ output \in [Slots -> {"old", "writing", "done"}]
  BY <1>2 DEF IInv, TypeOK, AloneInv, AloneTyped
<1>4. order \in Seq(Slots) /\ at \in Nat \ {0} /\ Distinct(order) /\ Elements(order) = Active
  BY <1>2, <1>3 DEF AloneInv, AloneTyped, Ordered
<1>5. at \in DOMAIN order /\ s \in Slots  BY <1>1, <1>2, <1>4
<1>6. s \in Active  BY <1>1, <1>4, <1>5 DEF Elements
<1>7. s \notin Before(order, at)
  <2>1. ASSUME NEW l \in DOMAIN order, order[l] = s PROVE ~(l < at)
    <3>1. l = at  BY <1>1, <1>4, <1>5, <2>1 DEF Distinct
    <3>2. QED  BY <1>4, <3>1
  <2>2. QED  BY <2>1 DEF Before
<1>8. Done = Before(order, at)  BY <1>2, <1>3 DEF ComputedAlone, Done
<1>9. Done' = Done \cup {s}  BY <1>2, <1>3, <1>5 DEF Done
<1>10. CASE indeg[s] = 0
  <2>1. Sourced(at)  BY <1>1, <1>2, <1>3, <1>5, <1>10 DEF AloneInv, Ordered
  <2>2. ASSUME NEW j \in Into(s) PROVE graph.routes[j].src \in Done
    <3>1. PICK n \in 1..at-1 : order[n] = graph.routes[j].src  BY <1>1, <2>1, <2>2 DEF Sourced
    <3>2. n \in DOMAIN order /\ n < at
      <4>1. DOMAIN order = 1..Len(order) /\ Len(order) \in Nat  BY <1>4
      <4>2. QED  BY <1>4, <1>5, <4>1
    <3>3. QED  BY <1>8, <3>1, <3>2 DEF Before
  <2>3. QED  BY <1>2, <1>3, <1>6, <1>7, <1>8, <1>9, <2>2, Computes
<1>11. CASE indeg[s] # 0
  <2> DEFINE C == {c \in Active : indeg[c] # 0}
  <2>1. ASSUME NEW c \in C PROVE Block!Upstream(graph, c) \cap C # {}
    <3>1. PICK j \in Into(c) : indeg[graph.routes[j].src] # 0
      BY <1>2, <1>3 DEF AloneInv, Left
    <3>2. graph.routes[j].src \in Active  BY <1>3, BlockTypes, GraphIs DEF Into
    <3>3. QED  BY <3>1, <3>2, UpstreamIs
  <2>2. C \in SUBSET Active /\ s \in C  BY <1>6, <1>11
  <2>3. Block!FedByCycle(graph, s)  BY <2>1, <2>2, UpstreamIs DEF Block!FedByCycle
  <2>4. QED  BY <1>2, <1>3, <1>6, <1>7, <1>8, <1>9, <2>3, Computes
<1>12. QED  BY <1>10, <1>11

LEMMA ProcessIsCompute ==
  ASSUME IInv, NEW t \in Threads, Process(t)
  PROVE  Block!Next
<1> USE DEF InBlock, InTask
<1>1. PICK s : s = task[t]  OBVIOUS
<1>2. /\ pc[t] = "process" /\ pc' = [pc EXCEPT ![t] = "release"] /\ graph' = graph
      /\ output' = [output EXCEPT ![s] = "done"]
  BY <1>1 DEF Process, Goto, blockVars
<1>3. TypeOK /\ BlockInv /\ output \in [Slots -> {"old", "writing", "done"}]  BY DEF IInv, TypeOK
<1>4. /\ s \in Slots /\ s \in Active /\ output[s] = "writing" /\ pc[audio] # "idle"
  BY <1>1, <1>2, <1>3, TaskIs DEF Tasks
<1>5. pc'[audio] # "idle"  BY <1>2, <1>3, <1>4, BlockTypes
<1>6. s \notin Done /\ Done' = Done \cup {s}  BY <1>2, <1>3, <1>4 DEF Done
<1>7. ASSUME NEW j \in Into(s) PROVE graph.routes[j].src \in Done
  <2>1. output[graph.routes[j].src] = "done"  BY <1>1, <1>2, <1>3, <1>7, UpstreamDone
  <2>2. graph.routes[j].src \in Slots  BY <1>3, BlockTypes, GraphIs DEF Into
  <2>3. QED  BY <2>1, <2>2 DEF Done
<1>8. QED  BY <1>2, <1>4, <1>5, <1>6, <1>7, Computes

LEMMA BlockStepIs ==
  ASSUME IInv, [Next]_vars
  PROVE  Block!Next \/ UNCHANGED Block!vars
<1> USE DEF InBlock, InTask
<1>1. /\ TypeOK /\ AloneInv /\ ComputedAlone /\ BlockInv
      /\ audio \in Threads /\ pc \in [Threads -> Labels] /\ Workers \subseteq Threads /\ audio \notin Workers
      /\ output \in [Slots -> {"old", "writing", "done"}]
      /\ phase # "idle" <=> pc[audio] = "alone"
  BY BlockTypes, ThreadsAssumption DEF IInv, AloneInv, AloneTyped
<1>2. ASSUME NEW g \in Available, StartBlock(g) \/ StartAlone(g) PROVE Block!Next
  <2>1. /\ pc[audio] = "idle" /\ graph' = g /\ output' = [s \in Slots |-> "old"]
        /\ pc' = [pc EXCEPT ![audio] = "count"] \/ pc' = [pc EXCEPT ![audio] = "alone"]
    BY <1>2 DEF StartBlock, StartAlone, CanStart, Alone!Begin, NothingComputed, Goto
  <2>2. pc'[audio] # "idle" /\ {s \in Slots : output[s] = "done"}' = {}  BY <1>1, <2>1
  <2>3. graph' \in AllGraphs  BY <2>1 DEF Available, AllGraphs
  <2>4. QED  BY <2>1, <2>2, <2>3 DEF Block!Next, Block!Begin
<1>3. CASE OrderAlone
  <2>1. graph' = graph
    BY <1>3
       DEF OrderAlone, Alone!Order, Alone!Roots, Alone!RootsDone, Alone!Follow,
           Alone!NextHead, Alone!FollowDone, Alone!Rest, Alone!RestDone
  <2>2. QED  BY <1>3, <2>1, Stutters DEF OrderAlone, taskVars
<1>4. CASE EndAlone
  <2>1. /\ phase = "compute" /\ at > Len(order) /\ graph' = graph /\ output' = output
        /\ pc' = [pc EXCEPT ![audio] = "idle"]
    BY <1>4 DEF EndAlone, Alone!End, Goto, taskVars
  <2>2. pc[audio] # "idle" /\ pc'[audio] = "idle"  BY <1>1, <2>1
  <2>3. order \in Seq(Slots) /\ at \in Nat \ {0} /\ Elements(order) = Active
    BY <1>1, <2>1 DEF AloneInv, AloneTyped
  <2>4. {s \in Slots : output[s] = "done"} = Active  BY <1>1, <2>1, <2>3, BeforeIs DEF ComputedAlone
  <2>5. QED  BY <2>1, <2>2, <2>4, UpstreamIs DEF Block!Next, Block!End
<1>5. CASE CloseBlock
  <2>1. /\ pc[audio] = "close" /\ graph' = graph /\ output' = output
        /\ pc' = [pc EXCEPT ![audio] = "idle"]
    BY <1>5 DEF CloseBlock, Goto, taskVars
  <2>2. pc[audio] # "idle" /\ pc'[audio] = "idle"  BY <1>1, <2>1
  <2>3. /\ \A s \in Active : Finished(s)
        /\ \A s \in Slots : Ready(s) => s \in Active
    BY <1>1, <2>1, AllFinished
  <2>4. Tasks /\ Active \subseteq Slots  BY <1>1, <2>1, BlockTypes, GraphIs DEF BlockInv
  <2>5. ASSUME NEW s \in Slots, output[s] = "done" PROVE s \in Active
    <3>1. runs[s] # 0 /\ runs[s] \in Nat  BY <1>1, <2>4, <2>5, BlockTypes DEF Tasks
    <3>2. QED  BY <2>3, <3>1 DEF Ready
  <2>6. {s \in Slots : output[s] = "done"} = Active  BY <2>3, <2>4, <2>5 DEF Tasks
  <2>7. QED  BY <2>1, <2>2, <2>6, UpstreamIs DEF Block!Next, Block!End
<1>6. CASE CountDeps \/ SetRemaining \/ OpenBlock \/ SeedOne \/ SeedDone \/ Help
  <2>1. /\ graph' = graph /\ output' = output
        /\ pc[audio] \in {"count", "remaining", "open", "seed", "help"}
        /\ pc' = pc \/ \E l \in {"remaining", "open", "seed", "help", "pop", "close"} :
                          pc' = [pc EXCEPT ![audio] = l]
    BY <1>6 DEF CountDeps, SetRemaining, OpenBlock, SeedOne, SeedDone, Help, Goto, taskVars, blockVars
  <2>2. pc'[audio] # "idle" /\ pc[audio] # "idle"  BY <1>1, <2>1
  <2>3. QED  BY <2>1, <2>2, Stutters
<1>7. ASSUME NEW t \in Threads, PopEmpty(t) \/ Pop(t) \/ Release(t) \/ PushReady(t) \/ Finish(t)
      PROVE  UNCHANGED Block!vars
  <2>1. /\ graph' = graph /\ output' = output
        /\ pc[t] \in {"pop", "release", "push"}
        /\ pc' = pc \/ \E l \in {"gather", "release", "push", "help", "loop"} : pc' = [pc EXCEPT ![t] = l]
    BY <1>7 DEF PopEmpty, Pop, Release, PushReady, Finish, Again, Goto, taskVars, blockVars
  <2>2. pc'[audio] = "idle" <=> pc[audio] = "idle"  BY <1>1, <2>1
  <2>3. QED  BY <2>1, <2>2, Stutters
<1>8. ASSUME NEW t \in Threads, Gather(t) PROVE UNCHANGED Block!vars
  <2>1. PICK s : s = task[t]  OBVIOUS
  <2>2. /\ pc[t] = "gather" /\ pc' = [pc EXCEPT ![t] = "process"] /\ graph' = graph
        /\ output' = [output EXCEPT ![s] = "writing"]
    BY <1>8, <2>1 DEF Gather, Goto, blockVars
  <2>3. s \in Slots /\ output[s] = "old"  BY <1>1, <2>1, <2>2, TaskIs DEF Tasks
  <2>4. {x \in Slots : output[x] = "done"}' = {x \in Slots : output[x] = "done"}  BY <1>1, <2>2, <2>3
  <2>5. pc'[audio] = "idle" <=> pc[audio] = "idle"  BY <1>1, <2>2
  <2>6. QED  BY <2>2, <2>4, <2>5 DEF Block!vars
<1>9. ASSUME NEW w \in Workers, Loop(w) \/ CheckBlock(w) PROVE UNCHANGED Block!vars
  <2>1. graph' = graph /\ output' = output /\ \E l \in Labels : pc' = [pc EXCEPT ![w] = l]
    BY <1>9 DEF Loop, CheckBlock, Goto, taskVars, blockVars, Labels
  <2>2. pc'[audio] = pc[audio]  BY <1>1, <2>1
  <2>3. QED  BY <2>1, <2>2, Stutters
<1>10. CASE UNCHANGED vars \/ Stop \/ Joined
  BY <1>10, Stutters DEF vars, Stop, Joined, taskVars, blockVars
<1>11. QED
  BY <1>1, <1>2, <1>3, <1>4, <1>5, <1>6, <1>7, <1>8, <1>9, <1>10, ComputeAloneIsCompute, ProcessIsCompute
     DEF Next, AudioStep, WorkerStep, TaskStep

\* However the threads share the tasks, a block is what BlockCompute says: each
\* active instance is computed once, after all that are routed into it unless a
\* cycle feeds it, and the block ends when all were.  (That it ends is a matter
\* of fairness, which TLC checks.)
THEOREM BlockIsImplemented == SpawnedIntoOlder => (Spec => BlockSafe)
<1> SUFFICES ASSUME SpawnedIntoOlder PROVE Spec => BlockSafe  OBVIOUS
<1>1. Init => Block!Init
  <2> SUFFICES ASSUME Init PROVE Block!Init  OBVIOUS
  <2>1. graph \in AllGraphs  BY DEF Init, Available, AllGraphs
  <2>2. pc[audio] = "idle"  BY DEF Init, Threads
  <2>3. {s \in Slots : output[s] = "done"} = {}  BY DEF Init
  <2>4. QED  BY <2>1, <2>2, <2>3 DEF Block!Init
<1>2. IInv /\ [Next]_vars => [Block!Next]_(Block!vars)  BY BlockStepIs
<1>3. Spec => []IInv  BY Invariance
<1>4. QED  BY <1>1, <1>2, <1>3, PTL DEF Spec, BlockSafe
=============================================================================
