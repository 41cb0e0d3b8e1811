------------------------------ MODULE Compile ------------------------------
(***************************************************************************)
(* compile() of schedule.cpp: a blueprint becomes a compiled_schedule.     *)
(* Four passes, each over the nodes: Kahn's sort of the graph of audio and *)
(* parameter connections; rate and block size carried along that order and *)
(* checked; then offsets of contexts, output buffers, state and control    *)
(* ports, in the order of the nodes.  A cycle or a mismatch ends it with   *)
(* ok = false.  A blueprint is a record: nodes, a sequence of descriptions *)
(* (numbers of inputs, outputs and params, the two ratios, state size and  *)
(* alignment, whether setup_state is overridden, and what the node is for  *)
(* Instance), and its connections, both kinds in one sequence, audio       *)
(* first, as compile() lists them.                                         *)
(***************************************************************************)
EXTENDS Integers, Sequences, SequencesExt

CONSTANTS
  Blueprints,   \* the blueprints compile() may be given
  BlockSizes    \* the block sizes B, powers of two (engine::init refuses others)

N == INSTANCE StandardNodes

Powers == {2^k : k \in 0..16}

NodeType == [ins : Nat, outs : Nat, params : Nat,
             rnum : Nat \ {0}, rden : Nat \ {0}, bnum : Nat \ {0}, bden : Nat \ {0},
             bytes : Nat, align : Powers, hosted : BOOLEAN,
             dsp : {"any", "stft", "stft_fwd", "stft_bwd"} \cup {"counter", "sah"} \cup N!Stateless,
         size : Nat, preset : Int]

Connection == [src : Nat, out : Nat, dst : Nat, port : Nat, param : BOOLEAN]

ASSUME BlockSizesAssumption == BlockSizes \subseteq Powers
\* What graph_blueprint::connect and connect_param let in.
WellFormed(b) ==
  /\ b.nodes \in Seq(NodeType) /\ b.conns \in Seq(Connection)
  /\ \A i \in DOMAIN b.conns : LET c == b.conns[i] IN
       /\ {c.src, c.dst} \subseteq DOMAIN b.nodes
       /\ c.out \in 0..(b.nodes[c.src].outs - 1)
       /\ c.port \in 0..((IF c.param THEN b.nodes[c.dst].params
                                     ELSE b.nodes[c.dst].ins) - 1)
       /\ \A j \in DOMAIN b.conns :
            [b.conns[j] EXCEPT !.src = c.src, !.out = c.out] = c => i = j
ASSUME BlueprintsAssumption == \A b \in Blueprints : WellFormed(b)

VARIABLES
  bp, B,            \* compile()'s arguments
  pass,             \* the pass it is in, then "ok" or "failed"; "idle" before
  in_degree, queue, \* of the sort
  topo_order,
  next,             \* index of the next node of the later passes
  region_rate,      \* sample-rate multiplier of each node
  blk_exp,          \* its block is B * 2^blk_exp
  node_block, calls,
  off,              \* ends so far: contexts, output samples, state bytes, ports
  ctx_base, out_base_sample, state_offset, param_base

vars == <<bp, B, pass, in_degree, queue, topo_order, next, region_rate, blk_exp,
          node_block, calls, off, ctx_base, out_base_sample, state_offset, param_base>>
sortVars == <<in_degree, queue, topo_order>>
rateVars == <<region_rate, blk_exp, node_block, calls>>
layoutVars == <<off, ctx_base, out_base_sample, state_offset, param_base>>

Nodes == DOMAIN bp.nodes
Node(v) == bp.nodes[v]
Into(b, v) == {i \in DOMAIN b.conns : b.conns[i].dst = v}
Sources(v) == {bp.conns[i].src : i \in Into(bp, v)}

Empty == [nodes |-> << >>, conns |-> << >>]

\* The numbers of a finite set, the least first.
Ascending(S) == [n \in 1..Cardinality(S) |->
                   CHOOSE x \in S : Cardinality({y \in S : y < x}) = n - 1]

Init ==
  /\ bp = Empty /\ B \in BlockSizes /\ pass = "idle"
  /\ in_degree = << >> /\ queue = << >> /\ topo_order = << >> /\ next = 1
  /\ region_rate = << >> /\ blk_exp = << >> /\ node_block = << >> /\ calls = << >>
  /\ off = [ctx |-> 0, out |-> 0, state |-> 0, param |-> 0]
  /\ ctx_base = << >> /\ out_base_sample = << >>
  /\ state_offset = << >> /\ param_base = << >>

\* compile() is called; a runtime has one block size.
Begin(b) ==
  /\ pass \in {"idle", "ok", "failed"}
  /\ bp' = b /\ pass' = "sort"
  /\ in_degree' = [v \in DOMAIN b.nodes |-> Cardinality(Into(b, v))]
  /\ queue' = Ascending({v \in DOMAIN b.nodes : Into(b, v) = {}})
  /\ topo_order' = << >> /\ next' = 1
  /\ region_rate' = [v \in DOMAIN b.nodes |-> 1] /\ blk_exp' = [v \in DOMAIN b.nodes |-> 0]
  /\ node_block' = [v \in DOMAIN b.nodes |-> B] /\ calls' = [v \in DOMAIN b.nodes |-> 1]
  /\ off' = [ctx |-> 0, out |-> 0, state |-> 0, param |-> 0]
  /\ ctx_base' = << >> /\ out_base_sample' = << >>
  /\ state_offset' = << >> /\ param_base' = << >>
  /\ UNCHANGED B

----------------------------------------------------------------------------
\* Kahn's sort.

\* Mutant of Sort: a node is taken once for each connection into it.
SortEarly ==
  /\ pass = "sort" /\ queue # << >>
  /\ LET u == Head(queue)
         Out(v) == {i \in Into(bp, v) : bp.conns[i].src = u}
         freed == SelectSeq(bp.conns, LAMBDA c : c.src = u /\ in_degree[c.dst] > 0)
     IN /\ topo_order' = Append(topo_order, u)
        /\ in_degree' = [v \in Nodes |-> IF Out(v) = {} THEN in_degree[v] ELSE 0]
        /\ queue' = Tail(queue) \o [j \in DOMAIN freed |-> freed[j].dst]
  /\ UNCHANGED <<bp, B, pass, next, rateVars, layoutVars>>

\* The node at the head of the queue is next; each connection out of it counts
\* down its end, which is queued when the last connection into it is counted.
Sort ==
  /\ pass = "sort" /\ queue # << >>
  /\ LET u == Head(queue)
         Out(v) == {i \in Into(bp, v) : bp.conns[i].src = u}
         Frees(i) == LET c == bp.conns[i] IN
           /\ c.src = u /\ in_degree[c.dst] = Cardinality(Out(c.dst))
           /\ \A j \in Out(c.dst) : j <= i
         freed == Ascending({i \in DOMAIN bp.conns : Frees(i)})
     IN /\ topo_order' = Append(topo_order, u)
        /\ in_degree' = [v \in Nodes |-> in_degree[v] - Cardinality(Out(v))]
        /\ queue' = Tail(queue) \o [j \in DOMAIN freed |-> bp.conns[freed[j]].dst]
  /\ UNCHANGED <<bp, B, pass, next, rateVars, layoutVars>>

Sorted ==
  /\ pass = "sort" /\ queue = << >>
  /\ pass' = IF Len(topo_order) = Len(bp.nodes) THEN "rates" ELSE "failed"
  /\ UNCHANGED <<bp, B, sortVars, next, rateVars, layoutVars>>

----------------------------------------------------------------------------
\* Rates and block sizes.

\* What arrives on the inputs of v: the (rate, exponent) of each of its sources.
Arriving(v) == {<<region_rate[u], blk_exp[u]>> : u \in Sources(v)}

\* Mutant of Base: only the rates of the inputs are compared.
BaseOfOne(v) ==
  IF Sources(v) = {} THEN {<<1, 0>>}
  ELSE IF \A p, q \in Arriving(v) : p[1] = q[1]
         THEN {CHOOSE p \in Arriving(v) : TRUE} ELSE {}

\* The rate and exponent v starts from: those of its inputs, if they agree.
Base(v) ==
  IF Sources(v) = {} THEN {<<1, 0>>}
  ELSE IF Cardinality(Arriving(v)) = 1 THEN Arriving(v) ELSE {}

\* The block ratios there are.
Delta(v) == CASE Node(v).bnum = 1 /\ Node(v).bden = 1 -> {0}
              [] Node(v).bnum = 2 /\ Node(v).bden = 1 -> {1}
              [] Node(v).bnum = 1 /\ Node(v).bden = 2 -> {-1}
              [] OTHER -> {}

\* A call's block of B * 2^e samples, if that is a whole number of them.
Block(e) == IF e >= 0 THEN {B * 2^e}
            ELSE IF B % 2^(-e) = 0 THEN {B \div 2^(-e)} ELSE {}

\* Ratios applied: the rate is a whole power of two, the block a whole number.
Candidates(v) ==
  {[rate |-> (b[1] * Node(v).rnum) \div Node(v).rden, exp |-> b[2] + d, block |-> nb] :
     b \in {c \in Base(v) : \E r \in Powers : c[1] * Node(v).rnum = r * Node(v).rden},
     d \in Delta(v),
     nb \in UNION {Block(c[2] + e) : c \in Base(v), e \in Delta(v)}}

\* The rate, exponent and block of v: one record if v is accepted, else none.
\* A cycle of rate * B samples is a positive number of whole blocks.
Plan(v) ==
  {p \in Candidates(v) : /\ (p.rate * B) % p.block = 0
                         /\ (p.rate * B) \div p.block > 0}

Propagate ==
  /\ pass = "rates" /\ next <= Len(topo_order)
  /\ LET v == topo_order[next] IN
     \E p \in Plan(v) :
       /\ region_rate' = [region_rate EXCEPT ![v] = p.rate]
       /\ blk_exp' = [blk_exp EXCEPT ![v] = p.exp]
       /\ node_block' = [node_block EXCEPT ![v] = p.block]
       /\ calls' = [calls EXCEPT ![v] = (p.rate * B) \div p.block]
  /\ next' = next + 1
  /\ UNCHANGED <<bp, B, pass, sortVars, layoutVars>>

Mismatch ==
  /\ pass = "rates" /\ next <= Len(topo_order)
  /\ Plan(topo_order[next]) = {}
  /\ pass' = "failed"
  /\ UNCHANGED <<bp, B, sortVars, next, rateVars, layoutVars>>

Propagated ==
  /\ pass = "rates" /\ next > Len(topo_order)
  /\ pass' = "layout" /\ next' = 1
  /\ UNCHANGED <<bp, B, sortVars, rateVars, layoutVars>>

----------------------------------------------------------------------------
\* Offsets.

out_stride(v) == region_rate[v] * B

AlignUp(x, a) == ((x + (a - 1)) \div a) * a

\* Mutant of Place: every channel is given one block.
PlaceOneBlock ==
  /\ pass = "layout" /\ next <= Len(bp.nodes)
  /\ LET nd == Node(next)
         at == IF nd.bytes > 0 THEN AlignUp(off.state, nd.align) ELSE 0
     IN /\ ctx_base' = Append(ctx_base, off.ctx)
        /\ out_base_sample' = Append(out_base_sample, off.out)
        /\ state_offset' = Append(state_offset, at)
        /\ param_base' = Append(param_base, off.param)
        /\ off' = [ctx |-> off.ctx + calls[next], out |-> off.out + nd.outs * B,
                   state |-> IF nd.bytes > 0 THEN at + nd.bytes ELSE off.state,
                   param |-> off.param + nd.params]
  /\ next' = next + 1
  /\ UNCHANGED <<bp, B, pass, sortVars, rateVars>>

\* The contexts, output buffers, state and ports of node `next`, each where the
\* ones before it end.
Place ==
  /\ pass = "layout" /\ next <= Len(bp.nodes)
  /\ LET nd == Node(next)
         at == IF nd.bytes > 0 THEN AlignUp(off.state, nd.align) ELSE 0
     IN /\ ctx_base' = Append(ctx_base, off.ctx)
        /\ out_base_sample' = Append(out_base_sample, off.out)
        /\ state_offset' = Append(state_offset, at)
        /\ param_base' = Append(param_base, off.param)
        /\ off' = [ctx |-> off.ctx + calls[next],
                   out |-> off.out + nd.outs * out_stride(next),
                   state |-> IF nd.bytes > 0 THEN at + nd.bytes ELSE off.state,
                   param |-> off.param + nd.params]
  /\ next' = next + 1
  /\ UNCHANGED <<bp, B, pass, sortVars, rateVars>>

Placed ==
  /\ pass = "layout" /\ next > Len(bp.nodes)
  /\ pass' = "ok"
  /\ UNCHANGED <<bp, B, sortVars, next, rateVars, layoutVars>>

\* input_source and param_source: the connection into a port, if there is one.
Wire(v, param, port) ==
  {bp.conns[i] : i \in {j \in Into(bp, v) :
     bp.conns[j].param = param /\ bp.conns[j].port = port}}

Next == Sort \/ Sorted \/ Propagate \/ Mismatch \/ Propagated \/ Place \/ Placed

----------------------------------------------------------------------------
TypeOK ==
  /\ bp.nodes \in Seq(NodeType) /\ B \in BlockSizes
  /\ pass \in {"idle", "sort", "rates", "layout", "ok", "failed"}
  /\ in_degree \in [Nodes -> Nat] /\ queue \in Seq(Nodes)
  /\ topo_order \in Seq(Nodes) /\ next \in 1..(Len(bp.nodes) + 1)
  /\ region_rate \in [Nodes -> Powers] /\ blk_exp \in [Nodes -> Int]
  /\ node_block \in [Nodes -> Nat \ {0}] /\ calls \in [Nodes -> Nat \ {0}]
  /\ off \in [ctx : Nat, out : Nat, state : Nat, param : Nat]
  /\ {ctx_base, out_base_sample, state_offset, param_base} \subseteq Seq(Nat)

\* The paths of the graph, each from a node nothing is connected to.
PathsOf[n \in 1..Len(bp.nodes)] ==   \* those of n nodes
  IF n = 1 THEN {<<v>> : v \in {w \in Nodes : Sources(w) = {}}}
  ELSE UNION {{Append(p, v) : v \in {w \in Nodes : p[n - 1] \in Sources(w)}} : p \in PathsOf[n - 1]}
Paths == UNION {PathsOf[n] : n \in 1..Len(bp.nodes)}

\* A graph has a cycle iff some of its nodes all have sources among themselves.
Cyclic == \E S \in SUBSET Nodes :
  S # {} /\ \A v \in S : Sources(v) \cap S # {}

\* How often a path doubles the rate and the block, less how often it halves it.
Net(p) ==
  LET count(T(_)) == Cardinality({j \in DOMAIN p : T(Node(p[j]))}) IN
  [rate |-> count(LAMBDA d : d.rnum = 2) - count(LAMBDA d : d.rden = 2),
   block |-> count(LAMBDA d : d.bnum = 2) - count(LAMBDA d : d.bden = 2)]

\* A whole block per call, and no call longer than a cycle.
Possible(net) ==
  /\ net.rate >= 0
  /\ net.block <= net.rate
  /\ net.block < 0 => B >= 2^(-net.block)

Consistent ==
  /\ \A p \in Paths : Possible(Net(p))
  /\ \A p, q \in Paths : p[Len(p)] = q[Len(q)] => Net(p) = Net(q)

(***************************************************************************)
(* compile() refuses a blueprint exactly if its graph has a cycle or two   *)
(* paths into a node disagree, or a path asks for less than a sample or    *)
(* more than a cycle per call; and it gives a node the rate and the block  *)
(* that every path to it amounts to (schedule.hpp's "a cycle or an         *)
(* inconsistent rate/block configuration fails here").                     *)
(***************************************************************************)
AcceptsTheConsistent ==
  /\ pass = "failed" => Cyclic \/ ~Consistent
  /\ pass = "ok" =>
       /\ ~Cyclic /\ Consistent
       /\ \A p \in Paths : LET v == p[Len(p)] IN
            /\ region_rate[v] = 2^Net(p).rate
            /\ calls[v] * node_block[v] = region_rate[v] * B
            /\ calls[v] = 2^(Net(p).rate - Net(p).block)

Span(at, len) == at..(at + len - 1)
Apart(S(_)) == \A v, w \in Nodes : v # w => S(v) \cap S(w) = {}

(***************************************************************************)
(* A schedule's nodes share nothing: contexts, output buffers, state bytes *)
(* and control ports are disjoint ranges inside the totals, and each       *)
(* node's state is aligned as it asks.                                     *)
(***************************************************************************)
LayoutIsDisjoint ==
  pass = "ok" =>
    LET contexts(v) == Span(ctx_base[v], calls[v])
        outputs(v) == Span(out_base_sample[v], Node(v).outs * out_stride(v))
        state(v) == Span(state_offset[v], Node(v).bytes)
        ports(v) == Span(param_base[v], Node(v).params)
    IN /\ Apart(contexts) /\ Apart(outputs) /\ Apart(state) /\ Apart(ports)
       /\ \A v \in Nodes :
            /\ contexts(v) \subseteq 0..(off.ctx - 1)
            /\ outputs(v) \subseteq 0..(off.out - 1)
            /\ state(v) \subseteq 0..(off.state - 1)
            /\ ports(v) \subseteq 0..(off.param - 1)
            /\ Node(v).bytes > 0 => state_offset[v] % Node(v).align = 0

-----------------------------------------------------------------------------
(* The inductive invariant.                                                 *)

Done == {topo_order[n] : n \in DOMAIN topo_order}
Waiting == {queue[n] : n \in DOMAIN queue}

\* What the passes work on.  A call's blocks make up a cycle, also of a node that
\* was not reached yet.
Typed ==
  /\ bp \in Blueprints \cup {Empty} /\ B \in BlockSizes
  /\ pass \in {"idle", "sort", "rates", "layout", "ok", "failed"}
  /\ queue \in Seq(Nodes) /\ topo_order \in Seq(Nodes) /\ next \in Nat \ {0}
  /\ region_rate \in [Nodes -> Powers] /\ blk_exp \in [Nodes -> Int]
  /\ node_block \in [Nodes -> Nat \ {0}] /\ calls \in [Nodes -> Nat \ {0}]
  /\ \A v \in Nodes : calls[v] * node_block[v] = region_rate[v] * B

\* Kahn's sort: a node was taken or is queued iff its sources were taken, each once,
\* and until then in_degree is what it still waits for.
Sorting ==
  /\ \A m, n \in DOMAIN topo_order : topo_order[m] = topo_order[n] => m = n
  /\ \A n \in DOMAIN topo_order : \A u \in Sources(topo_order[n]) :
       \E m \in 1..n - 1 : topo_order[m] = u
  /\ pass = "sort" =>
       /\ next = 1
       /\ \A m, n \in DOMAIN queue : queue[m] = queue[n] => m = n
       /\ Done \cap Waiting = {}
       /\ \A v \in Nodes :
            /\ in_degree[v] = Cardinality({i \in Into(bp, v) : bp.conns[i].src \notin Done})
            /\ v \in Done \cup Waiting <=> Sources(v) \subseteq Done
  /\ pass \in {"rates", "layout", "ok"} => Done = Nodes

\* The rates of the nodes reached follow from those of their sources.
Follows(v) ==
  LET from == IF Sources(v) = {} THEN {<<1, 0>>} ELSE Arriving(v) IN
  \A a \in from : /\ region_rate[v] * Node(v).rden = a[1] * Node(v).rnum
                  /\ \E d \in Delta(v) : blk_exp[v] = a[2] + d
                  /\ node_block[v] \in Block(blk_exp[v])
Reached == IF pass = "rates" THEN {topo_order[n] : n \in 1..next - 1} ELSE Nodes
Rated ==
  pass \in {"rates", "layout", "ok"} =>
    /\ pass = "rates" => next <= Len(topo_order) + 1
    /\ \A v \in Reached : Follows(v)

\* Ranges of the given sizes, one after another up to an end; those of size 0 are
\* anywhere.
InARow(at, size, end) ==
  \A v \in DOMAIN at : size[v] > 0 =>
    /\ at[v] + size[v] <= end
    /\ \A w \in DOMAIN at : v < w /\ size[w] > 0 => at[v] + size[v] <= at[w]

Outputs == [v \in Nodes |-> Node(v).outs * out_stride(v)]
Bytes == [v \in Nodes |-> Node(v).bytes]
Params == [v \in Nodes |-> Node(v).params]

AllOffsets == {ctx_base, out_base_sample, state_offset, param_base}
LaidOut ==
  /\ pass \in {"sort", "rates"} =>
    AllOffsets = {<< >>} /\ off = [ctx |-> 0, out |-> 0, state |-> 0, param |-> 0]
  /\ pass \in {"layout", "ok"} =>
    /\ next <= Len(bp.nodes) + 1 /\ (pass = "ok" => next = Len(bp.nodes) + 1)
    /\ off \in [ctx : Nat, out : Nat, state : Nat, param : Nat]
    /\ \A at \in AllOffsets : at \in Seq(Nat) /\ Len(at) = next - 1
    /\ InARow(ctx_base, calls, off.ctx) /\ InARow(out_base_sample, Outputs, off.out)
    /\ InARow(state_offset, Bytes, off.state) /\ InARow(param_base, Params, off.param)
    /\ \A v \in 1..next - 1 : Node(v).bytes > 0 => state_offset[v] % Node(v).align = 0

CompileInv == Typed /\ Sorting /\ Rated /\ LaidOut

\* What is known of a blueprint that was refused: the sort left nodes that wait for each
\* other, or the rates are right as far as they go and the next node accepts none.
Refusal ==
  pass = "failed" =>
    \/ Done # Nodes /\ \A v \in Nodes : v \in Done <=> Sources(v) \subseteq Done
    \/ /\ Done = Nodes /\ next \in DOMAIN topo_order
       /\ \A v \in {topo_order[n] : n \in 1..next - 1} : Follows(v)
       /\ \E v \in Nodes : v = topo_order[next] /\ Plan(v) = {}

\* Rates and blocks are doubled or halved, as up2, down2, upbloc and downbloc do.
Factors ==
  \A b \in Blueprints : \A n \in {b.nodes[v] : v \in DOMAIN b.nodes} :
    /\ {n.rnum, n.rden} \subseteq {1, 2}
    /\ <<n.bnum, n.bden>> \in {<<1, 1>>, <<2, 1>>, <<1, 2>>}

\* No path doubles the rate more often than Powers goes.
RatesFit == \A p \in Paths : Net(p).rate <= 16
=============================================================================
