--------------------------- MODULE InstanceMemory ---------------------------
(***************************************************************************)
(* The memory of a voice: graph_instance::build() reserves one arena, sized *)
(* by a budget, and carves seven regions out of it with                    *)
(* memory_arena::allocate, in a fixed order, each aligned as its type asks. *)
(* Addresses are absolute; where the arena starts is up to the allocator.  *)
(***************************************************************************)
EXTENDS Integers, Sequences

CONSTANTS
  Sizes,    \* the bytes of the seven regions a schedule may ask for
  Bases     \* the addresses operator new may return

ASSUME SizesAssumption == Sizes \subseteq [1..7 -> Nat]
ASSUME BasesAssumption == Bases \subseteq Nat

VARIABLES
  sizes,      \* what this schedule asks for
  base,       \* storage.data()
  capacity,   \* storage.size(), 0 before reserve()
  offset,     \* end of the last block
  blocks,     \* what allocate() returned: region, address, bytes
  next,       \* the region build() is at
  result      \* "running", then build()'s result

vars == <<sizes, base, capacity, offset, blocks, next, result>>

\* state, buffer_pool, silent, views, contexts, controls, param_views
Align(r) == IF r <= 3 THEN 64 ELSE 8
\* silent and contexts are allocated whatever their size, the others if any.
Wanted(r) == r \in {3, 5} \/ sizes[r] > 0

\* Mutant of Budget: the views are left out.
BudgetWithoutViews(s) == s[1] + s[2] + s[3] + s[5] + s[6] + s[7] + 7 * 64 + 256

Budget(s) == s[1] + s[2] + s[3] + s[4] + s[5] + s[6] + s[7] + 7 * 64 + 256

\* Mutant of Aligned: the mask is forgotten.
AlignedUnmasked(cur, a) == cur + (a - 1)

Aligned(cur, a) == ((cur + (a - 1)) \div a) * a

Init ==
  /\ sizes \in Sizes /\ base \in Bases
  /\ capacity = 0 /\ offset = 0 /\ blocks = << >> /\ next = 1
  /\ result = "running"

Reserve ==
  /\ result = "running" /\ capacity = 0
  /\ capacity' = Budget(sizes)
  /\ UNCHANGED <<sizes, base, offset, blocks, next, result>>

At(r) == Aligned(base + offset, Align(r))
Fits(r) == At(r) - base + sizes[r] <= capacity

\* A region that does not fit is a null pointer, and the arena is as it was.
Allocate ==
  /\ result = "running" /\ capacity > 0 /\ next <= 7 /\ Wanted(next)
  /\ IF Fits(next)
       THEN /\ blocks' = Append(blocks, [region |-> next, at |-> At(next),
                                         bytes |-> sizes[next]])
            /\ offset' = At(next) - base + sizes[next]
       ELSE UNCHANGED <<blocks, offset>>
  /\ next' = next + 1
  /\ UNCHANGED <<sizes, base, capacity, result>>

Skip ==
  /\ result = "running" /\ capacity > 0 /\ next <= 7 /\ ~Wanted(next)
  /\ next' = next + 1
  /\ UNCHANGED <<sizes, base, capacity, offset, blocks, result>>

Has(r) == \E i \in DOMAIN blocks : blocks[i].region = r

\* build() is true if it got every region it needs.
Built ==
  /\ result = "running" /\ capacity > 0 /\ next > 7
  /\ result' = IF \A r \in 1..7 : Wanted(r) => Has(r) THEN "true" ELSE "false"
  /\ UNCHANGED <<sizes, base, capacity, offset, blocks, next>>

Next == Reserve \/ Allocate \/ Skip \/ Built

Spec == Init /\ [][Next]_vars

----------------------------------------------------------------------------
Blocks == [region : 1..7, at : Nat, bytes : Nat]

TypeOK ==
  /\ sizes \in [1..7 -> Nat] /\ base \in Nat
  /\ capacity \in Nat /\ offset \in Nat
  /\ blocks \in Seq(Blocks)
  /\ next \in 1..8 /\ result \in {"running", "true", "false"}

(***************************************************************************)
(* build()'s budget of 64 bytes for each region is enough wherever the     *)
(* arena starts and whatever alignment costs: a voice is never refused for *)
(* want of memory that was reserved for it.                                *)
(***************************************************************************)
BudgetSuffices == result # "false"

(***************************************************************************)
(* The regions of a voice are inside its arena, aligned, and no two of     *)
(* them share a byte.                                                      *)
(***************************************************************************)
RegionsAreApart ==
  \A i \in DOMAIN blocks :
    /\ base <= blocks[i].at /\ blocks[i].at + blocks[i].bytes <= base + capacity
    /\ blocks[i].at % Align(blocks[i].region) = 0
    /\ \A j \in DOMAIN blocks : i < j => blocks[i].at + blocks[i].bytes <= blocks[j].at

\* The sizes of the regions before `next`, and of those from it on.
Before(s, n) == (IF n > 1 THEN s[1] ELSE 0) + (IF n > 2 THEN s[2] ELSE 0)
                + (IF n > 3 THEN s[3] ELSE 0) + (IF n > 4 THEN s[4] ELSE 0)
                + (IF n > 5 THEN s[5] ELSE 0) + (IF n > 6 THEN s[6] ELSE 0)
                + (IF n > 7 THEN s[7] ELSE 0)

(***************************************************************************)
(* Inductive: each region so far has cost its size and at most 64 bytes,   *)
(* and every one that is needed was found room for.                        *)
(***************************************************************************)
IInv ==
  /\ TypeOK /\ BudgetSuffices
  /\ capacity = 0 => offset = 0 /\ blocks = << >> /\ next = 1
  /\ capacity > 0 => capacity = Budget(sizes)
  /\ offset <= Before(sizes, next) + 64 * (next - 1)
  /\ \A r \in 1..7 : r < next /\ Wanted(r) => Has(r)
  /\ \A i \in DOMAIN blocks : blocks[i].at + blocks[i].bytes <= base + offset
  /\ RegionsAreApart
=============================================================================
