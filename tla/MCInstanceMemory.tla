-------------------------- MODULE MCInstanceMemory --------------------------
(***************************************************************************)
(* Instances for TLC: node state of any size, the rest in whole words.     *)
(***************************************************************************)
EXTENDS InstanceMemory

SmallSizes ==
  {s \in [1..7 -> {0, 1, 8, 1024}] :
     /\ \A r \in 2..7 : s[r] # 1
     /\ s[3] # 0
     /\ s[4] = s[5]}
=============================================================================
