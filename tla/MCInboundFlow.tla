--------------------------- MODULE MCInboundFlow ---------------------------
(***************************************************************************)
(* Constants of the TLC runs of InboundFlow.                               *)
(***************************************************************************)
EXTENDS InboundFlowRefinement, TLC

CONSTANTS m1, m2, m3, s1

(* Every message from one customer.                                        *)
OneSender == [m \in Msgs |-> s1]

Symmetry == Permutations(Workers) \cup Permutations(Hooks) \cup Permutations(Users)
MsgSymmetry == Symmetry \cup Permutations(Msgs)
=============================================================================
