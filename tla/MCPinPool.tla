------------------------------ MODULE MCPinPool ------------------------------
(* A small instance of PinPool for TLC: blocks are interchangeable, and so *)
(* are the requests that are not preempted.                                *)
EXTENDS PinPool, TLC

Symmetry == Permutations(Blocks) \cup Permutations(Requests \ Preemptible)
=============================================================================
