---------------------------- MODULE MCTrajectory -----------------------------
(* Tier systems for Trajectory and Prudent: all the small ones of one and two          *)
(* transitions whose break-even times are whole.                           *)
EXTENDS Prudent, TLC

CONSTANTS MaxAlpha, MaxBeta

Systems(n) ==
  {s \in [n : {n}, alpha : [0 .. n -> 0 .. MaxAlpha], beta : [0 .. n -> 0 .. MaxBeta]] :
     /\ Valid(s)
     /\ \A j \in 0 .. n - 1 :
          step_a(s, j) > 0 => step_b(s, j) % step_a(s, j) = 0}

SmallSystems == Systems(1) \cup Systems(2)

\* Strictly ordered as policy.py:23 asks, the middle state above the envelope
OffEnvelope ==
  {[n |-> 2, alpha |-> 0 :> 11 @@ 1 :> 10 @@ 2 :> 0, beta |-> 0 :> 0 @@ 1 :> 10 @@ 2 :> 20]}

\* The tier systems of the replay, its two-state overflow system, one whose
\* middle state saves nothing, and one with a constant rent in DRAM
PrudentSystems ==
  {[n |-> 2, alpha |-> 0 :> 1 @@ 1 :> 0 @@ 2 :> 0, beta |-> 0 :> 0 @@ 1 :> 1 @@ 2 :> 3],
   [n |-> 1, alpha |-> 0 :> 1 @@ 1 :> 0, beta |-> 0 :> 0 @@ 1 :> 3],
   [n |-> 2, alpha |-> 0 :> 2 @@ 1 :> 2 @@ 2 :> 1, beta |-> 0 :> 0 @@ 1 :> 1 @@ 2 :> 3],
   [n |-> 2, alpha |-> 0 :> 2 @@ 1 :> 1 @@ 2 :> 0, beta |-> 0 :> 0 @@ 1 :> 1 @@ 2 :> 3]}

\* Steps: one unit of probability at each of Grain times, or never
StepCDFs ==
  {[x \in 0 .. Horizon |-> Cardinality({m \in 1 .. Grain : at[m] <= x})] :
     at \in [1 .. Grain -> {0, 2, 3, 6, Horizon + 1}]}
=============================================================================
