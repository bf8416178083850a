------------------------------- MODULE Prudent -------------------------------
(***************************************************************************)
(* The randomised policies of harness/policy.py (online_rand_prudent,      *)
(* rhomu_prudent): the switch times that _prudent_switches draws, walked   *)
(* by the loop of Trajectory.                                              *)
(*                                                                         *)
(* The probability that transition j was made by a time is any             *)
(* nondecreasing function: what the two formulas of the code, with their   *)
(* clamps, have in common.  Probabilities are counted in units of 1/Grain, *)
(* and the horizon of the bisection is a power of two, so that every       *)
(* midpoint is a whole time.                                               *)
(***************************************************************************)
EXTENDS Trajectory, FiniteSetsExt

CONSTANTS
  Iters,           \* turns of the bisection
  Grain,
  DrawnSystems, DrawnWaits,   \* the tier systems and waits the draws are tried on
  CDFs             \* nondecreasing functions from times to 0 .. Grain

\* 2 doubled at every turn: the bracket is halved at every turn and ends 2 wide
Horizon ==
  LET width[k \in 0 .. Iters] == IF k = 0 THEN 2 ELSE 2 * width[k - 1]
  IN width[Iters]

ASSUME PrudentAssumption ==
  /\ Iters \in Nat /\ Grain \in Nat \ {0}
  /\ Horizon <= MaxSwitch + 1
  /\ DrawnSystems \subseteq TierSystems /\ DrawnWaits \subseteq Waits
  /\ CDFs \subseteq [0 .. Horizon -> 0 .. Grain]
  /\ \A f \in CDFs, x \in 1 .. Horizon : f[x - 1] <= f[x]

VARIABLE draw   \* the numbers p drawn, one per deeper state, and the cdf of each transition

-----------------------------------------------------------------------------
\* Variant: degenerate steps count as well
_bpAll(sys, cdf, x) ==
  LET tot[j \in 0 .. sys.n] ==
        IF j = 0 THEN 0 ELSE tot[j - 1] + step_b(sys, j - 1) * cdf[j - 1][x]
  IN tot[sys.n]

\* The expected buy mass by a time, in units of 1/Grain
bp(sys, cdf, x) ==
  LET tot[j \in 0 .. sys.n] ==
        IF j = 0 THEN 0
        ELSE tot[j - 1] + (IF step_a(sys, j - 1) > 0
                           THEN step_b(sys, j - 1) * cdf[j - 1][x] ELSE 0)
  IN tot[sys.n]

Mid(b) == (b[1] + b[2]) \div 2

\* Variant: the halves swapped where the mass equals the target
HalfEager(sys, cdf, y, b) ==
  IF bp(sys, cdf, Mid(b)) <= y THEN <<Mid(b), b[2]>> ELSE <<b[1], Mid(b)>>

Half(sys, cdf, y, b) ==
  IF bp(sys, cdf, Mid(b)) < y THEN <<Mid(b), b[2]>> ELSE <<b[1], Mid(b)>>

\* lo and hi after the bisection for a mass
Bracket(sys, cdf, y) ==
  LET b[k \in 0 .. Iters] == IF k = 0 THEN <<0, Horizon>> ELSE Half(sys, cdf, y, b[k - 1])
  IN b[Iters]

_inverse(sys, cdf, y) == Mid(Bracket(sys, cdf, y))

\* Variant: the price of the step only, not what was bought before it
TargetOfStep(sys, p, k) == p[k] * step_b(sys, k - 1)

\* The mass at which the switch to state k is due
Target(sys, p, k) == Grain * sys.beta[k - 1] + p[k] * step_b(sys, k - 1)

\* Bought before the wait begins
BoughtAtOnce(sys, cdf, k) == bp(sys, cdf, 0) >= Grain * sys.beta[k]

SwitchTime(sys, p, cdf, k) ==
  IF BoughtAtOnce(sys, cdf, k) THEN 0
  ELSE _inverse(sys, cdf, Target(sys, p, k))

\* The loop ends at a mass that is never reached and at a switch behind the wait
Ends(sys, w, p, cdf, k) ==
  /\ ~BoughtAtOnce(sys, cdf, k)
  /\ \/ bp(sys, cdf, Horizon) < Target(sys, p, k)
     \/ SwitchTime(sys, p, cdf, k) >= w

_prudent_switches(sys, w, p, cdf) ==
  LET made == Max({m \in 0 .. sys.n : \A k \in 1 .. m : ~Ends(sys, w, p, cdf, k)})
  IN [k \in 1 .. made |-> SwitchTime(sys, p, cdf, k)]

-----------------------------------------------------------------------------
NoDraw == [p |-> << >>, cdf |-> << >>]

PrudentInit ==
  \/ Init /\ draw = NoDraw
  \/ /\ ts \in DrawnSystems /\ wait \in DrawnWaits /\ pred = wait
     /\ policy = "any"
     /\ draw \in [p : [1 .. ts.n -> 0 .. Grain - 1], cdf : [0 .. ts.n - 1 -> CDFs]]
     /\ switches = _prudent_switches(ts, wait, draw.p, draw.cdf)
     /\ i = 0 /\ cur = 0 /\ last = 0 /\ cost = 0
     /\ pc = "loop"

PrudentNext == Next /\ UNCHANGED draw

PrudentSpec == PrudentInit /\ [][PrudentNext]_<<vars, draw>>

-----------------------------------------------------------------------------
Drawn == draw # NoDraw

\* A trajectory only goes down, and its switches are in order: what the
\* bisections return for the targets of consecutive states, each searched on its
\* own (policy.py:184-196), is a schedule as the loop of cost_of expects one,
\* although a switch bought at once and one searched for may follow each other.
ImplementsTrajectory == Spec

\* The switch is made where the mass reaches its target, to the width of the last
\* bracket (policy.py:157-164): a moment earlier it is short of it, a moment later
\* it is not.
SwitchAtTarget ==
  Drawn => \A k \in DOMAIN switches :
    ~BoughtAtOnce(ts, draw.cdf, k)
      => /\ bp(ts, draw.cdf, switches[k] + 1) >= Target(ts, draw.p, k)
         /\ bp(ts, draw.cdf, switches[k] - 1) < Target(ts, draw.p, k) \/ switches[k] = 1

\* "Degenerate steps (alpha step == 0) mean the deeper state is never entered via
\* the envelope" (policy.py:24-26): behind the last step that saves rent, no mass
\* is bought, and a state there is entered only by a draw of exactly zero.
DegenerateNotEntered ==
  Drawn => \A k \in DOMAIN switches :
    (\A j \in k - 1 .. ts.n - 1 : step_a(ts, j) = 0)
      => draw.p[k] = 0 \/ step_b(ts, k - 1) = 0
=============================================================================
