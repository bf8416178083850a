------------------------------ MODULE Trajectory -----------------------------
(***************************************************************************)
(* What a placement costs: the loop of TierSystem.cost_of in               *)
(* harness/policy.py, run over the switch times of a policy.               *)
(*                                                                         *)
(* A behaviour picks a tier system, a wait, a prediction and a policy, and *)
(* then walks the switch times one by one as the loop does.                *)
(***************************************************************************)
EXTENDS TierSystem

CONSTANTS
  TierSystems,  \* the tier systems to place on
  Waits,        \* realised and predicted waits
  MaxSwitch     \* bound on the switch times of a policy that is not named

ASSUME TrajectoryAssumption ==
  /\ \A ts \in TierSystems : Valid(ts)
  /\ Waits \subseteq Nat
  /\ MaxSwitch \in Nat

VARIABLES
  ts, wait, pred, policy, switches,   \* chosen once
  i,            \* how many switch times the loop has consumed
  cur, last, cost,
  pc

chosen == <<ts, wait, pred, policy, switches>>
vars == <<chosen, i, cur, last, cost, pc>>

-----------------------------------------------------------------------------
\* What the randomised policies, the TTL variants and the fixed policies of the
\* replay return
Schedules(sys) == SchedulesWithin(sys, 0 .. MaxSwitch)

SwitchesOf(name, sys, w, p) ==
  CASE name = "opt" -> {AtOnce(opt_state(sys, w))}
    [] name = "ftp" -> {AtOnce(opt_state(sys, p))}
    [] name = "online_det" -> DetSchedules(sys)
    [] name = "any" -> Schedules(sys)

Policies == {"opt", "ftp", "online_det", "any"}

Init ==
  /\ ts \in TierSystems
  /\ wait \in Waits /\ pred \in Waits
  /\ policy \in Policies
  /\ switches \in SwitchesOf(policy, ts, wait, pred)
  /\ i = 0 /\ cur = 0 /\ last = 0 /\ cost = 0
  /\ pc = "loop"

More == i < Len(switches) /\ switches[i + 1] < wait

Switch ==
  /\ pc = "loop" /\ More
  /\ cost' = cost + ts.alpha[cur] * (switches[i + 1] - last)
  /\ cur' = cur + 1
  /\ last' = switches[i + 1]
  /\ i' = i + 1
  /\ UNCHANGED <<chosen, pc>>

\* Variant: the wake-up is free
WakeFree ==
  /\ pc = "loop" /\ ~More
  /\ cost' = cost + ts.alpha[cur] * (wait - last)
  /\ pc' = "done"
  /\ UNCHANGED <<chosen, i, cur, last>>

Wake ==
  /\ pc = "loop" /\ ~More
  /\ cost' = cost + ts.alpha[cur] * (wait - last) + ts.beta[cur]
  /\ pc' = "done"
  /\ UNCHANGED <<chosen, i, cur, last>>

Next == Switch \/ Wake

Spec == Init /\ [][Next]_vars

-----------------------------------------------------------------------------
TypeOK ==
  /\ ts \in TierSystems /\ wait \in Waits /\ pred \in Waits
  /\ policy \in Policies
  /\ i \in Nat /\ cur \in 0 .. ts.n /\ cur = i
  /\ last \in Nat /\ cost \in Nat
  /\ pc \in {"loop", "done"}

Done == pc = "done"

Distance(a, b) == IF a <= b THEN b - a ELSE a - b

\* opt_cost bounds every policy from below: no schedule of switches, however
\* late or early, beats the best single state in hindsight.
NeverBelowOptimum == Done => cost >= opt_cost(ts, wait)

\* opt attains it, a wait of zero (where no switch is ever made) included.
OptAttains == Done /\ policy = "opt" => cost = opt_cost(ts, wait)

\* Following a prediction loses at most alpha_0 per second of its error, the eta
\* of policy.py:214, with no assumption on the prediction.
FtpWithinError ==
  Done /\ policy = "ftp"
    => cost <= opt_cost(ts, wait) + ts.alpha[0] * Distance(pred, wait)

\* The break-even times of a system whose states all lie on the lower envelope
OnEnvelope(sys) ==
  /\ \A j \in 0 .. sys.n - 1 : step_a(sys, j) > 0
  /\ \A j \in 1 .. sys.n - 1 : BreakEven(sys, j - 1) <= BreakEven(sys, j)

\* "2 for two states" (policy.py:85), and for every system on its envelope: the
\* rent paid before a switch is at most the price of the state it leads to.
DetTwiceOnEnvelope ==
  Done /\ policy = "online_det" /\ OnEnvelope(ts) => cost <= 2 * opt_cost(ts, wait)

\* "<=4-competitive for multislope" (policy.py:85), for every tier system that
\* meets the requirement the module states (policy.py:23-24).
DetWithinFour ==
  Done /\ policy = "online_det" => cost <= 4 * opt_cost(ts, wait)
=============================================================================
