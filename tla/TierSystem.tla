----------------------------- MODULE TierSystem ------------------------------
(***************************************************************************)
(* The tier systems of harness/policy.py (class TierSystem), and the       *)
(* policies that place a context without chance: opt, ftp, online_det.     *)
(*                                                                         *)
(* A tier system is a record [n, alpha, beta]: n transitions between the   *)
(* states 0 .. n, with the rent and the wake-up price of each state.       *)
(* Rates, prices and times are natural numbers, in units in which the      *)
(* break-even times of online_det are whole.  A policy gives a sequence of *)
(* switch times, the k-th the time of the transition to state k.           *)
(*                                                                         *)
(* An operator introduced as a variant is no part of the specification: it *)
(* is a mistake one could make in the definition that follows it, kept to  *)
(* show that a property notices.                                           *)
(***************************************************************************)
EXTENDS Integers, Sequences

\* policy.py:23-26, with equal neighbours allowed as replay.py uses them
Valid(sys) ==
  /\ sys.n \in Nat
  /\ sys.alpha \in [0 .. sys.n -> Nat] /\ sys.beta \in [0 .. sys.n -> Nat]
  /\ sys.beta[0] = 0
  /\ \A j, k \in 0 .. sys.n :
        j <= k => sys.alpha[j] >= sys.alpha[k] /\ sys.beta[j] <= sys.beta[k]

\* Cost of waiting w in state k throughout
Line(sys, k, w) == sys.alpha[k] * w + sys.beta[k]

\* The first of the cheapest states, as min() over the indices finds it
opt_state(sys, w) ==
  CHOOSE k \in 0 .. sys.n :
    /\ \A j \in 0 .. sys.n : Line(sys, k, w) <= Line(sys, j, w)
    /\ \A j \in 0 .. sys.n : j < k => Line(sys, k, w) < Line(sys, j, w)

opt_cost(sys, w) == Line(sys, opt_state(sys, w), w)

step_a(sys, j) == sys.alpha[j] - sys.alpha[j + 1]
step_b(sys, j) == sys.beta[j + 1] - sys.beta[j]

\* Variants: a moment late; one switch short
AtOnceLate(n) == [k \in 1 .. n |-> 1]
AtOnceShort(n) == [k \in 1 .. n - 1 |-> 0]

AtOnce(n) == [k \in 1 .. n |-> 0]

\* Variant: the whole price of the state instead of the step to it
BreakEvenWhole(sys, j) == sys.beta[j + 1] \div step_a(sys, j)

BreakEven(sys, j) == step_b(sys, j) \div step_a(sys, j)

\* How far online_det gets before a step that saves no rent
DetLengths(sys) ==
  {m \in 0 .. sys.n : /\ \A j \in 0 .. m - 1 : step_a(sys, j) > 0
                      /\ m < sys.n => step_a(sys, m) = 0}

\* t = max(t, b / a), as one switch time per step (this set has one element)
DetSchedules(sys) ==
  {s \in UNION {[1 .. m -> {BreakEven(sys, j) : j \in 0 .. m - 1}] : m \in DetLengths(sys)} :
     \A k \in 1 .. Len(s) : /\ \E j \in 0 .. k - 1 : s[k] = BreakEven(sys, j)
                            /\ \A j \in 0 .. k - 1 : s[k] >= BreakEven(sys, j)}

\* Nondecreasing switch times, at most one per transition
SchedulesWithin(sys, times) ==
  {s \in UNION {[1 .. m -> times] : m \in 0 .. sys.n} :
     \A k \in 1 .. Len(s) - 1 : s[k] <= s[k + 1]}
=============================================================================
