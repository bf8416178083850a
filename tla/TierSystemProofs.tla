-------------------------- MODULE TierSystemProofs ---------------------------
(***************************************************************************)
(* Lemmas about the tier systems and the policies of TierSystem, used by   *)
(* the proofs about the loop of cost_of and by those about the replay.     *)
(***************************************************************************)
EXTENDS TierSystem, WellFoundedInduction, TLAPS

\* A nonempty set of natural numbers has a least element.
LEMMA NatHasMin ==
  ASSUME NEW T, T \subseteq Nat, T # {}
  PROVE  \E x \in T : \A y \in T : x <= y
<1>1. PICK x \in T : \A y \in T : ~(<<y, x>> \in OpToRel(<, Nat))
  BY NatLessThanWellFounded, WFMin
<1>2. \A y \in T : <<y, x>> \in OpToRel(<, Nat) <=> y < x
  BY DEF OpToRel
<1>3. \A y \in T : ~(y < x)
  BY <1>1, <1>2
<1> QED
  BY <1>3

\* Lines of a valid system are naturals.
LEMMA LineNat ==
  ASSUME NEW sys, Valid(sys), NEW k \in 0 .. sys.n
  PROVE  /\ sys.alpha[k] \in Nat /\ sys.beta[k] \in Nat
         /\ \A w \in Nat : Line(sys, k, w) \in Nat
<1>1. sys.alpha \in [0 .. sys.n -> Nat] /\ sys.beta \in [0 .. sys.n -> Nat]
  BY DEF Valid
<1>2. sys.alpha[k] \in Nat /\ sys.beta[k] \in Nat
  BY <1>1
<1> QED
  BY <1>2 DEF Line

\* From one state to the next the rate falls and the price rises.
LEMMA NeighbourStates ==
  ASSUME NEW sys, Valid(sys), NEW k \in 0 .. sys.n, k + 1 \in 0 .. sys.n
  PROVE  /\ sys.alpha[k] \in Nat /\ sys.alpha[k + 1] \in Nat
         /\ sys.beta[k] \in Nat /\ sys.beta[k + 1] \in Nat
         /\ sys.alpha[k + 1] <= sys.alpha[k] /\ sys.beta[k] <= sys.beta[k + 1]
<1>1. k <= k + 1
  BY DEF Valid
<1>2. sys.alpha[k] >= sys.alpha[k + 1] /\ sys.beta[k] <= sys.beta[k + 1]
  BY <1>1 DEF Valid
<1>3. sys.alpha[k] \in Nat /\ sys.alpha[k + 1] \in Nat
  BY LineNat, Zenon
<1>4. sys.beta[k] \in Nat /\ sys.beta[k + 1] \in Nat
  BY LineNat, Zenon
<1> QED
  BY <1>2, <1>3, <1>4

\* opt_state is a cheapest state, so that opt_cost is the lower envelope.
LEMMA OptStateIsBest ==
  ASSUME NEW sys, Valid(sys), NEW w \in Nat
  PROVE  /\ opt_state(sys, w) \in 0 .. sys.n
         /\ \A j \in 0 .. sys.n : opt_cost(sys, w) <= Line(sys, j, w)
<1> DEFINE Best(k) == \A j \in 0 .. sys.n : Line(sys, k, w) <= Line(sys, j, w)
           Costs == {Line(sys, k, w) : k \in 0 .. sys.n}
           Bests == {k \in 0 .. sys.n : Best(k)}
<1>1. Costs \subseteq Nat /\ Costs # {}
  BY LineNat DEF Valid
<1>2. PICK c \in Costs : \A d \in Costs : c <= d
  BY <1>1, NatHasMin
<1>3. Bests \subseteq Nat /\ Bests # {}
  BY <1>2 DEF Valid
<1>4. PICK k \in Bests : \A j \in Bests : k <= j
  BY <1>3, NatHasMin
<1>5. \A j \in 0 .. sys.n : j < k => Line(sys, k, w) < Line(sys, j, w)
  <2> SUFFICES ASSUME NEW j \in 0 .. sys.n, j < k
               PROVE  Line(sys, k, w) < Line(sys, j, w)
    OBVIOUS
  <2>1. j \notin Bests /\ k \in 0 .. sys.n
    BY <1>4 DEF Valid
  <2>2. PICK m \in 0 .. sys.n : ~(Line(sys, j, w) <= Line(sys, m, w))
    BY <2>1
  <2>3. Line(sys, k, w) <= Line(sys, m, w)
    BY <1>4
  <2> QED
    BY <2>1, <2>2, <2>3, LineNat
<1> QED
  BY <1>4, <1>5 DEF opt_state, opt_cost

-----------------------------------------------------------------------------
(* What every policy hands to the loop.                                    *)

Schedule(sys, s) ==
  /\ s \in Seq(Nat)
  /\ Len(s) <= sys.n
  /\ \A k \in 1 .. Len(s) - 1 : s[k] <= s[k + 1]

\* A run of zeros is a schedule.
LEMMA AtOnceSchedule ==
  ASSUME NEW sys, NEW n \in 0 .. sys.n, Valid(sys)
  PROVE  Schedule(sys, AtOnce(n)) /\ Len(AtOnce(n)) = n
BY DEF AtOnce, Schedule, Valid

\* The break-even times of online_det are naturals and never decrease.
LEMMA DetSchedule ==
  ASSUME NEW sys, Valid(sys), NEW s \in DetSchedules(sys)
  PROVE  Schedule(sys, s)
<1>1. PICK m \in DetLengths(sys) : s \in [1 .. m -> {BreakEven(sys, j) : j \in 0 .. m - 1}]
  BY DEF DetSchedules
<1>2. m \in 0 .. sys.n /\ m \in Nat /\ sys.n \in Nat
  BY DEF DetLengths, Valid
<1>3. ASSUME NEW j \in 0 .. m - 1 PROVE BreakEven(sys, j) \in Nat
  <2>1. j \in 0 .. sys.n /\ j + 1 \in 0 .. sys.n
    BY <1>2
  <2>2. step_b(sys, j) \in Nat
    BY <2>1, NeighbourStates DEF step_b
  <2>3. step_a(sys, j) > 0
    BY DEF DetLengths
  <2>4. step_a(sys, j) \in Nat
    BY <2>1, NeighbourStates DEF step_a
  <2> QED
    BY <2>2, <2>3, <2>4 DEF BreakEven
<1>4. s \in [1 .. m -> Nat]
  BY <1>1, <1>3
<1>5. s \in Seq(Nat) /\ Len(s) = m
  BY <1>2, <1>4
<1>6. ASSUME NEW k \in 1 .. m - 1 PROVE s[k] <= s[k + 1]
  <2>1. k \in 1 .. Len(s) /\ k + 1 \in 1 .. Len(s)
    BY <1>2, <1>5
  <2>2. PICK j \in 0 .. k - 1 : s[k] = BreakEven(sys, j)
    BY <2>1 DEF DetSchedules
  <2>3. s[k + 1] >= BreakEven(sys, j)
    BY <2>1, <2>2 DEF DetSchedules
  <2>4. s[k] \in Nat /\ s[k + 1] \in Nat
    BY <1>4, <1>5, <2>1
  <2> QED
    BY <2>2, <2>3, <2>4
<1> QED
  BY <1>2, <1>5, <1>6 DEF Schedule
=============================================================================
