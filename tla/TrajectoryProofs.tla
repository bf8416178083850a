-------------------------- MODULE TrajectoryProofs ---------------------------
(***************************************************************************)
(* Proofs about Trajectory and Prudent for every tier system, wait,        *)
(* prediction, schedule and draw: no policy beats opt_cost, ftp exceeds it *)
(* by at most alpha_0 per second of prediction error, online_det pays at   *)
(* most twice it on the lower envelope, and the bisections of the          *)
(* randomised policies find a schedule.                                    *)
(*                                                                         *)
(* The first rests on one observation about the loop: since rates only     *)
(* fall along the states, the rent paid so far is at least what the        *)
(* present state would have cost from the start. The third rests on its    *)
(* converse: with break-even switches on the envelope, it is at most that. *)
(* For the last, two searches agree turn by turn until one of them goes to *)
(* the later half, which is the search for the greater mass.               *)
(***************************************************************************)
EXTENDS Prudent, TierSystemProofs

\* Whatever the policy, the loop walks a schedule.
LEMMA PoliciesGiveSchedules ==
  ASSUME NEW sys, Valid(sys), NEW w \in Nat, NEW p \in Nat, NEW name \in Policies,
         NEW s \in SwitchesOf(name, sys, w, p)
  PROVE  Schedule(sys, s)
<1>1. CASE name = "opt"
  BY <1>1, OptStateIsBest, AtOnceSchedule DEF SwitchesOf
<1>2. CASE name = "ftp"
  BY <1>2, OptStateIsBest, AtOnceSchedule DEF SwitchesOf
<1>3. CASE name = "online_det"
  BY <1>3, DetSchedule DEF SwitchesOf
<1>4. CASE name = "any"
  <2>1. s \in Schedules(sys)
    BY <1>4 DEF SwitchesOf
  <2>2. PICK m \in 0 .. sys.n : s \in [1 .. m -> 0 .. MaxSwitch]
    BY <2>1 DEF Schedules, SchedulesWithin
  <2>3. m \in Nat /\ s \in Seq(Nat) /\ Len(s) = m
    BY <2>2, TrajectoryAssumption DEF Valid
  <2> QED
    BY <2>1, <2>2, <2>3 DEF Schedules, SchedulesWithin, Schedule
<1> QED
  BY <1>1, <1>2, <1>3, <1>4 DEF Policies

-----------------------------------------------------------------------------
(* The loop.                                                               *)

LoopInv ==
  /\ TypeOK
  /\ Valid(ts) /\ wait \in Nat /\ pred \in Nat
  /\ Schedule(ts, switches)
  /\ i <= Len(switches)
  /\ last <= wait
  /\ pc = "loop" /\ i < Len(switches) => last <= switches[i + 1]

\* What has been paid against the line of the present state
PaidInv ==
  /\ pc = "loop" => cost >= ts.alpha[cur] * last
  /\ pc = "done" => cost >= Line(ts, cur, wait)

\* The initial choice is a wait, a valid system and a schedule.
LEMMA InitLoop == Init => LoopInv /\ PaidInv
<1> SUFFICES ASSUME Init PROVE LoopInv /\ PaidInv
  OBVIOUS
<1>1. Valid(ts) /\ wait \in Nat /\ pred \in Nat
  BY TrajectoryAssumption DEF Init
<1>2. Schedule(ts, switches)
  BY <1>1, PoliciesGiveSchedules DEF Init
<1>3. ts.alpha[0] \in Nat
  BY <1>1 DEF Valid
<1>4. LoopInv
  BY <1>1, <1>2 DEF Init, LoopInv, TypeOK, Schedule, Valid
<1>5. PaidInv
  BY <1>3 DEF Init, PaidInv
<1> QED
  BY <1>4, <1>5

\* A smaller rate costs less for any time.
LEMMA RateMonotone ==
  ASSUME NEW a \in Nat, NEW b \in Nat, NEW t \in Nat, a <= b
  PROVE  a * t \in Nat /\ b * t \in Nat /\ a * t <= b * t
<1>1. PICK d \in Nat : b = a + d
  BY b - a \in Nat
<1>2. b * t = a * t + d * t /\ a * t \in Nat /\ d * t \in Nat
  BY <1>1
<1> QED
  BY <1>1, <1>2

\* Time splits a cost.
LEMMA RateSplits ==
  ASSUME NEW a \in Nat, NEW s \in Nat, NEW t \in Nat, s <= t
  PROVE  a * (t - s) \in Nat /\ a * s \in Nat /\ a * t = a * s + a * (t - s)
<1>1. PICK d \in Nat : t = s + d
  BY t - s \in Nat
<1>2. a * (s + d) = a * s + a * d /\ a * s \in Nat /\ a * d \in Nat
  OBVIOUS
<1> QED
  BY <1>1, <1>2

\* What was paid within a line stays within it while time goes on.
LEMMA LinePaid ==
  ASSUME NEW a \in Nat, NEW b \in Nat, NEW s \in Nat, NEW t \in Nat, s <= t,
         NEW c \in Nat, c <= a * s + b
  PROVE  c + a * (t - s) \in Nat /\ c + a * (t - s) <= a * t + b
<1>1. a * (t - s) \in Nat /\ a * s \in Nat /\ a * t = a * s + a * (t - s)
  BY RateSplits
<1> DEFINE x == a * (t - s)
           y == a * s
           z == a * t
<1>2. x \in Nat /\ y \in Nat /\ z = y + x /\ c <= y + b
  BY <1>1
<1> HIDE DEF x, y, z
<1>3. c + x \in Nat /\ c + x <= z + b
  BY <1>2
<1> QED
  BY <1>3 DEF x, z

\* A switch is to a time the schedule allows and to a state with a lower rate.
LEMMA SwitchKeeps ==
  ASSUME LoopInv, PaidInv, Switch
  PROVE  LoopInv' /\ PaidInv'
<1> DEFINE s == switches[i + 1]
<1>1. /\ s \in Nat /\ last <= s /\ s < wait /\ last \in Nat
      /\ cur \in 0 .. ts.n /\ cur + 1 \in 0 .. ts.n /\ ts.n \in Nat
      /\ i + 1 \in 1 .. Len(switches)
  <2>1. /\ ts.n \in Nat /\ i \in Nat /\ cur \in 0 .. ts.n /\ cur = i /\ last \in Nat
        /\ switches \in Seq(Nat) /\ Len(switches) <= ts.n
    BY DEF LoopInv, TypeOK, Schedule, Valid
  <2>2. pc = "loop" /\ i < Len(switches) /\ s < wait
    BY DEF Switch, More
  <2>3. last <= s
    BY <2>2 DEF LoopInv
  <2>4. i + 1 \in 1 .. Len(switches) /\ cur + 1 \in 0 .. ts.n
    BY <2>1, <2>2
  <2>5. s \in Nat
    BY <2>1, <2>4
  <2> QED
    BY <2>1, <2>2, <2>3, <2>4, <2>5
<1>2. i + 1 < Len(switches) => s <= switches[i + 1 + 1]
  BY <1>1 DEF LoopInv, Schedule, TypeOK
<1>3. cost' = cost + ts.alpha[cur] * (s - last) /\ last' = s
  BY DEF Switch
<1> HIDE DEF s
<1>4. /\ ts.alpha[cur] \in Nat /\ ts.alpha[cur + 1] \in Nat
      /\ ts.alpha[cur + 1] <= ts.alpha[cur]
  BY <1>1, NeighbourStates DEF LoopInv
<1>5. /\ ts.alpha[cur] * (s - last) \in Nat /\ ts.alpha[cur] * last \in Nat
      /\ ts.alpha[cur] * s = ts.alpha[cur] * last + ts.alpha[cur] * (s - last)
  <2>1. ts.alpha[cur] \in Nat /\ last \in Nat /\ s \in Nat /\ last <= s
    BY <1>1, <1>4
  <2> QED
    BY <2>1, RateSplits, Zenon
<1>6. ts.alpha[cur + 1] * s <= ts.alpha[cur] * s
  BY <1>1, <1>4, RateMonotone
<1>7. cost \in Nat /\ cost >= ts.alpha[cur] * last
  BY DEF LoopInv, TypeOK, PaidInv, Switch
<1>8. LoopInv'
  <2>1. cost' \in Nat
    BY <1>5, <1>7, <1>3
  <2>2. TypeOK'
    BY <1>1, <1>3, <2>1 DEF Switch, chosen, LoopInv, TypeOK
  <2> QED
    BY <1>1, <1>3, <1>2, <2>2 DEF Switch, chosen, LoopInv
<1>9. PaidInv'
  <2>1. ts.alpha[cur + 1] * s \in Nat
    BY <1>1, <1>4
  <2>2. cost' >= ts.alpha[cur + 1] * s
    BY <1>5, <1>6, <1>7, <1>3, <2>1
  <2> QED
    BY <1>3, <2>2 DEF Switch, chosen, PaidInv
<1> QED
  BY <1>8, <1>9

\* The wake-up pays the rest of the wait and the price of the present state.
LEMMA WakeKeeps ==
  ASSUME LoopInv, PaidInv, Wake
  PROVE  LoopInv' /\ PaidInv'
<1>1. /\ last \in Nat /\ wait \in Nat /\ last <= wait /\ cost \in Nat
      /\ cur \in 0 .. ts.n /\ ts.alpha[cur] \in Nat /\ ts.beta[cur] \in Nat
  BY DEF LoopInv, TypeOK, Valid
<1>2. /\ ts.alpha[cur] * (wait - last) \in Nat /\ ts.alpha[cur] * last \in Nat
      /\ ts.alpha[cur] * wait = ts.alpha[cur] * last + ts.alpha[cur] * (wait - last)
  BY <1>1, RateSplits, Zenon
<1>3. cost' = cost + ts.alpha[cur] * (wait - last) + ts.beta[cur]
      /\ cost >= ts.alpha[cur] * last
  BY DEF Wake, PaidInv
<1>4. cost' \in Nat /\ cost' >= ts.alpha[cur] * wait + ts.beta[cur]
  BY <1>1, <1>2, <1>3
<1>5. LoopInv'
  BY <1>4 DEF Wake, chosen, LoopInv, TypeOK
<1>6. PaidInv'
  BY <1>4 DEF Wake, chosen, PaidInv, Line
<1> QED
  BY <1>5, <1>6

\* The loop keeps both.
LEMMA NextLoop == LoopInv /\ PaidInv /\ [Next]_vars => LoopInv' /\ PaidInv'
<1>1. CASE UNCHANGED vars
  BY <1>1 DEF vars, chosen, LoopInv, TypeOK, PaidInv
<1> QED
  BY <1>1, SwitchKeeps, WakeKeeps DEF Next

\* Every reachable state of the loop has paid for what it says.
LEMMA LoopAlways == Spec => [](LoopInv /\ PaidInv)
BY InitLoop, NextLoop, PTL DEF Spec

\* Every variable of the loop keeps its type, for every valid tier system.
THEOREM TypeCorrect == Spec => []TypeOK
BY LoopAlways, PTL DEF LoopInv

\* No schedule of any length costs less than the best single state would have.
THEOREM NeverBelowOptimumCorrect == Spec => []NeverBelowOptimum
<1>1. LoopInv /\ PaidInv => NeverBelowOptimum
  <2> SUFFICES ASSUME LoopInv, PaidInv, Done PROVE cost >= opt_cost(ts, wait)
    BY DEF NeverBelowOptimum
  <2>1. cost >= Line(ts, cur, wait) /\ cost \in Nat
    BY DEF PaidInv, Done, LoopInv, TypeOK
  <2>2. opt_cost(ts, wait) <= Line(ts, cur, wait)
    BY OptStateIsBest DEF LoopInv, TypeOK
  <2>3. Line(ts, cur, wait) \in Nat /\ opt_cost(ts, wait) \in Nat
    BY LineNat, OptStateIsBest DEF LoopInv, TypeOK, opt_cost
  <2> QED
    BY <2>1, <2>2, <2>3
<1> QED
  BY <1>1, LoopAlways, PTL

-----------------------------------------------------------------------------
(* opt and ftp switch at once: until the wake-up nothing is paid, and the  *)
(* whole wait is spent in the state they chose.                            *)

ChosenState == IF policy = "opt" THEN opt_state(ts, wait) ELSE opt_state(ts, pred)

AtOnceInv ==
  policy \in {"opt", "ftp"} =>
    /\ switches = AtOnce(ChosenState)
    /\ last = 0
    /\ wait = 0 => cur = 0
    /\ pc = "loop" => cost = 0
    /\ pc = "done" => /\ cost = Line(ts, cur, wait)
                      /\ wait > 0 => cur = ChosenState

\* The choice of opt and ftp is a run of zeros.
LEMMA InitAtOnce == Init => AtOnceInv
BY DEF Init, SwitchesOf, AtOnceInv, ChosenState

\* A positive wait takes all of the zeros, a wait of zero none of them.
LEMMA NextAtOnce ==
  ASSUME LoopInv, AtOnceInv, [Next]_vars
  PROVE  AtOnceInv'
<1> SUFFICES ASSUME policy' \in {"opt", "ftp"}
             PROVE  /\ switches' = AtOnce(ChosenState')
                    /\ last' = 0
                    /\ wait' = 0 => cur' = 0
                    /\ pc' = "loop" => cost' = 0
                    /\ pc' = "done" => /\ cost' = Line(ts', cur', wait')
                                       /\ wait' > 0 => cur' = ChosenState'
  BY DEF AtOnceInv
<1>1. UNCHANGED chosen /\ ChosenState' = ChosenState /\ policy \in {"opt", "ftp"}
  BY DEF Next, Switch, Wake, vars, chosen, ChosenState
<1>2. switches = AtOnce(ChosenState) /\ last = 0 /\ (wait = 0 => cur = 0)
      /\ (pc = "loop" => cost = 0)
  BY <1>1 DEF AtOnceInv
<1>3. ChosenState \in 0 .. ts.n /\ ChosenState \in Nat /\ Len(switches) = ChosenState
      /\ \A k \in 1 .. ChosenState : switches[k] = 0
  <2>1. ChosenState \in 0 .. ts.n
    BY OptStateIsBest DEF LoopInv, ChosenState
  <2> QED
    BY <1>2, <2>1 DEF AtOnce, LoopInv, Valid
<1>4. i \in Nat /\ cur = i /\ i <= ChosenState /\ cur \in 0 .. ts.n /\ wait \in Nat
      /\ ts.alpha[cur] \in Nat /\ ts.beta[cur] \in Nat
  BY <1>3 DEF LoopInv, TypeOK, Valid
<1>5. CASE Switch
  <2>1. switches[i + 1] = 0 /\ wait > 0
    BY <1>3, <1>4, <1>5 DEF Switch, More
  <2>2. ts.alpha[cur] * (switches[i + 1] - last) = 0
    BY <1>2, <1>4, <2>1
  <2> QED
    BY <1>1, <1>2, <1>5, <2>1, <2>2 DEF Switch, chosen
<1>6. CASE Wake
  <2>1. cost' = Line(ts, cur, wait)
    BY <1>2, <1>4, <1>6 DEF Wake, Line
  <2>2. wait > 0 => cur = ChosenState
    BY <1>3, <1>4, <1>6 DEF Wake, More
  <2> QED
    BY <1>1, <1>2, <1>6, <2>1, <2>2 DEF Wake, chosen
<1>7. CASE UNCHANGED vars
  BY <1>1, <1>7 DEF vars, chosen, AtOnceInv, ChosenState
<1> QED
  BY <1>5, <1>6, <1>7 DEF Next

\* opt and ftp pay one line throughout.
LEMMA AtOnceAlways == Spec => [](LoopInv /\ PaidInv /\ AtOnceInv)
<1>1. Init => LoopInv /\ PaidInv /\ AtOnceInv
  BY InitLoop, InitAtOnce
<1>2. LoopInv /\ PaidInv /\ AtOnceInv /\ [Next]_vars => (LoopInv /\ PaidInv /\ AtOnceInv)'
  BY NextLoop, NextAtOnce
<1> QED
  BY <1>1, <1>2, PTL DEF Spec

-----------------------------------------------------------------------------
\* d more seconds in a state cost its rate, which is at most the first one.
LEMMA LineGrows ==
  ASSUME NEW sys, Valid(sys), NEW k \in 0 .. sys.n, NEW w \in Nat, NEW d \in Nat
  PROVE  /\ Line(sys, k, w + d) = Line(sys, k, w) + sys.alpha[k] * d
         /\ sys.alpha[k] * d \in Nat /\ sys.alpha[0] * d \in Nat
         /\ sys.alpha[k] * d <= sys.alpha[0] * d
<1>1. sys.alpha[k] \in Nat /\ sys.beta[k] \in Nat /\ sys.alpha[0] \in Nat
      /\ sys.alpha[k] <= sys.alpha[0]
  BY DEF Valid
<1>2. sys.alpha[k] * (w + d) = sys.alpha[k] * w + sys.alpha[k] * d
      /\ sys.alpha[k] * w \in Nat
  BY <1>1
<1>3. sys.alpha[k] * d \in Nat /\ sys.alpha[0] * d \in Nat
      /\ sys.alpha[k] * d <= sys.alpha[0] * d
  BY <1>1, RateMonotone, Zenon
<1> QED
  BY <1>1, <1>2, <1>3 DEF Line

\* A state that is the better one for the wait v is worse at w by at most the
\* first rate times the distance of v and w.
LEMMA ErrorCost ==
  ASSUME NEW sys, Valid(sys), NEW k \in 0 .. sys.n, NEW q \in 0 .. sys.n,
         NEW v \in Nat, NEW w \in Nat, Line(sys, k, v) <= Line(sys, q, v)
  PROVE  Line(sys, k, w) <= Line(sys, q, w) + sys.alpha[0] * Distance(v, w)
<1>1. \A x \in Nat : Line(sys, k, x) \in Nat /\ Line(sys, q, x) \in Nat
  BY LineNat
<1>2. CASE v <= w
  <2>1. PICK d \in Nat : w = v + d
    BY <1>2, w - v \in Nat
  <2>2. Distance(v, w) = d
    BY <2>1 DEF Distance
  <2>3. /\ Line(sys, k, w) = Line(sys, k, v) + sys.alpha[k] * d
        /\ Line(sys, q, w) = Line(sys, q, v) + sys.alpha[q] * d
        /\ sys.alpha[k] * d \in Nat /\ sys.alpha[q] * d \in Nat
        /\ sys.alpha[0] * d \in Nat /\ sys.alpha[k] * d <= sys.alpha[0] * d
    <3>1. \A r \in 0 .. sys.n :
            /\ Line(sys, r, v + d) = Line(sys, r, v) + sys.alpha[r] * d
            /\ sys.alpha[r] * d \in Nat /\ sys.alpha[0] * d \in Nat
            /\ sys.alpha[r] * d <= sys.alpha[0] * d
      BY LineGrows, Zenon
    <3> QED
      BY <2>1, <3>1, Zenon
  <2> QED
    BY <1>1, <2>2, <2>3
<1>3. CASE w < v
  <2>1. PICK d \in Nat : v = w + d
    BY <1>3, v - w \in Nat
  <2>2. Distance(v, w) = d
    BY <1>3, <2>1 DEF Distance
  <2>3. /\ Line(sys, k, v) = Line(sys, k, w) + sys.alpha[k] * d
        /\ Line(sys, q, v) = Line(sys, q, w) + sys.alpha[q] * d
        /\ sys.alpha[k] * d \in Nat /\ sys.alpha[q] * d \in Nat
        /\ sys.alpha[0] * d \in Nat /\ sys.alpha[q] * d <= sys.alpha[0] * d
    <3>1. \A r \in 0 .. sys.n :
            /\ Line(sys, r, w + d) = Line(sys, r, w) + sys.alpha[r] * d
            /\ sys.alpha[r] * d \in Nat /\ sys.alpha[0] * d \in Nat
            /\ sys.alpha[r] * d <= sys.alpha[0] * d
      BY LineGrows, Zenon
    <3> QED
      BY <2>1, <3>1, Zenon
  <2> QED
    BY <1>1, <2>2, <2>3
<1> QED
  BY <1>2, <1>3

\* A wait of zero is free: no switch is made, and the optimum is free as well.
LEMMA ZeroWait ==
  ASSUME LoopInv, AtOnceInv, Done, policy \in {"opt", "ftp"}, wait = 0
  PROVE  cost = 0 /\ opt_cost(ts, wait) = 0
<1>1. cost = Line(ts, 0, 0) /\ 0 \in 0 .. ts.n
  BY DEF AtOnceInv, Done, LoopInv, TypeOK, Valid
<1>2. Line(ts, 0, 0) = 0
  BY DEF Line, LoopInv, Valid
<1>3. opt_cost(ts, wait) <= Line(ts, 0, 0) /\ opt_cost(ts, wait) \in Nat
  BY <1>1, OptStateIsBest, LineNat DEF LoopInv, opt_cost
<1> QED
  BY <1>1, <1>2, <1>3

\* Knowing the wait attains the optimum, for every system and every wait.
THEOREM OptAttainsCorrect == Spec => []OptAttains
<1>1. LoopInv /\ AtOnceInv => OptAttains
  <2> SUFFICES ASSUME LoopInv, AtOnceInv, Done, policy = "opt"
               PROVE  cost = opt_cost(ts, wait)
    BY DEF OptAttains
  <2>1. CASE wait = 0
    BY <2>1, ZeroWait
  <2>2. CASE wait > 0
    BY <2>2 DEF AtOnceInv, Done, ChosenState, opt_cost
  <2> QED
    BY <2>1, <2>2 DEF LoopInv
<1> QED
  BY <1>1, AtOnceAlways, PTL

\* Following any prediction loses at most the first rate times its error.
THEOREM FtpWithinErrorCorrect == Spec => []FtpWithinError
<1>1. LoopInv /\ AtOnceInv => FtpWithinError
  <2> SUFFICES ASSUME LoopInv, AtOnceInv, Done, policy = "ftp"
               PROVE  cost <= opt_cost(ts, wait) + ts.alpha[0] * Distance(pred, wait)
    BY DEF FtpWithinError
  <2>1. /\ Valid(ts) /\ wait \in Nat /\ pred \in Nat
        /\ opt_state(ts, wait) \in 0 .. ts.n /\ opt_state(ts, pred) \in 0 .. ts.n
    BY OptStateIsBest DEF LoopInv
  <2>2. CASE wait = 0
    <3>1. ts.alpha[0] \in Nat /\ Distance(pred, wait) \in Nat
      BY <2>1 DEF Valid, Distance
    <3>2. ts.alpha[0] * Distance(pred, wait) \in Nat
      BY <3>1
    <3> QED
      BY <2>2, <3>2, ZeroWait
  <2>3. CASE wait > 0
    <3>1. cost = Line(ts, opt_state(ts, pred), wait)
      BY <2>3 DEF AtOnceInv, Done, ChosenState
    <3>2. Line(ts, opt_state(ts, pred), pred) <= Line(ts, opt_state(ts, wait), pred)
      BY <2>1, OptStateIsBest DEF opt_cost
    <3> QED
      BY <2>1, <3>1, <3>2, ErrorCost DEF opt_cost
  <2> QED
    BY <2>1, <2>2, <2>3
<1> QED
  BY <1>1, AtOnceAlways, PTL

-----------------------------------------------------------------------------
(* online_det on the lower envelope: the rent paid is never more than the  *)
(* line of the present state, which is the cheapest one all the while.     *)

\* A break-even time separates the waits for which a step does not pay from those
\* for which it does.
LEMMA BreakEvenSeparates ==
  ASSUME NEW a \in Nat, a > 0, NEW b \in Nat, NEW w \in Nat
  PROVE  /\ b \div a \in Nat
         /\ w <= b \div a => a * w <= b
         /\ w > b \div a => b <= a * w
<1> DEFINE t == b \div a
<1>1. t \in Nat /\ a * t <= b /\ b < a * t + a
  <2>1. t \in Nat
    OBVIOUS
  <2>2. a * t <= b
    OBVIOUS
  <2>3. b < a * t + a
    OBVIOUS
  <2> QED
    BY <2>1, <2>2, <2>3, Zenon
<1> HIDE DEF t
<1>2. a * w \in Nat /\ a * t \in Nat
  BY <1>1
<1>3. ASSUME w <= t PROVE a * w <= b
  <2>1. a * w <= a * t
    <3>1. PICK d \in Nat : t = w + d
      BY <1>1, <1>3, t - w \in Nat
    <3>2. a * (w + d) = a * w + a * d /\ a * d \in Nat
      BY <3>1
    <3> QED
      BY <1>2, <3>1, <3>2
  <2> QED
    BY <1>1, <1>2, <2>1
<1>4. ASSUME w > t PROVE b <= a * w
  <2>1. PICK d \in Nat : w = t + 1 + d
    BY <1>1, <1>4, w - t - 1 \in Nat
  <2>2. a * (t + 1 + d) = a * t + a + a * d /\ a * d \in Nat
    BY <1>1, <2>1
  <2> QED
    BY <1>1, <1>2, <2>1, <2>2
<1> QED
  BY <1>1, <1>3, <1>4 DEF t

\* What a step saves in rent and costs in price, as naturals.
LEMMA StepNat ==
  ASSUME NEW sys, Valid(sys), NEW j \in 0 .. sys.n - 1
  PROVE  /\ step_a(sys, j) \in Nat /\ step_b(sys, j) \in Nat
         /\ j \in 0 .. sys.n /\ j + 1 \in 0 .. sys.n /\ sys.n \in Nat
         /\ \A w \in Nat : Line(sys, j + 1, w) + step_a(sys, j) * w
                             = Line(sys, j, w) + step_b(sys, j)
<1>1. sys.n \in Nat /\ j \in 0 .. sys.n /\ j + 1 \in 0 .. sys.n
  BY DEF Valid
<1>2. /\ sys.alpha[j] \in Nat /\ sys.alpha[j + 1] \in Nat
      /\ sys.beta[j] \in Nat /\ sys.beta[j + 1] \in Nat
      /\ sys.alpha[j + 1] <= sys.alpha[j] /\ sys.beta[j] <= sys.beta[j + 1]
  BY <1>1, NeighbourStates
<1>3. step_a(sys, j) \in Nat /\ step_b(sys, j) \in Nat
  BY <1>2 DEF step_a, step_b
<1>4. ASSUME NEW w \in Nat
      PROVE  Line(sys, j + 1, w) + step_a(sys, j) * w = Line(sys, j, w) + step_b(sys, j)
  <2>1. PICK d \in Nat : sys.alpha[j] = sys.alpha[j + 1] + d
    BY <1>2, sys.alpha[j] - sys.alpha[j + 1] \in Nat
  <2>2. step_a(sys, j) = d
    BY <1>2, <2>1 DEF step_a
  <2>3. /\ (sys.alpha[j + 1] + d) * w = sys.alpha[j + 1] * w + d * w
        /\ sys.alpha[j + 1] * w \in Nat /\ d * w \in Nat
    BY <1>2, <2>1
  <2> QED
    BY <1>2, <2>1, <2>2, <2>3 DEF Line, step_b
<1> QED
  BY <1>1, <1>3, <1>4

\* On the envelope the break-even times never decrease.
LEMMA EnvelopeInOrder ==
  ASSUME NEW sys, Valid(sys), OnEnvelope(sys), NEW j \in 0 .. sys.n - 1
  PROVE  /\ BreakEven(sys, j) \in Nat
         /\ \A k \in j .. sys.n - 1 : BreakEven(sys, j) <= BreakEven(sys, k)
<1> DEFINE Bad == {k \in j .. sys.n - 1 : ~(BreakEven(sys, j) <= BreakEven(sys, k))}
<1>1. sys.n \in Nat
  BY DEF Valid
<1>2. \A k \in 0 .. sys.n - 1 : BreakEven(sys, k) \in Nat
  BY StepNat, BreakEvenSeparates DEF OnEnvelope, BreakEven
<1>3. Bad = {}
  <2> SUFFICES ASSUME Bad # {} PROVE FALSE
    OBVIOUS
  <2>1. PICK m \in Bad : \A y \in Bad : m <= y
    <3>1. Bad \subseteq Nat
      BY <1>1
    <3> QED
      BY <3>1, NatHasMin
  <2>2. m \in 1 .. sys.n - 1 /\ m - 1 \in j .. sys.n - 1
    BY <1>1, <1>2, <2>1
  <2>3. m - 1 \notin Bad
    BY <1>1, <2>1, <2>2
  <2>4. BreakEven(sys, j) <= BreakEven(sys, m - 1)
    BY <2>2, <2>3
  <2>5. BreakEven(sys, m - 1) <= BreakEven(sys, m)
    BY <2>2 DEF OnEnvelope
  <2>6. m - 1 \in 0 .. sys.n - 1 /\ m \in 0 .. sys.n - 1
    BY <1>1, <2>2
  <2> QED
    BY <1>2, <2>1, <2>4, <2>5, <2>6
<1> QED
  BY <1>2, <1>3

\* No deeper state is cheaper where no further step pays.
LEMMA CheapestAbove ==
  ASSUME NEW sys, Valid(sys), NEW c \in 0 .. sys.n, NEW w \in Nat,
         \A j \in c .. sys.n - 1 : step_a(sys, j) * w <= step_b(sys, j)
  PROVE  \A j \in c .. sys.n : Line(sys, c, w) <= Line(sys, j, w)
<1> DEFINE Bad == {j \in c .. sys.n : ~(Line(sys, c, w) <= Line(sys, j, w))}
<1> SUFFICES ASSUME Bad # {} PROVE FALSE
  OBVIOUS
<1>1. sys.n \in Nat /\ \A j \in 0 .. sys.n : Line(sys, j, w) \in Nat
  BY LineNat DEF Valid
<1>2. PICK m \in Bad : \A y \in Bad : m <= y
  <2>1. Bad \subseteq Nat
    BY <1>1
  <2> QED
    BY <2>1, NatHasMin
<1>3. m \in 0 .. sys.n /\ m # c /\ m - 1 \in c .. sys.n - 1 /\ m - 1 \in 0 .. sys.n - 1
  BY <1>1, <1>2
<1>4. Line(sys, c, w) <= Line(sys, m - 1, w)
  BY <1>1, <1>2, <1>3
<1>5. /\ Line(sys, m - 1 + 1, w) + step_a(sys, m - 1) * w
           = Line(sys, m - 1, w) + step_b(sys, m - 1)
      /\ step_a(sys, m - 1) \in Nat /\ step_b(sys, m - 1) \in Nat
  BY <1>3, StepNat
<1>6. step_a(sys, m - 1) * w \in Nat /\ step_a(sys, m - 1) * w <= step_b(sys, m - 1)
  BY <1>3, <1>5
<1>7. m - 1 + 1 = m /\ m - 1 \in 0 .. sys.n
  BY <1>1, <1>3
<1>8. Line(sys, m, w) >= Line(sys, m - 1, w)
  BY <1>1, <1>3, <1>5, <1>6, <1>7
<1> QED
  BY <1>1, <1>2, <1>3, <1>4, <1>7, <1>8

\* No earlier state is cheaper where every step made has paid.
LEMMA CheapestBelow ==
  ASSUME NEW sys, Valid(sys), NEW c \in 0 .. sys.n, NEW w \in Nat,
         \A j \in 0 .. c - 1 : step_b(sys, j) <= step_a(sys, j) * w
  PROVE  \A j \in 0 .. c : Line(sys, c, w) <= Line(sys, j, w)
<1> DEFINE Bad == {d \in 0 .. c : ~(Line(sys, c, w) <= Line(sys, c - d, w))}
<1>1. sys.n \in Nat /\ c \in Nat /\ \A j \in 0 .. sys.n : Line(sys, j, w) \in Nat
  BY LineNat DEF Valid
<1>2. Bad = {}
  <2> SUFFICES ASSUME Bad # {} PROVE FALSE
    OBVIOUS
  <2>1. PICK d \in Bad : \A y \in Bad : d <= y
    <3>1. Bad \subseteq Nat
      BY <1>1
    <3> QED
      BY <3>1, NatHasMin
  <2>2. d # 0
    BY <1>1, <2>1
  <2>3. d - 1 \in 0 .. c /\ c - d \in 0 .. sys.n - 1 /\ c - d \in 0 .. c - 1
        /\ c - d \in 0 .. sys.n /\ c - (d - 1) = c - d + 1 /\ c - d + 1 \in 0 .. sys.n
    BY <1>1, <2>1, <2>2
  <2>4. Line(sys, c, w) <= Line(sys, c - d + 1, w)
    BY <1>1, <2>1, <2>3
  <2>5. /\ Line(sys, c - d + 1, w) + step_a(sys, c - d) * w
             = Line(sys, c - d, w) + step_b(sys, c - d)
        /\ step_a(sys, c - d) \in Nat /\ step_b(sys, c - d) \in Nat
    BY <2>3, StepNat
  <2>6. step_a(sys, c - d) * w \in Nat /\ step_b(sys, c - d) <= step_a(sys, c - d) * w
    BY <2>3, <2>5
  <2>7. Line(sys, c - d + 1, w) <= Line(sys, c - d, w)
    BY <1>1, <2>3, <2>5, <2>6
  <2> QED
    BY <1>1, <2>1, <2>3, <2>4, <2>7
<1>3. ASSUME NEW j \in 0 .. c PROVE Line(sys, c, w) <= Line(sys, j, w)
  <2>1. c - j \in 0 .. c /\ c - (c - j) = j
    BY <1>1
  <2> QED
    BY <1>2, <2>1
<1> QED
  BY <1>3

\* On the envelope the schedule of online_det is the list of break-even times.
LEMMA DetOnEnvelope ==
  ASSUME NEW sys, Valid(sys), OnEnvelope(sys), NEW s \in DetSchedules(sys)
  PROVE  Len(s) = sys.n /\ \A k \in 1 .. sys.n : s[k] = BreakEven(sys, k - 1)
<1>1. PICK m \in DetLengths(sys) : s \in [1 .. m -> {BreakEven(sys, j) : j \in 0 .. m - 1}]
  BY DEF DetSchedules
<1>2. sys.n \in Nat /\ m \in 0 .. sys.n
  BY DEF DetLengths, Valid
<1>3. m = sys.n
  <2> SUFFICES ASSUME m < sys.n PROVE FALSE
    BY <1>2
  <2>1. m \in 0 .. sys.n - 1 /\ step_a(sys, m) = 0
    BY <1>2 DEF DetLengths
  <2> QED
    BY <2>1 DEF OnEnvelope
<1>4. Len(s) = sys.n
  BY <1>1, <1>2, <1>3, DetSchedule DEF Schedule
<1>5. ASSUME NEW k \in 1 .. sys.n PROVE s[k] = BreakEven(sys, k - 1)
  <2>1. k \in 1 .. Len(s) /\ k - 1 \in 0 .. k - 1
    BY <1>2, <1>4
  <2>2. PICK j \in 0 .. k - 1 : s[k] = BreakEven(sys, j)
    BY <2>1 DEF DetSchedules
  <2>3. s[k] >= BreakEven(sys, k - 1)
    BY <2>1 DEF DetSchedules
  <2>4. j \in 0 .. sys.n - 1 /\ k - 1 \in j .. sys.n - 1 /\ k - 1 \in 0 .. sys.n - 1
    BY <1>2, <2>2
  <2>5. BreakEven(sys, j) <= BreakEven(sys, k - 1)
    BY <2>4, EnvelopeInOrder
  <2>6. BreakEven(sys, j) \in Nat /\ BreakEven(sys, k - 1) \in Nat
    BY <2>4, EnvelopeInOrder
  <2> QED
    BY <2>2, <2>3, <2>5, <2>6
<1> QED
  BY <1>4, <1>5

\* The switches of online_det on the envelope, made where the step pays, and what has
\* been paid by then
DetInv ==
  policy = "online_det" /\ OnEnvelope(ts) =>
    /\ Len(switches) = ts.n
    /\ \A k \in 1 .. ts.n : switches[k] = BreakEven(ts, k - 1)
    /\ cur > 0 => BreakEven(ts, cur - 1) < wait
    /\ pc = "loop" => cost <= Line(ts, cur, last)
    /\ pc = "done" => /\ cost <= Line(ts, cur, wait) + ts.beta[cur]
                      /\ cur < ts.n => wait <= BreakEven(ts, cur)

\* Nothing is paid at the start.
LEMMA InitDet == Init => DetInv
<1> SUFFICES ASSUME Init, policy = "online_det", OnEnvelope(ts) PROVE DetInv
  BY DEF DetInv
<1>1. Valid(ts)
  BY TrajectoryAssumption DEF Init
<1>2. switches \in DetSchedules(ts)
  BY DEF Init, SwitchesOf
<1>3. Len(switches) = ts.n /\ \A k \in 1 .. ts.n : switches[k] = BreakEven(ts, k - 1)
  BY <1>1, <1>2, DetOnEnvelope
<1>4. 0 \in 0 .. ts.n
  BY <1>1 DEF Valid
<1>5. Line(ts, 0, 0) \in Nat
  BY <1>1, <1>4, LineNat
<1> QED
  BY <1>3, <1>5 DEF Init, DetInv

\* A switch at the break-even time changes to a line that is no lower there.
LEMMA SwitchDet ==
  ASSUME LoopInv, DetInv, Switch
  PROVE  DetInv'
<1> SUFFICES ASSUME policy = "online_det", OnEnvelope(ts)
             PROVE  /\ Len(switches) = ts.n
                    /\ \A k \in 1 .. ts.n : switches[k] = BreakEven(ts, k - 1)
                    /\ cur' > 0 => BreakEven(ts, cur' - 1) < wait
                    /\ pc' = "loop" => cost' <= Line(ts, cur', last')
                    /\ pc' # "done"
  BY DEF DetInv, Switch, chosen
<1> DEFINE s == switches[i + 1]
<1>1. /\ Len(switches) = ts.n /\ \A k \in 1 .. ts.n : switches[k] = BreakEven(ts, k - 1)
      /\ cost <= Line(ts, cur, last)
  BY DEF DetInv, Switch
<1>2. /\ Valid(ts) /\ ts.n \in Nat /\ i \in Nat /\ cur = i /\ last \in Nat /\ cost \in Nat
      /\ wait \in Nat /\ i < ts.n /\ s < wait /\ last <= s
  BY <1>1 DEF LoopInv, TypeOK, Valid, Switch, More
<1>3. s = BreakEven(ts, cur) /\ cur \in 0 .. ts.n - 1 /\ cur \in 0 .. ts.n
  BY <1>1, <1>2
<1>4. s \in Nat
  BY <1>2, <1>3, EnvelopeInOrder
<1>5. /\ cost' = cost + ts.alpha[cur] * (s - last)
      /\ cur' = cur + 1 /\ last' = s /\ pc' = "loop"
  BY DEF Switch
<1> HIDE DEF s
<1>6. ts.alpha[cur] \in Nat /\ ts.beta[cur] \in Nat
  BY <1>2, <1>3, LineNat
<1>7. ts.alpha[cur] * (s - last) \in Nat
  BY <1>2, <1>4, <1>6, RateSplits
<1>8. cost' <= Line(ts, cur, s)
  <2>1. last \in Nat /\ last <= s /\ cost \in Nat
    BY <1>2
  <2>2. cost <= ts.alpha[cur] * last + ts.beta[cur]
    BY <1>1 DEF Line
  <2>3. cost + ts.alpha[cur] * (s - last) <= ts.alpha[cur] * s + ts.beta[cur]
    BY <1>4, <1>6, <2>1, <2>2, LinePaid, Zenon
  <2> QED
    BY <1>5, <2>3 DEF Line
<1>9. Line(ts, cur, s) <= Line(ts, cur + 1, s)
  <2>1. /\ step_a(ts, cur) \in Nat /\ step_a(ts, cur) > 0 /\ step_b(ts, cur) \in Nat
        /\ cur + 1 \in 0 .. ts.n
        /\ Line(ts, cur + 1, s) + step_a(ts, cur) * s = Line(ts, cur, s) + step_b(ts, cur)
    BY <1>2, <1>3, <1>4, StepNat DEF OnEnvelope
  <2>2. step_a(ts, cur) * s <= step_b(ts, cur)
    <3>1. s <= step_b(ts, cur) \div step_a(ts, cur)
      BY <1>3, <1>4 DEF BreakEven
    <3> QED
      BY <1>4, <2>1, <3>1, BreakEvenSeparates
  <2>3. /\ Line(ts, cur, s) \in Nat /\ Line(ts, cur + 1, s) \in Nat
        /\ step_a(ts, cur) * s \in Nat
    <3>1. Line(ts, cur, s) \in Nat
      BY <1>2, <1>3, <1>4, LineNat
    <3>2. Line(ts, cur + 1, s) \in Nat
      BY <1>2, <1>4, <2>1, LineNat
    <3>3. step_a(ts, cur) * s \in Nat
      BY <1>4, <2>1
    <3> QED
      BY <3>1, <3>2, <3>3
  <2> QED
    BY <2>1, <2>2, <2>3
<1>10. cost' \in Nat /\ Line(ts, cur, s) \in Nat /\ Line(ts, cur + 1, s) \in Nat
  <2>1. cur + 1 \in 0 .. ts.n
    BY <1>2, <1>3
  <2>2. Line(ts, cur, s) \in Nat
    BY <1>2, <1>3, <1>4, LineNat
  <2>3. Line(ts, cur + 1, s) \in Nat
    BY <1>2, <1>4, <2>1, LineNat
  <2> QED
    BY <1>2, <1>5, <1>7, <2>2, <2>3
<1>11. cost' <= Line(ts, cur', last')
  BY <1>5, <1>8, <1>9, <1>10
<1>12. BreakEven(ts, cur' - 1) < wait
  <2>1. cur' - 1 = cur
    BY <1>2, <1>5
  <2> QED
    BY <1>2, <1>3, <2>1
<1> QED
  BY <1>1, <1>5, <1>11, <1>12

\* The wake-up adds the rest of the line and the price of the state once more.
LEMMA WakeDet ==
  ASSUME LoopInv, DetInv, Wake
  PROVE  DetInv'
<1> SUFFICES ASSUME policy = "online_det", OnEnvelope(ts)
             PROVE  /\ Len(switches) = ts.n
                    /\ \A k \in 1 .. ts.n : switches[k] = BreakEven(ts, k - 1)
                    /\ cur > 0 => BreakEven(ts, cur - 1) < wait
                    /\ cost' <= Line(ts, cur, wait) + ts.beta[cur]
                    /\ cur < ts.n => wait <= BreakEven(ts, cur)
  BY DEF DetInv, Wake, chosen
<1>1. /\ Len(switches) = ts.n /\ \A k \in 1 .. ts.n : switches[k] = BreakEven(ts, k - 1)
      /\ cost <= Line(ts, cur, last) /\ (cur > 0 => BreakEven(ts, cur - 1) < wait)
  BY DEF DetInv, Wake
<1>2. /\ Valid(ts) /\ ts.n \in Nat /\ i \in Nat /\ cur = i /\ cur \in 0 .. ts.n
      /\ last \in Nat /\ cost \in Nat /\ wait \in Nat /\ last <= wait
  BY DEF LoopInv, TypeOK, Valid
<1>3. ts.alpha[cur] \in Nat /\ ts.beta[cur] \in Nat
  BY <1>2, LineNat
<1>4. /\ cost + ts.alpha[cur] * (wait - last) \in Nat
      /\ cost + ts.alpha[cur] * (wait - last) <= Line(ts, cur, wait)
      /\ Line(ts, cur, wait) \in Nat
  <2>1. last \in Nat /\ wait \in Nat /\ last <= wait /\ cost \in Nat
    BY <1>2
  <2>2. cost <= ts.alpha[cur] * last + ts.beta[cur]
    BY <1>1 DEF Line
  <2>3. /\ cost + ts.alpha[cur] * (wait - last) \in Nat
        /\ cost + ts.alpha[cur] * (wait - last) <= ts.alpha[cur] * wait + ts.beta[cur]
    BY <1>3, <2>1, <2>2, LinePaid, Zenon
  <2> QED
    BY <1>2, <2>3, LineNat DEF Line
<1>5. cost' <= Line(ts, cur, wait) + ts.beta[cur]
  <2>1. cost' = cost + ts.alpha[cur] * (wait - last) + ts.beta[cur]
    BY DEF Wake
  <2> DEFINE x == cost + ts.alpha[cur] * (wait - last)
  <2>2. x \in Nat /\ x <= Line(ts, cur, wait) /\ cost' = x + ts.beta[cur]
    BY <1>4, <2>1
  <2> HIDE DEF x
  <2> QED
    BY <1>3, <1>4, <2>2
<1>6. ASSUME cur < ts.n PROVE wait <= BreakEven(ts, cur)
  <2>1. i < Len(switches) /\ i + 1 \in 1 .. ts.n /\ i + 1 - 1 = cur /\ cur \in 0 .. ts.n - 1
    BY <1>1, <1>2, <1>6
  <2>2. ~(switches[i + 1] < wait)
    BY <2>1 DEF Wake, More
  <2>3. switches[i + 1] = BreakEven(ts, cur)
    <3> DEFINE k == i + 1
    <3>1. k \in 1 .. ts.n /\ k - 1 = cur
      BY <1>2, <2>1 DEF k
    <3> HIDE DEF k
    <3>2. switches[k] = BreakEven(ts, k - 1)
      BY <1>1, <3>1
    <3>3. switches[k] = BreakEven(ts, cur)
      BY <3>1, <3>2
    <3> QED
      BY <3>3 DEF k
  <2>4. BreakEven(ts, cur) \in Nat
    BY <1>2, <2>1, EnvelopeInOrder
  <2> QED
    BY <1>2, <2>2, <2>3, <2>4
<1> QED
  BY <1>1, <1>5, <1>6

\* The loop keeps the account of online_det.
LEMMA NextDet == LoopInv /\ DetInv /\ [Next]_vars => DetInv'
<1>1. CASE UNCHANGED vars
  BY <1>1 DEF vars, chosen, DetInv
<1> QED
  BY <1>1, SwitchDet, WakeDet DEF Next

\* Where all steps made have paid and none that is left does, the present state is
\* the cheapest of all.
LEMMA PresentIsBest ==
  ASSUME NEW sys, Valid(sys), OnEnvelope(sys), NEW c \in 0 .. sys.n, NEW w \in Nat,
         c > 0 => BreakEven(sys, c - 1) < w,
         c < sys.n => w <= BreakEven(sys, c)
  PROVE  \A j \in 0 .. sys.n : Line(sys, c, w) <= Line(sys, j, w)
<1>1. sys.n \in Nat /\ c \in Nat
  BY DEF Valid
<1>2. \A j \in 0 .. sys.n - 1 : /\ step_a(sys, j) \in Nat /\ step_b(sys, j) \in Nat
                                /\ step_a(sys, j) > 0 /\ BreakEven(sys, j) \in Nat
  BY StepNat, EnvelopeInOrder DEF OnEnvelope
<1>3. ASSUME NEW j \in c .. sys.n - 1 PROVE step_a(sys, j) * w <= step_b(sys, j)
  <2>1. j \in 0 .. sys.n - 1 /\ c \in 0 .. sys.n - 1 /\ w <= BreakEven(sys, c)
    BY <1>1
  <2>2. BreakEven(sys, c) <= BreakEven(sys, j)
    BY <2>1, EnvelopeInOrder
  <2>3. w <= BreakEven(sys, j)
    BY <1>2, <2>1, <2>2
  <2> QED
    BY <1>2, <2>1, <2>3, BreakEvenSeparates DEF BreakEven
<1>4. ASSUME NEW j \in 0 .. c - 1 PROVE step_b(sys, j) <= step_a(sys, j) * w
  <2>1. /\ j \in 0 .. sys.n - 1 /\ c - 1 \in 0 .. sys.n - 1 /\ c - 1 \in j .. sys.n - 1
        /\ BreakEven(sys, c - 1) < w
    BY <1>1
  <2>2. BreakEven(sys, j) <= BreakEven(sys, c - 1)
    BY <2>1, EnvelopeInOrder
  <2>3. w > BreakEven(sys, j)
    BY <1>2, <2>1, <2>2
  <2> QED
    BY <1>2, <2>1, <2>3, BreakEvenSeparates DEF BreakEven
<1>5. \A j \in c .. sys.n : Line(sys, c, w) <= Line(sys, j, w)
  BY <1>3, CheapestAbove
<1>6. \A j \in 0 .. c : Line(sys, c, w) <= Line(sys, j, w)
  BY <1>4, CheapestBelow
<1>7. \A j \in 0 .. sys.n : j \in 0 .. c \/ j \in c .. sys.n
  BY <1>1
<1> QED
  BY <1>5, <1>6, <1>7

\* On the lower envelope online_det pays at most twice the optimum, with any number of
\* states and for every wait.
THEOREM DetTwiceOnEnvelopeCorrect == Spec => []DetTwiceOnEnvelope
<1>1. Init => LoopInv /\ PaidInv /\ DetInv
  BY InitLoop, InitDet
<1>2. LoopInv /\ PaidInv /\ DetInv /\ [Next]_vars => (LoopInv /\ PaidInv /\ DetInv)'
  BY NextLoop, NextDet
<1>3. LoopInv /\ DetInv => DetTwiceOnEnvelope
  <2> SUFFICES ASSUME LoopInv, DetInv, Done, policy = "online_det", OnEnvelope(ts)
               PROVE  cost <= 2 * opt_cost(ts, wait)
    BY DEF DetTwiceOnEnvelope
  <2>1. /\ Valid(ts) /\ cur \in 0 .. ts.n /\ wait \in Nat /\ cost \in Nat
        /\ cost <= Line(ts, cur, wait) + ts.beta[cur]
        /\ cur > 0 => BreakEven(ts, cur - 1) < wait
        /\ cur < ts.n => wait <= BreakEven(ts, cur)
    BY DEF LoopInv, TypeOK, DetInv, Done
  <2>2. Line(ts, cur, wait) <= Line(ts, opt_state(ts, wait), wait)
    BY <2>1, PresentIsBest, OptStateIsBest
  <2>3. opt_cost(ts, wait) \in Nat /\ Line(ts, cur, wait) <= opt_cost(ts, wait)
    BY <2>1, <2>2, OptStateIsBest, LineNat DEF opt_cost
  <2>4. Line(ts, cur, wait) \in Nat /\ ts.beta[cur] \in Nat /\ ts.alpha[cur] \in Nat
    BY <2>1, LineNat
  <2>5. ts.beta[cur] <= Line(ts, cur, wait)
    <3>1. ts.alpha[cur] * wait \in Nat
      BY <2>1, <2>4
    <3> QED
      BY <2>4, <3>1 DEF Line
  <2> QED
    BY <2>1, <2>3, <2>4, <2>5
<1> QED
  BY <1>1, <1>2, <1>3, PTL DEF Spec

-----------------------------------------------------------------------------
(* What the loops of policy.py over states and over turns leave.           *)

\* A set that contains 0, and with each number its successor up to n, contains
\* all numbers up to n.
LEMMA UpTo ==
  ASSUME NEW n \in Nat, NEW S, 0 \in S,
         \A k \in 0 .. n : k \in S /\ k < n => k + 1 \in S
  PROVE  \A k \in 0 .. n : k \in S
<1> DEFINE missing == {k \in 0 .. n : k \notin S}
<1> SUFFICES ASSUME missing # {} PROVE FALSE
  OBVIOUS
<1>1. PICK x \in missing : \A y \in missing : x <= y
  <2>1. missing \subseteq Nat
    OBVIOUS
  <2> HIDE DEF missing
  <2> QED
    BY <2>1, NatHasMin
<1>2. x \in 0 .. n /\ x # 0 /\ x \notin S
  OBVIOUS
<1>3. x - 1 \in 0 .. n /\ x - 1 \in S
  BY <1>1, <1>2
<1>4. x \in S
  BY <1>2, <1>3
<1> QED
  BY <1>2, <1>4

\* What a loop of n turns leaves after each: step takes the turn and what the
\* turns before it left.
IsLoop(g, n, A, base, step) ==
  /\ g \in [0 .. n -> A]
  /\ g[0] = base
  /\ \A k \in 1 .. n : g[k] = step[<<k, g[k - 1]>>]

\* Every loop leaves something after each turn.
LEMMA LoopTable ==
  ASSUME NEW n \in Nat, NEW A, NEW base \in A, NEW step \in [(1 .. n) \X A -> A]
  PROVE  \E g : IsLoop(g, n, A, base, step)
<1> DEFINE Upto(m, g) ==
             /\ g \in [0 .. m -> A] /\ g[0] = base
             /\ \A k \in 1 .. m : g[k] = step[<<k, g[k - 1]>>]
           good == {m \in Nat : \E g : Upto(m, g)}
<1>1. 0 \in good
  <2> DEFINE g == [k \in 0 .. 0 |-> base]
  <2>1. Upto(0, g)
    OBVIOUS
  <2> HIDE DEF Upto, g
  <2>2. \E h : Upto(0, h)
    BY <2>1
  <2> QED
    BY <2>2
<1>2. ASSUME NEW m \in 0 .. n, m \in good, m < n PROVE m + 1 \in good
  <2>1. PICK g : Upto(m, g)
    BY <1>2
  <2> DEFINE h == [k \in 0 .. m + 1 |-> IF k = m + 1 THEN step[<<m + 1, g[m]>>] ELSE g[k]]
  <2>2. g[m] \in A /\ m + 1 \in 1 .. n /\ m \in Nat
    BY <1>2, <2>1
  <2>3. step[<<m + 1, g[m]>>] \in A
    BY <2>2
  <2>4. \A k \in 0 .. m : h[k] = g[k] /\ g[k] \in A
    BY <2>1, <2>2
  <2>5. h[m + 1] = step[<<m + 1, g[m]>>]
    BY <2>2
  <2>6. h \in [0 .. m + 1 -> A]
    <3>1. \A k \in 0 .. m + 1 : h[k] \in A
      <4> SUFFICES ASSUME NEW k \in 0 .. m + 1 PROVE h[k] \in A
        OBVIOUS
      <4>1. k \in 0 .. m \/ k = m + 1
        BY <2>2
      <4> HIDE DEF h, Upto
      <4> QED
        BY <2>3, <2>4, <2>5, <4>1
    <3> QED
      BY <3>1
  <2>7. \A k \in 1 .. m + 1 : h[k] = step[<<k, h[k - 1]>>]
    <3> SUFFICES ASSUME NEW k \in 1 .. m + 1 PROVE h[k] = step[<<k, h[k - 1]>>]
      OBVIOUS
    <3>1. CASE k = m + 1
      <4>1. k - 1 = m /\ m \in 0 .. m
        BY <2>2, <3>1
      <4>2. h[k - 1] = g[m]
        BY <2>4, <4>1
      <4> HIDE DEF h, Upto
      <4> QED
        BY <2>5, <3>1, <4>2
    <3>2. CASE k # m + 1
      <4>1. k \in 1 .. m /\ k \in 0 .. m /\ k - 1 \in 0 .. m
        BY <2>2, <3>2
      <4>2. g[k] = step[<<k, g[k - 1]>>]
        BY <2>1, <4>1
      <4>3. h[k] = g[k] /\ h[k - 1] = g[k - 1]
        BY <2>4, <4>1
      <4> HIDE DEF h, Upto
      <4> QED
        BY <4>2, <4>3
    <3> QED
      BY <3>1, <3>2
  <2>8. h[0] = base
    <3>1. 0 \in 0 .. m /\ g[0] = base
      BY <2>1, <2>2
    <3> HIDE DEF h
    <3> QED
      BY <2>4, <3>1
  <2>9. Upto(m + 1, h)
    <3> HIDE DEF h
    <3> QED
      BY <2>6, <2>7, <2>8
  <2>10. m + 1 \in Nat /\ \E f : Upto(m + 1, f)
    <3> HIDE DEF h, Upto
    <3> QED
      BY <2>2, <2>9
  <2> HIDE DEF Upto, h
  <2> QED
    BY <2>10
<1> HIDE DEF good
<1>3. n \in good
  <2>1. \A k \in 0 .. n : k \in good
    BY <1>1, <1>2, UpTo
  <2> QED
    BY <2>1
<1> QED
  BY <1>3 DEF good, IsLoop

\* The last bracket is 2 wide, and each turn halves it.
IsWidths(width) ==
  /\ width \in [0 .. Iters -> Nat]
  /\ width[0] = 2
  /\ \A k \in 1 .. Iters : width[k] = 2 * width[k - 1]

\* The horizon is the width before all the turns.
LEMMA Widths == \E width : IsWidths(width) /\ Horizon = width[Iters]
<1> DEFINE Rec(t) == t = [k \in 0 .. Iters |-> IF k = 0 THEN 2 ELSE 2 * t[k - 1]]
           table == CHOOSE t : Rec(t)
           step == [e \in (1 .. Iters) \X Nat |-> 2 * e[2]]
<1>1. Iters \in Nat
  BY PrudentAssumption
<1>2. PICK g : IsLoop(g, Iters, Nat, 2, step)
  <2>1. step \in [(1 .. Iters) \X Nat -> Nat]
    OBVIOUS
  <2> HIDE DEF step
  <2> QED
    BY <1>1, <2>1, LoopTable
<1>3. Rec(g)
  <2>1. g \in [0 .. Iters -> Nat] /\ g[0] = 2
    BY <1>2 DEF IsLoop
  <2>2. ASSUME NEW k \in 1 .. Iters PROVE g[k] = 2 * g[k - 1]
    <3>1. k - 1 \in 0 .. Iters /\ g[k - 1] \in Nat
      BY <1>1, <2>1
    <3>2. g[k] = step[<<k, g[k - 1]>>]
      BY <1>2 DEF IsLoop
    <3> QED
      BY <3>1, <3>2
  <2>3. \A k \in 0 .. Iters : g[k] = IF k = 0 THEN 2 ELSE 2 * g[k - 1]
    <3> SUFFICES ASSUME NEW k \in 0 .. Iters PROVE g[k] = IF k = 0 THEN 2 ELSE 2 * g[k - 1]
      OBVIOUS
    <3>1. k = 0 \/ k \in 1 .. Iters
      BY <1>1
    <3> QED
      BY <2>1, <2>2, <3>1
  <2>4. g = [k \in 0 .. Iters |-> g[k]]
    BY <2>1
  <2> QED
    BY <2>3, <2>4
<1> HIDE DEF Rec
<1>4. Rec(table)
  BY <1>3
<1> HIDE DEF table
<1>5. /\ table = [k \in 0 .. Iters |-> IF k = 0 THEN 2 ELSE 2 * table[k - 1]]
  BY <1>4 DEF Rec
<1>6. table[0] = 2 /\ \A k \in 1 .. Iters : table[k] = 2 * table[k - 1]
  BY <1>1, <1>5
<1>7. \A k \in 0 .. Iters : table[k] \in Nat
  <2> DEFINE S == {k \in 0 .. Iters : table[k] \in Nat}
  <2>1. 0 \in S
    BY <1>1, <1>6
  <2>2. \A k \in 0 .. Iters : k \in S /\ k < Iters => k + 1 \in S
    <3> SUFFICES ASSUME NEW k \in 0 .. Iters, table[k] \in Nat, k < Iters
                 PROVE  k + 1 \in 0 .. Iters /\ table[k + 1] \in Nat
      OBVIOUS
    <3>1. k + 1 \in 1 .. Iters /\ (k + 1) - 1 = k
      BY <1>1
    <3>2. table[k + 1] = 2 * table[k]
      BY <1>6, <3>1
    <3> QED
      BY <3>1, <3>2
  <2> HIDE DEF S
  <2>3. \A k \in 0 .. Iters : k \in S
    BY <1>1, <2>1, <2>2, UpTo
  <2> QED
    BY <2>3 DEF S
<1>8. table \in [0 .. Iters -> Nat]
  BY <1>5, <1>7
<1>9. Horizon = table[Iters]
  BY DEF Horizon, table, Rec
<1> QED
  BY <1>6, <1>8, <1>9 DEF IsWidths

-----------------------------------------------------------------------------
(* The buy mass.                                                           *)

\* The distributions of one draw
IsDraw(sys, cdf) == Valid(sys) /\ cdf \in [0 .. sys.n - 1 -> CDFs]

\* What the transition to state j adds to the mass
Part(sys, cdf, x, j) ==
  IF step_a(sys, j - 1) > 0 THEN step_b(sys, j - 1) * cdf[j - 1][x] ELSE 0

\* The mass of the transitions up to each state
IsMass(tot, sys, cdf, x) ==
  /\ tot \in [0 .. sys.n -> Nat]
  /\ tot[0] = 0
  /\ \A j \in 1 .. sys.n : tot[j] = tot[j - 1] + Part(sys, cdf, x, j)

\* A transition adds no more than Grain units of its price, and nothing if it
\* saves no rent.
LEMMA PartBounds ==
  ASSUME NEW sys, NEW cdf, IsDraw(sys, cdf), NEW x \in 0 .. Horizon, NEW j \in 1 .. sys.n
  PROVE  /\ Part(sys, cdf, x, j) \in Nat /\ step_b(sys, j - 1) \in Nat
         /\ step_a(sys, j - 1) \in Nat
         /\ Part(sys, cdf, x, j) <= Grain * step_b(sys, j - 1)
         /\ step_a(sys, j - 1) = 0 => Part(sys, cdf, x, j) = 0
<1>1. /\ sys.n \in Nat /\ j - 1 \in 0 .. sys.n /\ (j - 1) + 1 = j /\ j \in 0 .. sys.n
      /\ j - 1 \in 0 .. sys.n - 1
  BY DEF IsDraw, Valid
<1>2. step_a(sys, j - 1) \in Nat /\ step_b(sys, j - 1) \in Nat
  <2>1. (j - 1) + 1 \in 0 .. sys.n
    BY <1>1
  <2> DEFINE k == j - 1
  <2>2. /\ sys.alpha[k] \in Nat /\ sys.alpha[k + 1] \in Nat
        /\ sys.beta[k] \in Nat /\ sys.beta[k + 1] \in Nat
        /\ sys.alpha[k + 1] <= sys.alpha[k] /\ sys.beta[k] <= sys.beta[k + 1]
    <3>1. k \in 0 .. sys.n /\ k + 1 \in 0 .. sys.n
      BY <1>1, <2>1
    <3> HIDE DEF k
    <3> QED
      BY <3>1, NeighbourStates DEF IsDraw
  <2> HIDE DEF k
  <2>3. step_a(sys, k) \in Nat /\ step_b(sys, k) \in Nat
    BY <2>2 DEF step_a, step_b
  <2> QED
    BY <2>3 DEF k
<1>3. cdf[j - 1][x] \in Nat /\ cdf[j - 1][x] <= Grain /\ Grain \in Nat
  <2>1. cdf[j - 1] \in [0 .. Horizon -> 0 .. Grain] /\ Grain \in Nat
    BY <1>1, PrudentAssumption DEF IsDraw
  <2>2. cdf[j - 1][x] \in 0 .. Grain
    BY <2>1
  <2> QED
    BY <2>1, <2>2
<1>4. ASSUME NEW a \in Nat, NEW b \in Nat, NEW c \in Nat, b <= c
      PROVE  a * b \in Nat /\ a * b <= c * a /\ c * a \in Nat
  <2>1. PICK d \in Nat : c = b + d
    <3>1. c - b \in Nat /\ c = b + (c - b)
      BY <1>4
    <3> QED
      BY <3>1
  <2>2. a * d \in Nat /\ a * b \in Nat
    OBVIOUS
  <2>3. c * a = a * b + a * d
    BY <2>1
  <2> QED
    BY <2>2, <2>3
<1> DEFINE s == step_b(sys, j - 1)
           f == cdf[j - 1][x]
<1>5. s * f \in Nat /\ s * f <= Grain * s /\ Grain * s \in Nat
  <2>1. s \in Nat /\ f \in Nat /\ f <= Grain /\ Grain \in Nat
    BY <1>2, <1>3
  <2> HIDE DEF s, f
  <2> QED
    BY <2>1, <1>4
<1>6. Part(sys, cdf, x, j) = IF step_a(sys, j - 1) > 0 THEN s * f ELSE 0
  BY DEF Part
<1> HIDE DEF f
<1> QED
  BY <1>2, <1>5, <1>6

\* The mass by a time is the last entry of its table.
LEMMA MassOf ==
  ASSUME NEW sys, NEW cdf, IsDraw(sys, cdf), NEW x \in 0 .. Horizon
  PROVE  \E tot : IsMass(tot, sys, cdf, x) /\ bp(sys, cdf, x) = tot[sys.n]
<1> DEFINE n == sys.n
           Rec(t) == t = [j \in 0 .. sys.n |->
                            IF j = 0 THEN 0
                            ELSE t[j - 1] + (IF step_a(sys, j - 1) > 0
                                             THEN step_b(sys, j - 1) * cdf[j - 1][x] ELSE 0)]
           table == CHOOSE t : Rec(t)
           Adds(t) == t = [j \in 0 .. n |->
                             IF j = 0 THEN 0 ELSE t[j - 1] + Part(sys, cdf, x, j)]
           step == [e \in (1 .. n) \X Nat |-> e[2] + Part(sys, cdf, x, e[1])]
<1>0. bp(sys, cdf, x) = table[n]
  BY DEF bp
<1>1. n \in Nat /\ \A j \in 1 .. n : Part(sys, cdf, x, j) \in Nat
  BY PartBounds DEF IsDraw, Valid
<1>2. ASSUME NEW t PROVE Rec(t) <=> Adds(t)
  BY DEF Part
<1> HIDE DEF n, Rec
<1>3. PICK g : IsLoop(g, n, Nat, 0, step)
  <2>1. step \in [(1 .. n) \X Nat -> Nat]
    BY <1>1
  <2> HIDE DEF step
  <2> QED
    BY <1>1, <2>1, LoopTable
<1>4. Adds(g)
  <2>1. g \in [0 .. n -> Nat] /\ g[0] = 0
    BY <1>3 DEF IsLoop
  <2>2. ASSUME NEW j \in 1 .. n PROVE g[j] = g[j - 1] + Part(sys, cdf, x, j)
    <3>1. j - 1 \in 0 .. n /\ g[j - 1] \in Nat
      BY <1>1, <2>1
    <3>2. g[j] = step[<<j, g[j - 1]>>]
      BY <1>3 DEF IsLoop
    <3> QED
      BY <3>1, <3>2
  <2>3. \A j \in 0 .. n : g[j] = IF j = 0 THEN 0 ELSE g[j - 1] + Part(sys, cdf, x, j)
    <3> SUFFICES ASSUME NEW j \in 0 .. n
                 PROVE  g[j] = IF j = 0 THEN 0 ELSE g[j - 1] + Part(sys, cdf, x, j)
      OBVIOUS
    <3>1. j = 0 \/ j \in 1 .. n
      BY <1>1
    <3> QED
      BY <2>1, <2>2, <3>1
  <2>4. g = [j \in 0 .. n |-> g[j]]
    BY <2>1
  <2> QED
    BY <2>3, <2>4
<1> HIDE DEF Adds
<1>5. Rec(table)
  <2>1. Rec(g)
    BY <1>2, <1>4
  <2> QED
    BY <2>1
<1> HIDE DEF table
<1>6. Adds(table)
  BY <1>2, <1>5
<1>7. table = [j \in 0 .. n |-> IF j = 0 THEN 0 ELSE table[j - 1] + Part(sys, cdf, x, j)]
  BY <1>6 DEF Adds
<1>8. table[0] = 0 /\ \A j \in 1 .. n : table[j] = table[j - 1] + Part(sys, cdf, x, j)
  BY <1>1, <1>7
<1>9. \A j \in 0 .. n : table[j] \in Nat
  <2> DEFINE S == {j \in 0 .. n : table[j] \in Nat}
  <2>1. 0 \in S
    BY <1>1, <1>8
  <2>2. \A j \in 0 .. n : j \in S /\ j < n => j + 1 \in S
    <3> SUFFICES ASSUME NEW j \in 0 .. n, table[j] \in Nat, j < n
                 PROVE  j + 1 \in 0 .. n /\ table[j + 1] \in Nat
      OBVIOUS
    <3>1. j + 1 \in 1 .. n /\ (j + 1) - 1 = j
      BY <1>1
    <3>2. table[j + 1] = table[j] + Part(sys, cdf, x, j + 1)
      BY <1>8, <3>1
    <3> QED
      BY <1>1, <3>1, <3>2
  <2> HIDE DEF S
  <2>3. \A j \in 0 .. n : j \in S
    BY <1>1, <2>1, <2>2, UpTo
  <2> QED
    BY <2>3 DEF S
<1>10. table \in [0 .. n -> Nat]
  BY <1>7, <1>9
<1>11. IsMass(table, sys, cdf, x)
  BY <1>8, <1>10 DEF IsMass, n
<1> QED
  BY <1>0, <1>11 DEF n

\* By any time no more has been bought up to a state than its price.
LEMMA MassBounded ==
  ASSUME NEW sys, NEW cdf, IsDraw(sys, cdf), NEW x \in 0 .. Horizon, NEW tot,
         IsMass(tot, sys, cdf, x)
  PROVE  \A j \in 0 .. sys.n : tot[j] <= Grain * sys.beta[j]
<1> DEFINE S == {j \in 0 .. sys.n : tot[j] <= Grain * sys.beta[j]}
<1>1. sys.n \in Nat /\ sys.beta \in [0 .. sys.n -> Nat] /\ sys.beta[0] = 0 /\ Grain \in Nat
  BY PrudentAssumption DEF IsDraw, Valid
<1>2. 0 \in S
  BY <1>1 DEF IsMass
<1>3. ASSUME NEW j \in 0 .. sys.n, j \in S, j < sys.n PROVE j + 1 \in S
  <2>1. j + 1 \in 1 .. sys.n /\ (j + 1) - 1 = j /\ j + 1 \in 0 .. sys.n
    BY <1>1, <1>3
  <2>2. tot[j + 1] = tot[j] + Part(sys, cdf, x, j + 1)
    BY <2>1 DEF IsMass
  <2>3. /\ Part(sys, cdf, x, j + 1) <= Grain * step_b(sys, j)
        /\ Part(sys, cdf, x, j + 1) \in Nat
    BY <2>1, PartBounds
  <2>4. step_b(sys, j) = sys.beta[j + 1] - sys.beta[j]
    BY DEF step_b
  <2> DEFINE a == sys.beta[j]
             c == sys.beta[j + 1]
  <2>5. a \in Nat /\ c \in Nat /\ tot[j] \in Nat
    BY <1>1, <2>1 DEF IsMass
  <2> HIDE DEF a, c
  <2>6. Grain * (c - a) = Grain * c - Grain * a /\ Grain * c \in Nat /\ Grain * a \in Nat
    BY <1>1, <2>5
  <2>7. tot[j] <= Grain * a
    BY <1>3 DEF a
  <2>8. tot[j + 1] <= Grain * c
    BY <2>2, <2>3, <2>4, <2>5, <2>6, <2>7 DEF a, c
  <2> QED
    BY <2>1, <2>8 DEF c
<1> HIDE DEF S
<1>4. \A j \in 0 .. sys.n : j \in S
  BY <1>1, <1>2, <1>3, UpTo
<1> QED
  BY <1>4 DEF S

\* Behind the last step that saves rent nothing is bought.
LEMMA MassStays ==
  ASSUME NEW sys, NEW cdf, IsDraw(sys, cdf), NEW x \in 0 .. Horizon, NEW tot,
         IsMass(tot, sys, cdf, x), NEW m \in 0 .. sys.n,
         \A j \in m .. sys.n - 1 : step_a(sys, j) = 0
  PROVE  tot[sys.n] = tot[m]
<1> DEFINE rest == sys.n - m
           S == {k \in 0 .. rest : tot[m + k] = tot[m]}
<1>1. sys.n \in Nat /\ rest \in Nat /\ m \in Nat
  BY DEF IsDraw, Valid
<1>2. 0 \in S
  BY <1>1
<1>3. ASSUME NEW k \in 0 .. rest, k \in S, k < rest PROVE k + 1 \in S
  <2>1. /\ m + (k + 1) \in 1 .. sys.n /\ (m + (k + 1)) - 1 = m + k /\ k + 1 \in 0 .. rest
        /\ m + k \in m .. sys.n - 1 /\ m + k \in 0 .. sys.n
    BY <1>1, <1>3
  <2>2. tot[m + (k + 1)] = tot[m + k] + Part(sys, cdf, x, m + (k + 1))
    BY <2>1 DEF IsMass
  <2>3. Part(sys, cdf, x, m + (k + 1)) = 0
    <3>1. step_a(sys, m + k) = 0
      BY <2>1
    <3> QED
      BY <2>1, <3>1, PartBounds
  <2>4. tot[m + k] \in Nat
    BY <2>1 DEF IsMass
  <2>5. tot[m + k] = tot[m]
    BY <1>3
  <2>6. tot[m + (k + 1)] = tot[m]
    BY <2>2, <2>3, <2>4, <2>5
  <2> QED
    BY <2>1, <2>6
<1> HIDE DEF S
<1>4. rest \in S
  <2>1. \A k \in 0 .. rest : k \in S
    <3> HIDE DEF rest
    <3> QED
      BY <1>1, <1>2, <1>3, UpTo
  <2> QED
    BY <1>1, <2>1
<1>5. m + rest = sys.n
  BY <1>1
<1> HIDE DEF rest
<1> QED
  BY <1>4, <1>5 DEF S

\* The mass is a natural number.
LEMMA MassNat ==
  ASSUME NEW sys, NEW cdf, IsDraw(sys, cdf), NEW x \in 0 .. Horizon
  PROVE  bp(sys, cdf, x) \in Nat
<1>1. PICK tot : IsMass(tot, sys, cdf, x) /\ bp(sys, cdf, x) = tot[sys.n]
  BY MassOf
<1>2. sys.n \in 0 .. sys.n
  BY DEF IsDraw, Valid
<1> QED
  BY <1>1, <1>2 DEF IsMass

-----------------------------------------------------------------------------
(* The bisection.                                                          *)

\* lo and hi within the horizon
Brackets == {b \in (0 .. Horizon) \X (0 .. Horizon) : b[1] <= b[2]}

\* The brackets of a search, from the whole horizon on
IsSearch(g, sys, cdf, y) ==
  /\ g \in [0 .. Iters -> Brackets]
  /\ g[0] = <<0, Horizon>>
  /\ \A k \in 1 .. Iters : g[k] = Half(sys, cdf, y, g[k - 1])

\* The horizon and the number of turns are natural numbers.
LEMMA HorizonNat == Horizon \in Nat /\ Iters \in Nat
<1>1. Iters \in Nat
  BY PrudentAssumption
<1>2. PICK width : IsWidths(width) /\ Horizon = width[Iters]
  BY Widths
<1> QED
  BY <1>1, <1>2 DEF IsWidths

\* A half of a bracket is a bracket inside it.
LEMMA HalfInside ==
  ASSUME NEW sys, NEW cdf, NEW y, NEW b \in Brackets
  PROVE  /\ Mid(b) \in 0 .. Horizon /\ b[1] <= Mid(b) /\ Mid(b) <= b[2]
         /\ b[1] \in Nat /\ b[2] \in Nat
         /\ Half(sys, cdf, y, b) \in Brackets
         /\ b[1] <= Half(sys, cdf, y, b)[1] /\ Half(sys, cdf, y, b)[2] <= b[2]
<1>1. PICK lo \in 0 .. Horizon, hi \in 0 .. Horizon : b = <<lo, hi>> /\ lo <= hi
  BY DEF Brackets
<1>2. Mid(b) = (lo + hi) \div 2
  BY <1>1 DEF Mid
<1>3. Mid(b) \in 0 .. Horizon /\ lo <= Mid(b) /\ Mid(b) <= hi
  BY <1>1, <1>2, HorizonNat
<1>4. \/ Half(sys, cdf, y, b) = <<Mid(b), hi>>
      \/ Half(sys, cdf, y, b) = <<lo, Mid(b)>>
  BY <1>1 DEF Half
<1> QED
  BY <1>1, <1>3, <1>4 DEF Brackets

\* The last bracket is the last entry of the table of the search.
LEMMA SearchOf ==
  ASSUME NEW sys, NEW cdf, NEW y
  PROVE  \E g : IsSearch(g, sys, cdf, y) /\ Bracket(sys, cdf, y) = g[Iters]
<1> DEFINE Rec(t) == t = [k \in 0 .. Iters |->
                            IF k = 0 THEN <<0, Horizon>> ELSE Half(sys, cdf, y, t[k - 1])]
           table == CHOOSE t : Rec(t)
           step == [e \in (1 .. Iters) \X Brackets |-> Half(sys, cdf, y, e[2])]
<1>0. Bracket(sys, cdf, y) = table[Iters]
  BY DEF Bracket
<1>1. Iters \in Nat /\ Horizon \in Nat
  BY HorizonNat
<1>2. <<0, Horizon>> \in Brackets
  BY <1>1 DEF Brackets
<1>3. PICK g : IsLoop(g, Iters, Brackets, <<0, Horizon>>, step)
  <2>1. step \in [(1 .. Iters) \X Brackets -> Brackets]
    <3>1. \A e \in (1 .. Iters) \X Brackets : Half(sys, cdf, y, e[2]) \in Brackets
      BY HalfInside
    <3> QED
      BY <3>1
  <2> HIDE DEF step
  <2> QED
    BY <1>1, <1>2, <2>1, LoopTable
<1>4. Rec(g)
  <2>1. g \in [0 .. Iters -> Brackets] /\ g[0] = <<0, Horizon>>
    BY <1>3 DEF IsLoop
  <2>2. ASSUME NEW k \in 1 .. Iters PROVE g[k] = Half(sys, cdf, y, g[k - 1])
    <3>1. k - 1 \in 0 .. Iters /\ g[k - 1] \in Brackets
      BY <1>1, <2>1
    <3>2. g[k] = step[<<k, g[k - 1]>>]
      BY <1>3 DEF IsLoop
    <3> QED
      BY <3>1, <3>2
  <2>3. \A k \in 0 .. Iters :
          g[k] = IF k = 0 THEN <<0, Horizon>> ELSE Half(sys, cdf, y, g[k - 1])
    <3> SUFFICES ASSUME NEW k \in 0 .. Iters
                 PROVE  g[k] = IF k = 0 THEN <<0, Horizon>> ELSE Half(sys, cdf, y, g[k - 1])
      OBVIOUS
    <3>1. k = 0 \/ k \in 1 .. Iters
      BY <1>1
    <3> QED
      BY <2>1, <2>2, <3>1
  <2>4. g = [k \in 0 .. Iters |-> g[k]]
    BY <2>1
  <2> QED
    BY <2>3, <2>4
<1> HIDE DEF Rec
<1>5. Rec(table)
  BY <1>4
<1> HIDE DEF table
<1>6. table = [k \in 0 .. Iters |->
                 IF k = 0 THEN <<0, Horizon>> ELSE Half(sys, cdf, y, table[k - 1])]
  BY <1>5 DEF Rec
<1>7. table[0] = <<0, Horizon>> /\ \A k \in 1 .. Iters : table[k] = Half(sys, cdf, y, table[k - 1])
  <2>1. \A k \in 0 .. Iters :
          table[k] = IF k = 0 THEN <<0, Horizon>> ELSE Half(sys, cdf, y, table[k - 1])
    BY <1>6, Zenon
  <2>2. 0 \in 0 .. Iters /\ \A k \in 1 .. Iters : k \in 0 .. Iters /\ k # 0
    BY <1>1
  <2> QED
    BY <2>1, <2>2, Zenon
<1>8. \A k \in 0 .. Iters : table[k] \in Brackets
  <2> DEFINE S == {k \in 0 .. Iters : table[k] \in Brackets}
  <2>1. 0 \in S
    BY <1>1, <1>2, <1>7
  <2>2. \A k \in 0 .. Iters : k \in S /\ k < Iters => k + 1 \in S
    <3> SUFFICES ASSUME NEW k \in 0 .. Iters, table[k] \in Brackets, k < Iters
                 PROVE  k + 1 \in 0 .. Iters /\ table[k + 1] \in Brackets
      OBVIOUS
    <3>1. k + 1 \in 1 .. Iters /\ k + 1 \in 0 .. Iters /\ (k + 1) - 1 = k
      BY <1>1
    <3>2. table[k + 1] = Half(sys, cdf, y, table[k])
      BY <1>7, <3>1
    <3> QED
      BY <3>1, <3>2, HalfInside
  <2> HIDE DEF S
  <2>3. \A k \in 0 .. Iters : k \in S
    BY <1>1, <2>1, <2>2, UpTo
  <2> QED
    BY <2>3 DEF S
<1>9. table \in [0 .. Iters -> Brackets]
  BY <1>6, <1>8
<1>10. IsSearch(table, sys, cdf, y)
  BY <1>7, <1>9 DEF IsSearch
<1> QED
  BY <1>0, <1>10

\* The last bracket is 2 wide; the mass is short of y at its lower end and has
\* reached it at the upper one, unless these are the ends of the search.
LEMMA BracketFinds ==
  ASSUME NEW sys, NEW cdf, IsDraw(sys, cdf), NEW y \in Nat
  PROVE  LET b == Bracket(sys, cdf, y)
         IN /\ b \in Brackets /\ b[2] = b[1] + 2
            /\ b[1] = 0 \/ bp(sys, cdf, b[1]) < y
            /\ b[2] = Horizon \/ bp(sys, cdf, b[2]) >= y
<1>1. PICK g : IsSearch(g, sys, cdf, y) /\ Bracket(sys, cdf, y) = g[Iters]
  BY SearchOf
<1>2. PICK width : IsWidths(width) /\ Horizon = width[Iters]
  BY Widths
<1>3. Iters \in Nat /\ Horizon \in Nat
  BY HorizonNat
<1> DEFINE Good(b, w) == /\ b[2] = b[1] + w
                         /\ b[1] = 0 \/ bp(sys, cdf, b[1]) < y
                         /\ b[2] = Horizon \/ bp(sys, cdf, b[2]) >= y
           S == {k \in 0 .. Iters : Good(g[k], width[Iters - k])}
<1>4. 0 \in S
  <2>1. g[0] = <<0, Horizon>> /\ Iters - 0 = Iters
    BY <1>1, <1>3 DEF IsSearch
  <2>2. Good(<<0, Horizon>>, Horizon)
    BY <1>3
  <2> HIDE DEF Good
  <2> QED
    BY <1>2, <1>3, <2>1, <2>2
<1>5. ASSUME NEW k \in 0 .. Iters, k \in S, k < Iters PROVE k + 1 \in S
  <2>1. /\ k + 1 \in 1 .. Iters /\ (k + 1) - 1 = k /\ k + 1 \in 0 .. Iters
        /\ Iters - k \in 1 .. Iters /\ (Iters - k) - 1 = Iters - (k + 1)
        /\ Iters - (k + 1) \in 0 .. Iters
    BY <1>3, <1>5
  <2>2. g[k + 1] = Half(sys, cdf, y, g[k]) /\ g[k] \in Brackets
    BY <1>1, <2>1 DEF IsSearch
  <2> DEFINE w == width[Iters - (k + 1)]
  <2>3. width[Iters - k] = 2 * w /\ w \in Nat
    BY <1>2, <2>1 DEF IsWidths
  <2> HIDE DEF w
  <2>4. PICK lo \in 0 .. Horizon, hi \in 0 .. Horizon : g[k] = <<lo, hi>>
    BY <2>2 DEF Brackets
  <2>5. hi = lo + 2 * w /\ (lo = 0 \/ bp(sys, cdf, lo) < y) /\ (hi = Horizon \/ bp(sys, cdf, hi) >= y)
    BY <1>5, <2>3, <2>4
  <2>6. Mid(g[k]) = lo + w /\ lo + w \in 0 .. Horizon /\ hi = (lo + w) + w
    <3>1. Mid(g[k]) = (lo + hi) \div 2 /\ lo \in Nat /\ hi \in Nat
      BY <1>3, <2>4 DEF Mid
    <3>2. lo + hi = 2 * (lo + w) /\ lo + w <= hi
      BY <2>3, <2>5, <3>1
    <3> QED
      BY <1>3, <2>3, <2>5, <3>1, <3>2
  <2>7. bp(sys, cdf, lo + w) \in Nat
    BY <2>6, MassNat
  <2>8. CASE bp(sys, cdf, lo + w) < y
    <3>1. g[k + 1] = <<lo + w, hi>>
      BY <2>2, <2>4, <2>6, <2>8 DEF Half
    <3>2. Good(g[k + 1], w)
      BY <2>5, <2>6, <2>8, <3>1
    <3> HIDE DEF Good
    <3> QED
      BY <2>1, <3>2 DEF w
  <2>9. CASE ~(bp(sys, cdf, lo + w) < y)
    <3>1. g[k + 1] = <<lo, lo + w>>
      BY <2>2, <2>4, <2>6, <2>9 DEF Half
    <3>2. Good(g[k + 1], w)
      BY <2>5, <2>7, <2>9, <3>1
    <3> HIDE DEF Good
    <3> QED
      BY <2>1, <3>2 DEF w
  <2> QED
    BY <2>8, <2>9
<1> HIDE DEF S
<1>6. \A k \in 0 .. Iters : k \in S
  BY <1>3, <1>4, <1>5, UpTo
<1>7. Iters \in S /\ Iters - Iters = 0 /\ g[Iters] \in Brackets
  BY <1>1, <1>3, <1>6 DEF IsSearch
<1>8. Good(g[Iters], 2)
  <2> HIDE DEF Good
  <2> QED
    BY <1>2, <1>7 DEF IsWidths, S
<1> QED
  BY <1>1, <1>7, <1>8

\* The greater mass is found no earlier: the two searches agree, turn by turn, until
\* one of them goes to the later half.
LEMMA LaterBracket ==
  ASSUME NEW sys, NEW cdf, IsDraw(sys, cdf), NEW y \in Nat, NEW z \in Nat, y <= z
  PROVE  Mid(Bracket(sys, cdf, y)) <= Mid(Bracket(sys, cdf, z))
<1>1. PICK g : IsSearch(g, sys, cdf, y) /\ Bracket(sys, cdf, y) = g[Iters]
  BY SearchOf
<1>2. PICK h : IsSearch(h, sys, cdf, z) /\ Bracket(sys, cdf, z) = h[Iters]
  BY SearchOf
<1>3. Iters \in Nat
  BY HorizonNat
<1> DEFINE S == {k \in 0 .. Iters : g[k] = h[k] \/ g[k][2] <= h[k][1]}
<1>4. 0 \in S
  BY <1>1, <1>2, <1>3 DEF IsSearch
<1>5. ASSUME NEW k \in 0 .. Iters, k \in S, k < Iters PROVE k + 1 \in S
  <2>1. k + 1 \in 1 .. Iters /\ (k + 1) - 1 = k /\ k + 1 \in 0 .. Iters
    BY <1>3, <1>5
  <2>2. /\ g[k + 1] = Half(sys, cdf, y, g[k]) /\ g[k] \in Brackets
        /\ h[k + 1] = Half(sys, cdf, z, h[k]) /\ h[k] \in Brackets
        /\ g[k + 1] \in Brackets /\ h[k + 1] \in Brackets
    BY <1>1, <1>2, <2>1 DEF IsSearch
  <2>3. CASE g[k] = h[k]
    <3> DEFINE m == Mid(g[k])
    <3>1. m \in 0 .. Horizon /\ m \in Nat
      BY <2>2, HalfInside, HorizonNat
    <3>2. bp(sys, cdf, m) \in Nat
      BY <3>1, MassNat
    <3>3. /\ g[k + 1] = IF bp(sys, cdf, m) < y THEN <<m, g[k][2]>> ELSE <<g[k][1], m>>
          /\ h[k + 1] = IF bp(sys, cdf, m) < z THEN <<m, g[k][2]>> ELSE <<g[k][1], m>>
      BY <2>2, <2>3 DEF Half
    <3> HIDE DEF m
    <3>4. g[k + 1] = h[k + 1] \/ g[k + 1][2] <= h[k + 1][1]
      BY <3>1, <3>2, <3>3
    <3> QED
      BY <2>1, <3>4
  <2>4. CASE g[k][2] <= h[k][1]
    <3>1. g[k + 1][2] <= g[k][2] /\ h[k][1] <= h[k + 1][1]
      BY <2>2, HalfInside
    <3>2. /\ g[k + 1][2] \in Nat /\ g[k][2] \in Nat
          /\ h[k + 1][1] \in Nat /\ h[k][1] \in Nat
      BY <2>2, HalfInside
    <3>3. g[k + 1][2] <= h[k + 1][1]
      BY <2>4, <3>1, <3>2
    <3> QED
      BY <2>1, <3>3
  <2> QED
    BY <1>5, <2>3, <2>4
<1> HIDE DEF S
<1>6. Iters \in S
  <2>1. \A k \in 0 .. Iters : k \in S
    BY <1>3, <1>4, <1>5, UpTo
  <2> QED
    BY <1>3, <2>1
<1>7. g[Iters] \in Brackets /\ h[Iters] \in Brackets
  BY <1>1, <1>2, <1>3 DEF IsSearch
<1>8. /\ Mid(g[Iters]) <= g[Iters][2] /\ h[Iters][1] <= Mid(h[Iters])
      /\ Mid(g[Iters]) \in Nat /\ Mid(h[Iters]) \in Nat
      /\ g[Iters][2] \in Nat /\ h[Iters][1] \in Nat
  BY <1>7, HalfInside, HorizonNat
<1>9. g[Iters] = h[Iters] \/ g[Iters][2] <= h[Iters][1]
  BY <1>6 DEF S
<1> QED
  BY <1>1, <1>2, <1>8, <1>9

-----------------------------------------------------------------------------
(* The switch times of a draw.                                             *)

\* One draw: the distributions and a number for each deeper state
IsDrawn(sys, p, cdf) == IsDraw(sys, cdf) /\ p \in [1 .. sys.n -> 0 .. Grain - 1]

\* The targets lie between the prices of the neighbouring states, and so in order.
LEMMA TargetsInOrder ==
  ASSUME NEW sys, NEW p, NEW cdf, IsDrawn(sys, p, cdf), NEW k \in 1 .. sys.n
  PROVE  /\ Target(sys, p, k) \in Nat /\ p[k] \in Nat /\ step_b(sys, k - 1) \in Nat
         /\ Grain * sys.beta[k - 1] \in Nat /\ Grain * sys.beta[k] \in Nat
         /\ p[k] * step_b(sys, k - 1) \in Nat
         /\ Grain * sys.beta[k - 1] <= Target(sys, p, k)
         /\ Target(sys, p, k) <= Grain * sys.beta[k]
         /\ Grain * sys.beta[k] = Grain * sys.beta[k - 1] + Grain * step_b(sys, k - 1)
<1>1. /\ sys.n \in Nat /\ k - 1 \in 0 .. sys.n /\ k \in 0 .. sys.n /\ (k - 1) + 1 = k
      /\ k - 1 <= k
  BY DEF IsDrawn, IsDraw, Valid
<1> DEFINE a == sys.beta[k - 1]
           c == sys.beta[k]
           s == step_b(sys, k - 1)
<1>2. a \in Nat /\ c \in Nat /\ a <= c /\ s = c - a
  <2>1. a \in Nat /\ c \in Nat
    BY <1>1 DEF IsDrawn, IsDraw, Valid
  <2>2. a <= c
    BY <1>1 DEF IsDrawn, IsDraw, Valid
  <2>3. s = c - a
    BY <1>1 DEF step_b
  <2> QED
    BY <2>1, <2>2, <2>3
<1>3. p[k] \in Nat /\ p[k] <= Grain /\ Grain \in Nat
  <2>1. p[k] \in 0 .. Grain - 1 /\ Grain \in Nat
    BY PrudentAssumption DEF IsDrawn
  <2> QED
    BY <2>1
<1>4. Target(sys, p, k) = Grain * a + p[k] * s
  BY DEF Target
<1> DEFINE q == p[k]
<1>5. q \in Nat /\ q <= Grain
  BY <1>3
<1> HIDE DEF a, c, s, q
<1>6. s \in Nat /\ c = a + s
  BY <1>2
<1>7. PICK d \in Nat : Grain = q + d
  <2>1. Grain - q \in Nat /\ Grain = q + (Grain - q)
    BY <1>3, <1>5
  <2> QED
    BY <2>1
<1>8. /\ Grain * a \in Nat /\ Grain * c \in Nat /\ q * s \in Nat /\ d * s \in Nat
      /\ Grain * s \in Nat
  BY <1>2, <1>3, <1>5, <1>6, <1>7
<1>9. Grain * c = Grain * a + Grain * s
  BY <1>2, <1>3, <1>6
<1>10. Grain * s = q * s + d * s
  BY <1>5, <1>6, <1>7
<1>11. /\ Grain * a + q * s \in Nat /\ Grain * a <= Grain * a + q * s
       /\ Grain * a + q * s <= Grain * c
  BY <1>8, <1>9, <1>10
<1> QED
  BY <1>3, <1>4, <1>6, <1>8, <1>9, <1>11 DEF a, c, s, q

\* A nonempty set of numbers up to n has a largest element.
LEMMA MaxUpTo ==
  ASSUME NEW n \in Nat, NEW S, S \subseteq 0 .. n, S # {}
  PROVE  Max(S) \in S
<1> DEFINE low == {n - x : x \in S}
<1>1. PICK y \in low : \A z \in low : y <= z
  <2>1. \A x \in S : n - x \in Nat
    OBVIOUS
  <2>2. low \subseteq Nat /\ low # {}
    BY <2>1
  <2> HIDE DEF low
  <2> QED
    BY <2>2, NatHasMin
<1>2. PICK m \in S : y = n - m
  OBVIOUS
<1>3. \A x \in S : m >= x
  <2> SUFFICES ASSUME NEW x \in S PROVE m >= x
    OBVIOUS
  <2>1. n - x \in low
    OBVIOUS
  <2>2. n - m <= n - x
    BY <1>1, <1>2, <2>1
  <2>3. m \in Nat /\ x \in Nat
    OBVIOUS
  <2> QED
    BY <2>2, <2>3
<1> QED
  BY <1>3 DEF Max

\* The loop makes the switches at which it does not end.
LEMMA SwitchesMade ==
  ASSUME NEW sys, NEW w, NEW p, NEW cdf, sys.n \in Nat
  PROVE  \E m \in 0 .. sys.n :
           /\ _prudent_switches(sys, w, p, cdf) = [k \in 1 .. m |-> SwitchTime(sys, p, cdf, k)]
           /\ \A k \in 1 .. m : ~Ends(sys, w, p, cdf, k)
<1> DEFINE S == {m \in 0 .. sys.n : \A k \in 1 .. m : ~Ends(sys, w, p, cdf, k)}
<1>1. 0 \in S
  OBVIOUS
<1>2. S \subseteq 0 .. sys.n /\ S # {}
  BY <1>1
<1>3. Max(S) \in S
  <2> HIDE DEF S
  <2> QED
    BY <1>2, MaxUpTo
<1>4. _prudent_switches(sys, w, p, cdf) = [k \in 1 .. Max(S) |-> SwitchTime(sys, p, cdf, k)]
  BY DEF _prudent_switches
<1> QED
  BY <1>3, <1>4

\* A switch that is searched for lies in the middle of the last bracket.
LEMMA SwitchInMiddle ==
  ASSUME NEW sys, NEW p, NEW cdf, IsDrawn(sys, p, cdf), NEW k \in 1 .. sys.n,
         ~BoughtAtOnce(sys, cdf, k)
  PROVE  LET b == Bracket(sys, cdf, Target(sys, p, k))
             t == SwitchTime(sys, p, cdf, k)
         IN /\ t \in 0 .. Horizon - 1
            /\ t - 1 = b[1] /\ t + 1 = b[2]
            /\ t - 1 \in 0 .. Horizon /\ t + 1 \in 0 .. Horizon
<1> DEFINE b == Bracket(sys, cdf, Target(sys, p, k))
<1>1. b \in Brackets /\ b[2] = b[1] + 2
  BY TargetsInOrder, BracketFinds DEF IsDrawn
<1>2. SwitchTime(sys, p, cdf, k) = (b[1] + b[2]) \div 2
  <2>1. SwitchTime(sys, p, cdf, k) = _inverse(sys, cdf, Target(sys, p, k))
    BY DEF SwitchTime
  <2>2. _inverse(sys, cdf, Target(sys, p, k)) = Mid(b)
    BY DEF _inverse
  <2> HIDE DEF b
  <2> QED
    BY <2>1, <2>2 DEF Mid
<1> HIDE DEF b
<1>3. b[1] \in 0 .. Horizon /\ b[2] \in 0 .. Horizon /\ Horizon \in Nat
  <2>1. b \in (0 .. Horizon) \X (0 .. Horizon)
    BY <1>1 DEF Brackets
  <2> QED
    BY <2>1, HorizonNat
<1>4. (b[1] + b[2]) \div 2 = b[1] + 1
  BY <1>1, <1>3
<1> QED
  BY <1>1, <1>2, <1>3, <1>4 DEF b

\* The switch times are in order, although each is searched on its own.
LEMMA SwitchesInOrder ==
  ASSUME NEW sys, NEW p, NEW cdf, IsDrawn(sys, p, cdf), NEW k \in 1 .. sys.n - 1
  PROVE  SwitchTime(sys, p, cdf, k) <= SwitchTime(sys, p, cdf, k + 1)
<1>1. sys.n \in Nat /\ k \in 1 .. sys.n /\ k + 1 \in 1 .. sys.n /\ (k + 1) - 1 = k
  BY DEF IsDrawn, IsDraw, Valid
<1>2. CASE BoughtAtOnce(sys, cdf, k)
  <2>1. SwitchTime(sys, p, cdf, k) = 0
    BY <1>2 DEF SwitchTime
  <2>2. SwitchTime(sys, p, cdf, k + 1) \in Nat
    <3>1. CASE BoughtAtOnce(sys, cdf, k + 1)
      BY <3>1 DEF SwitchTime
    <3>2. CASE ~BoughtAtOnce(sys, cdf, k + 1)
      <4>1. SwitchTime(sys, p, cdf, k + 1) \in 0 .. Horizon - 1
        BY <1>1, <3>2, SwitchInMiddle
      <4> QED
        BY <4>1, HorizonNat
    <3> QED
      BY <3>1, <3>2
  <2> QED
    BY <2>1, <2>2
<1>3. CASE ~BoughtAtOnce(sys, cdf, k)
  <2>1. /\ Grain * sys.beta[k] \in Nat /\ Grain * sys.beta[k + 1] \in Nat
        /\ Target(sys, p, k) \in Nat /\ Target(sys, p, k + 1) \in Nat
        /\ Target(sys, p, k) <= Grain * sys.beta[k]
        /\ Grain * sys.beta[k] <= Target(sys, p, k + 1)
        /\ Target(sys, p, k + 1) <= Grain * sys.beta[k + 1]
    BY <1>1, TargetsInOrder
  <2>2. 0 \in 0 .. Horizon /\ bp(sys, cdf, 0) \in Nat
    BY HorizonNat, MassNat DEF IsDrawn
  <2>3. ~BoughtAtOnce(sys, cdf, k + 1)
    BY <1>3, <2>1, <2>2 DEF BoughtAtOnce
  <2>4. Target(sys, p, k) <= Target(sys, p, k + 1)
    BY <2>1
  <2>5. _inverse(sys, cdf, Target(sys, p, k)) <= _inverse(sys, cdf, Target(sys, p, k + 1))
    <3> DEFINE y == Target(sys, p, k)
               z == Target(sys, p, k + 1)
    <3>1. IsDraw(sys, cdf)
      BY DEF IsDrawn
    <3> HIDE DEF y, z
    <3>2. y \in Nat /\ z \in Nat /\ y <= z
      BY <2>1, <2>4 DEF y, z
    <3>3. Mid(Bracket(sys, cdf, y)) <= Mid(Bracket(sys, cdf, z))
      BY <3>1, <3>2, LaterBracket
    <3>4. _inverse(sys, cdf, y) <= _inverse(sys, cdf, z)
      BY <3>3 DEF _inverse
    <3> QED
      BY <3>4 DEF y, z
  <2>6. /\ SwitchTime(sys, p, cdf, k) = _inverse(sys, cdf, Target(sys, p, k))
        /\ SwitchTime(sys, p, cdf, k + 1) = _inverse(sys, cdf, Target(sys, p, k + 1))
    BY <1>3, <2>3 DEF SwitchTime
  <2> QED
    BY <2>5, <2>6
<1> QED
  BY <1>2, <1>3

\* What _prudent_switches returns is a schedule.
LEMMA PrudentSchedule ==
  ASSUME NEW sys, NEW w, NEW p, NEW cdf, IsDrawn(sys, p, cdf)
  PROVE  _prudent_switches(sys, w, p, cdf) \in Schedules(sys)
<1>1. sys.n \in Nat
  BY DEF IsDrawn, IsDraw, Valid
<1>2. PICK m \in 0 .. sys.n :
        _prudent_switches(sys, w, p, cdf) = [k \in 1 .. m |-> SwitchTime(sys, p, cdf, k)]
  BY <1>1, SwitchesMade
<1> DEFINE s == [k \in 1 .. m |-> SwitchTime(sys, p, cdf, k)]
<1>3. m \in Nat /\ \A k \in 1 .. m : k \in 1 .. sys.n
  BY <1>1
<1>4. ASSUME NEW k \in 1 .. m PROVE SwitchTime(sys, p, cdf, k) \in 0 .. MaxSwitch
  <2>1. Horizon <= MaxSwitch + 1 /\ MaxSwitch \in Nat /\ Horizon \in Nat
    BY PrudentAssumption, TrajectoryAssumption, HorizonNat
  <2>2. CASE BoughtAtOnce(sys, cdf, k)
    BY <2>1, <2>2 DEF SwitchTime
  <2>3. CASE ~BoughtAtOnce(sys, cdf, k)
    <3>1. SwitchTime(sys, p, cdf, k) \in 0 .. Horizon - 1
      BY <1>3, <2>3, SwitchInMiddle
    <3> QED
      BY <2>1, <3>1
  <2> QED
    BY <2>2, <2>3
<1>5. s \in [1 .. m -> 0 .. MaxSwitch] /\ Len(s) = m
  <2>1. s \in [1 .. m -> 0 .. MaxSwitch]
    BY <1>4
  <2>2. s \in Seq(0 .. MaxSwitch)
    BY <1>3, <2>1
  <2> QED
    BY <1>3, <2>1, <2>2
<1>6. ASSUME NEW k \in 1 .. m - 1 PROVE s[k] <= s[k + 1]
  <2>1. k \in 1 .. m /\ k + 1 \in 1 .. m /\ k \in 1 .. sys.n - 1
    BY <1>1, <1>3
  <2>2. s[k] = SwitchTime(sys, p, cdf, k) /\ s[k + 1] = SwitchTime(sys, p, cdf, k + 1)
    BY <2>1
  <2> HIDE DEF s
  <2> QED
    BY <2>1, <2>2, SwitchesInOrder
<1> HIDE DEF s
<1>7. s \in SchedulesWithin(sys, 0 .. MaxSwitch)
  BY <1>5, <1>6 DEF SchedulesWithin
<1> QED
  BY <1>2, <1>7 DEF s, Schedules

-----------------------------------------------------------------------------
(* What is drawn is kept.                                                  *)

\* The switch times are those of the draw
DrawInv ==
  Drawn => /\ IsDrawn(ts, draw.p, draw.cdf)
           /\ switches = _prudent_switches(ts, wait, draw.p, draw.cdf)

\* They are chosen so.
LEMMA DrawInitially == PrudentInit => DrawInv
<1> SUFFICES ASSUME PrudentInit, Drawn
             PROVE  /\ IsDrawn(ts, draw.p, draw.cdf)
                    /\ switches = _prudent_switches(ts, wait, draw.p, draw.cdf)
  BY DEF DrawInv
<1>1. /\ ts \in DrawnSystems
      /\ draw \in [p : [1 .. ts.n -> 0 .. Grain - 1], cdf : [0 .. ts.n - 1 -> CDFs]]
      /\ switches = _prudent_switches(ts, wait, draw.p, draw.cdf)
  BY DEF PrudentInit, Drawn
<1>2. Valid(ts)
  BY <1>1, PrudentAssumption, TrajectoryAssumption
<1> QED
  BY <1>1, <1>2 DEF IsDrawn, IsDraw

\* The loop changes neither.
LEMMA DrawKept == DrawInv /\ [PrudentNext]_<<vars, draw>> => DrawInv'
<1> SUFFICES ASSUME DrawInv, [PrudentNext]_<<vars, draw>> PROVE DrawInv'
  OBVIOUS
<1>1. UNCHANGED <<ts, wait, switches, draw>>
  BY DEF PrudentNext, Next, Switch, Wake, vars, chosen
<1> QED
  BY <1>1 DEF DrawInv, Drawn, IsDrawn, IsDraw

\* In every reachable state they are those of the draw.
LEMMA DrawAlways == PrudentSpec => []DrawInv
BY DrawInitially, DrawKept, PTL DEF PrudentSpec

\* The switches drawn by the prudent policies are walked as those of any other: the
\* bisections of _prudent_switches return a schedule.
THEOREM PrudentImplements == PrudentSpec => ImplementsTrajectory
<1>1. PrudentInit => Init
  <2> SUFFICES ASSUME PrudentInit PROVE Init
    OBVIOUS
  <2>1. CASE Init
    BY <2>1
  <2>2. CASE ~Init
    <3>1. /\ ts \in DrawnSystems /\ wait \in DrawnWaits /\ pred = wait
          /\ policy = "any"
          /\ draw \in [p : [1 .. ts.n -> 0 .. Grain - 1], cdf : [0 .. ts.n - 1 -> CDFs]]
          /\ switches = _prudent_switches(ts, wait, draw.p, draw.cdf)
          /\ i = 0 /\ cur = 0 /\ last = 0 /\ cost = 0
          /\ pc = "loop"
      BY <2>2 DEF PrudentInit
    <3>2. ts \in TierSystems /\ wait \in Waits /\ Valid(ts)
      BY <3>1, PrudentAssumption, TrajectoryAssumption
    <3>3. IsDrawn(ts, draw.p, draw.cdf)
      BY <3>1, <3>2 DEF IsDrawn, IsDraw
    <3>4. switches \in Schedules(ts)
      BY <3>1, <3>3, PrudentSchedule
    <3>5. switches \in SwitchesOf(policy, ts, wait, pred)
      <4>1. SwitchesOf("any", ts, wait, pred) = Schedules(ts)
        BY SMT DEF SwitchesOf
      <4> QED
        BY <3>1, <3>4, <4>1
    <3> QED
      BY <3>1, <3>2, <3>5 DEF Init, Policies
  <2> QED
    BY <2>1, <2>2
<1>2. [PrudentNext]_<<vars, draw>> => [Next]_vars
  BY DEF PrudentNext, vars
<1> QED
  BY <1>1, <1>2, PTL DEF PrudentSpec, ImplementsTrajectory, Spec

\* The switches of a draw, and that the loop does not end at any of them
LEMMA SwitchesDrawn ==
  ASSUME DrawInv, Drawn
  PROVE  /\ IsDrawn(ts, draw.p, draw.cdf)
         /\ \A k \in DOMAIN switches :
              /\ k \in 1 .. ts.n
              /\ switches[k] = SwitchTime(ts, draw.p, draw.cdf, k)
              /\ ~Ends(ts, wait, draw.p, draw.cdf, k)
<1>1. /\ IsDrawn(ts, draw.p, draw.cdf)
      /\ switches = _prudent_switches(ts, wait, draw.p, draw.cdf)
  BY DEF DrawInv
<1>2. ts.n \in Nat
  BY <1>1 DEF IsDrawn, IsDraw, Valid
<1>3. PICK m \in 0 .. ts.n :
        /\ switches = [k \in 1 .. m |-> SwitchTime(ts, draw.p, draw.cdf, k)]
        /\ \A k \in 1 .. m : ~Ends(ts, wait, draw.p, draw.cdf, k)
  BY <1>1, <1>2, SwitchesMade
<1>4. \A k \in 1 .. m : k \in 1 .. ts.n
  BY <1>2
<1>5. DOMAIN switches = 1 .. m
  BY <1>3
<1> QED
  BY <1>1, <1>3, <1>4, <1>5

\* A switch that is searched for is made where the mass reaches its target.
THEOREM SwitchAtTargetCorrect == PrudentSpec => []SwitchAtTarget
<1>1. ASSUME DrawInv PROVE SwitchAtTarget
  <2> DEFINE p == draw.p
             cdf == draw.cdf
             Reached(k) == bp(ts, cdf, switches[k] + 1) >= Target(ts, p, k)
             Short(k) == bp(ts, cdf, switches[k] - 1) < Target(ts, p, k)
  <2> SUFFICES ASSUME Drawn, NEW k \in DOMAIN switches, ~BoughtAtOnce(ts, cdf, k)
               PROVE  Reached(k) /\ (Short(k) \/ switches[k] = 1)
    BY SMT DEF SwitchAtTarget
  <2>1. /\ IsDrawn(ts, p, cdf) /\ k \in 1 .. ts.n
        /\ switches[k] = SwitchTime(ts, p, cdf, k) /\ ~Ends(ts, wait, p, cdf, k)
    BY <1>1, SwitchesDrawn
  <2> DEFINE y == Target(ts, p, k)
             b == Bracket(ts, cdf, y)
             t == SwitchTime(ts, p, cdf, k)
  <2> HIDE DEF p, cdf, Reached, Short
  <2>2. y \in Nat
    BY <2>1, TargetsInOrder
  <2>3. /\ b[1] = 0 \/ bp(ts, cdf, b[1]) < y
        /\ b[2] = Horizon \/ bp(ts, cdf, b[2]) >= y
    BY <2>1, <2>2, BracketFinds DEF IsDrawn
  <2>4. /\ t \in 0 .. Horizon - 1 /\ t - 1 = b[1] /\ t + 1 = b[2]
        /\ t - 1 \in 0 .. Horizon /\ t + 1 \in 0 .. Horizon
    BY <2>1, SwitchInMiddle
  <2>5. ~(bp(ts, cdf, Horizon) < y)
    BY <2>1 DEF Ends
  <2>6. bp(ts, cdf, Horizon) \in Nat /\ Horizon \in Nat
    BY <2>1, HorizonNat, MassNat DEF IsDrawn
  <2> HIDE DEF y, b, t
  <2>7. bp(ts, cdf, t + 1) >= y
    BY <2>2, <2>3, <2>4, <2>5, <2>6
  <2>8. bp(ts, cdf, t - 1) < y \/ t = 1
    BY <2>3, <2>4, <2>6
  <2> QED
    BY <2>1, <2>7, <2>8 DEF y, t, Reached, Short
<1> QED
  BY <1>1, DrawAlways, PTL

\* A state behind the last step that saves rent is entered only by a draw of zero, or
\* for nothing.
THEOREM DegenerateNotEnteredCorrect == PrudentSpec => []DegenerateNotEntered
<1>1. ASSUME DrawInv PROVE DegenerateNotEntered
  <2> DEFINE p == draw.p
             cdf == draw.cdf
  <2> SUFFICES ASSUME Drawn, NEW k \in DOMAIN switches,
                      \A j \in k - 1 .. ts.n - 1 : step_a(ts, j) = 0
               PROVE  p[k] = 0 \/ step_b(ts, k - 1) = 0
    BY SMT DEF DegenerateNotEntered
  <2>1. /\ IsDrawn(ts, p, cdf) /\ k \in 1 .. ts.n
        /\ ~Ends(ts, wait, p, cdf, k)
    BY <1>1, SwitchesDrawn
  <2> HIDE DEF p, cdf
  <2>2. k - 1 \in 0 .. ts.n /\ ts.n \in Nat
    BY <2>1 DEF IsDrawn, IsDraw, Valid
  <2>3. ASSUME NEW x \in 0 .. Horizon
        PROVE  bp(ts, cdf, x) \in Nat /\ bp(ts, cdf, x) <= Grain * ts.beta[k - 1]
    <3>1. PICK tot : IsMass(tot, ts, cdf, x) /\ bp(ts, cdf, x) = tot[ts.n]
      BY <2>1, MassOf DEF IsDrawn
    <3>2. tot[ts.n] = tot[k - 1]
      BY <2>1, <2>2, <3>1, MassStays DEF IsDrawn
    <3>3. tot[k - 1] <= Grain * ts.beta[k - 1]
      BY <2>1, <2>2, <3>1, MassBounded DEF IsDrawn
    <3> QED
      BY <2>1, <3>1, <3>2, <3>3, MassNat DEF IsDrawn
  <2> DEFINE a == Grain * ts.beta[k - 1]
             c == Grain * ts.beta[k]
             s == step_b(ts, k - 1)
  <2>4. /\ a \in Nat /\ c \in Nat /\ s \in Nat /\ p[k] \in Nat /\ p[k] * s \in Nat
        /\ c = a + Grain * s /\ Target(ts, p, k) = a + p[k] * s /\ Grain \in Nat \ {0}
    BY <2>1, TargetsInOrder, PrudentAssumption DEF Target
  <2>5. 0 \in 0 .. Horizon /\ Horizon \in 0 .. Horizon
    BY HorizonNat
  <2>6. CASE BoughtAtOnce(ts, cdf, k)
    <3>1. bp(ts, cdf, 0) >= c
      BY <2>6 DEF BoughtAtOnce
    <3>2. bp(ts, cdf, 0) \in Nat /\ bp(ts, cdf, 0) <= a
      BY <2>3, <2>5
    <3> HIDE DEF a, c, s
    <3>3. Grain * s <= 0
      <4> DEFINE g == Grain * s
      <4>1. g \in Nat
        BY <2>4
      <4>2. c = a + g
        BY <2>4
      <4> HIDE DEF g
      <4>3. g <= 0
        BY <2>4, <3>1, <3>2, <4>1, <4>2
      <4> QED
        BY <4>3 DEF g
    <3>4. s = 0
      BY <2>4, <3>3
    <3> QED
      BY <3>4 DEF s
  <2>7. CASE ~BoughtAtOnce(ts, cdf, k)
    <3>1. ~(bp(ts, cdf, Horizon) < Target(ts, p, k))
      BY <2>1, <2>7 DEF Ends
    <3>2. bp(ts, cdf, Horizon) \in Nat /\ bp(ts, cdf, Horizon) <= a
      BY <2>3, <2>5
    <3> DEFINE q == p[k]
    <3>3. q \in Nat /\ q * s \in Nat /\ Target(ts, p, k) = a + q * s
      BY <2>4
    <3> HIDE DEF a, c, s, q
    <3>4. q * s <= 0
      <4> DEFINE g == q * s
      <4>1. g \in Nat /\ Target(ts, p, k) = a + g
        BY <3>3
      <4> HIDE DEF g
      <4>2. g <= 0
        BY <2>4, <3>1, <3>2, <4>1
      <4> QED
        BY <4>2 DEF g
    <3>5. q = 0 \/ s = 0
      BY <2>4, <3>3, <3>4
    <3> QED
      BY <3>5 DEF q, s
  <2> QED
    BY <2>6, <2>7
<1> QED
  BY <1>1, DrawAlways, PTL
=============================================================================
