----------------------------- MODULE Evaluation ------------------------------
(***************************************************************************)
(* The comparison that harness/replay.py, shift_eval.py and                *)
(* const_alpha_eval.py make: every policy and the MORI baseline over the   *)
(* same arrivals, waits and predictions.                                   *)
(*                                                                         *)
(* The code replays the trace once per policy.  The replays share nothing  *)
(* but the trace, so that one step takes all of them through one arrival.  *)
(* The variables of Mori are those of the baseline.                        *)
(***************************************************************************)
EXTENDS Replay, Mori

CONSTANTS
  W_REF,      \* the reference wait that the critical load is taken from
  Tau,        \* a TTL, beside zero and infinity
  Chances     \* records [pred, drawn]: a prediction, and what random numbers lead to

ASSUME EvaluationAssumption ==
  /\ W_REF \in Nat \ {0} /\ Tau \in Nat
  /\ \A c \in Chances : /\ c.pred \in Nat /\ c.drawn \in Seq(Nat)
                        /\ Len(c.drawn) <= 2
                        /\ \A k \in 1 .. Len(c.drawn) - 1 : c.drawn[k] <= c.drawn[k + 1]

VARIABLE replays    \* policy -> its replay

-----------------------------------------------------------------------------
\* make_ttl of shift_eval.py: offload while DRAM is free, pin until tau otherwise
Infinity == -1
ttl(tau, ts) ==
  IF ts.n = 2 THEN <<0>> ELSE IF tau = Infinity THEN << >> ELSE <<tau>>

\* The shadow price of DRAM at a multiple of the critical load, times W_REF
sched_ac(mult) == (IF mult <= 1 THEN 0 ELSE mult - 1) * BETA_DISCARD_B

\* make_cpu_ttl of const_alpha_eval.py: demote at once, discard where the shadow
\* rent has paid for it
t2(mult) == ((BETA_DISCARD_B - BETA_CPU_B) * W_REF) \div sched_ac(mult)

cpu_ttl(mult, ts) ==
  IF ts.n = 2 /\ sched_ac(mult) > 0 THEN <<0, t2(mult)>> ELSE <<0>>

\* What the policies return for an arrival.  online_rand stands for whatever is
\* drawn: for rhomu and for the policies with a constant alpha as well.
Switches(policy, ts, wait, c) ==
  CASE policy = "always_pin" -> << >>
    [] policy = "always_cpu" -> <<0>>
    [] policy = "always_discard" -> AtOnce(ts.n)
    [] policy = "opt" -> AtOnce(opt_state(ts, wait))
    [] policy = "ftp" -> AtOnce(opt_state(ts, c.pred))
    [] policy = "online_det" -> CHOOSE s \in DetSchedules(ts) : TRUE
    [] policy = "online_rand" -> SubSeq(c.drawn, 1, Min({Len(c.drawn), ts.n}))
    [] policy = "ttl_0" -> ttl(0, ts)
    [] policy = "ttl" -> ttl(Tau, ts)
    [] policy = "ttl_inf" -> ttl(Infinity, ts)
    [] policy = "cpu_ttl_x1" -> cpu_ttl(1, ts)
    [] policy = "cpu_ttl_x2" -> cpu_ttl(2, ts)

Policies == {"always_pin", "always_cpu", "always_discard", "opt", "ftp", "online_det",
             "online_rand", "ttl_0", "ttl", "ttl_inf", "cpu_ttl_x1", "cpu_ttl_x2"}

EvaluationInit == Init /\ replays = [policy \in Policies |-> NewReplay]

Replayed(gap, wait, c) ==
  /\ Arrive(gap, wait)
  /\ replays' = [policy \in Policies |->
                   Turn(replays[policy], [ts \in Offers |-> Switches(policy, ts, wait, c)],
                        now + gap, wait)]

TraceEnds == Drain /\ UNCHANGED replays

EvaluationNext ==
  TraceEnds \/ \E gap \in Gaps, wait \in Waits, c \in Chances : Replayed(gap, wait, c)

EvaluationSpec == EvaluationInit /\ [][EvaluationNext]_<<vars, replays>>

-----------------------------------------------------------------------------
\* "No policy can hold what capacity does not allow" (replay.py:20-22): at any
\* time, past or still to come, the trajectories a policy hands out keep at most
\* C_HBM contexts in HBM and C_CPU in DRAM, and so do MORI's.  The pools only count
\* departures, and voluntary demotions enter DRAM later than the slot was taken.
WithinCapacity ==
  /\ MoriWithinCapacity
  /\ \A policy \in Policies :
       /\ FitsInto(replays[policy].rows, "hbm", C_HBM)
       /\ FitsInto(replays[policy].rows, "cpu", C_CPU)

\* A request that a policy's replay keeps out of HBM meets an HBM that is physically
\* full: the heap forgets a context no later than the context leaves.  Where contexts
\* enter DRAM as they arrive, as always_cpu's do, or as MORI evicts them, one is
\* discarded only when DRAM is physically full; of MORI's HBM nothing is said, since
\* it evicts with room to spare (replay.py:88-93, 112, 119-123, 170).
ForcedOnlyWhenFull ==
  /\ DiscardedOnlyWhenFull
  /\ \A policy \in Policies : \A i \in replays[policy].forced :
       LET rows_p == replays[policy].rows
       IN Occupancy(SubSeq(rows_p, 1, i - 1), "hbm", rows_p[i].t0) = C_HBM
  /\ LET rows_c == replays["always_cpu"].rows
     IN \A i \in DOMAIN rows_c : EndTier(rows_c[i]) = "discard"
          => Occupancy(SubSeq(rows_c, 1, i - 1), "cpu", rows_c[i].t0) = C_CPU

\* A policy that leaves HBM at once is never kept out of it, at any load: a stay
\* of no duration takes no slot (replay.py:126).
ImmediateNeverForced ==
  \A policy \in {"always_cpu", "always_discard", "ttl_0", "cpu_ttl_x1", "cpu_ttl_x2"} :
    replays[policy].forced = {}

Best(tiers, wait) == Min({ALPHA_B(tier) * wait + BETA_B(tier) : tier \in tiers})

\* opt pays the best of the tiers it was offered, and nobody, MORI included, pays
\* less than the best tier for the request: the price of the replay (replay.py:64)
\* is the cost the policies decide by (policy.py:58), over every demotion, refusal
\* and eviction.
NobodyBeatsTheOracle ==
  /\ \A policy \in Policies : \A row \in ToSet(replays[policy].rows) :
       /\ price(row) >= Best(row.offered, row.wait)
       /\ policy = "opt" => price(row) = Best(row.offered, row.wait)
  /\ \A row \in ToSet(rows) :
       row.segs # << >> => price(row) >= Best({"hbm", "cpu", "discard"}, row.wait)
=============================================================================
