------------------------------ MODULE TierPool -------------------------------
(***************************************************************************)
(* What the two replay loops of harness/replay.py share: the capacity pool *)
(* kept as a heap of departure times, and the timeline a placement means.  *)
(*                                                                         *)
(* A heap is a set of <<departure, request>> pairs: the request keeps      *)
(* equal departure times apart.  A row is what the replay decided for one  *)
(* request: [t0, wait, segs], where segs lists tiers and durations.        *)
(* Rates, prices and times are natural numbers.                            *)
(***************************************************************************)
EXTENDS Integers, SequencesExt

CONSTANTS
  C_HBM, C_CPU,                           \* capacity, in contexts
  ALPHA_HBM_B, BETA_CPU_B, BETA_DISCARD_B \* what waiting and waking up cost

ASSUME TierPoolAssumption ==
  /\ C_HBM \in Nat \ {0} /\ C_CPU \in Nat
  /\ ALPHA_HBM_B \in Nat \ {0} /\ BETA_CPU_B \in Nat /\ BETA_DISCARD_B \in Nat
  /\ BETA_CPU_B <= BETA_DISCARD_B

\* Variants, here and in the modules that extend this one, are no part of a
\* specification: they are mistakes one could make in the definition that
\* follows, kept to show that a property notices.
PoolTickLate(h, now) == {e \in h : e[1] >= now}

PoolTick(h, now) == {e \in h : e[1] > now}

\* Variant: one too many
PoolFreeOneMore(h, cap) == Cardinality(h) <= cap

PoolFree(h, cap) == Cardinality(h) < cap

PoolHold(h, until, i) == h \cup {<<until, i>>}

-----------------------------------------------------------------------------
(* The physical reading of the rows.                                       *)

\* at: how long after the arrival the segment starts
Seg(tier, at, dur) == [tier |-> tier, at |-> at, dur |-> dur]

Leaves(row, seg) == row.t0 + seg.at + seg.dur

\* The tier of a row at a time, if it is suspended then
InTier(row, tier, time) ==
  \E k \in DOMAIN row.segs :
    LET seg == row.segs[k]
    IN seg.tier = tier /\ row.t0 + seg.at <= time /\ time < Leaves(row, seg)

Occupancy(rows, tier, time) ==
  Cardinality({i \in DOMAIN rows : InTier(rows[i], tier, time)})

\* No tier is ever fuller than when a segment starts
FitsInto(rows, tier, cap) ==
  \A i \in DOMAIN rows : \A k \in DOMAIN rows[i].segs :
    rows[i].segs[k].tier = tier
      => Occupancy(rows, tier, rows[i].t0 + rows[i].segs[k].at) <= cap

\* The tier the request wakes up from
EndTier(row) == Last(row.segs).tier

-----------------------------------------------------------------------------
(* The price of a row, in GPU-seconds taken from others (currency B).      *)

ALPHA_B(tier) == IF tier = "hbm" THEN ALPHA_HBM_B ELSE 0

BETA_B(tier) == CASE tier = "hbm" -> 0
                  [] tier = "cpu" -> BETA_CPU_B
                  [] tier = "discard" -> BETA_DISCARD_B

Rents(row) == [k \in DOMAIN row.segs |-> ALPHA_B(row.segs[k].tier) * row.segs[k].dur]

\* Variant: woken up from the tier the request fell asleep in
priceOfFirst(row) == FoldLeft(+, 0, Rents(row)) + BETA_B(row.segs[1].tier)

price(row) == FoldLeft(+, 0, Rents(row)) + BETA_B(EndTier(row))
=============================================================================
