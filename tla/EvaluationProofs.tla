-------------------------- MODULE EvaluationProofs ---------------------------
(***************************************************************************)
(* Proofs about Evaluation for every capacity, price, trace and drawing.   *)
(*                                                                         *)
(* The first is that no tier ever holds more contexts than its capacity.   *)
(* A heap of departures covers everyone who is in the tier from its last   *)
(* tick on (Holds), so that its size bounds the occupancy from then on;    *)
(* before the tick, nothing a new row adds can be in the tier any more     *)
(* (FitsForward).  The deque of MORI is read as such a heap (QueueHeap).   *)
(***************************************************************************)
EXTENDS Evaluation, TierSystemProofs, FiniteSetTheorems, SequenceTheorems, TLAPS

-----------------------------------------------------------------------------
(* Heaps and timelines.                                                    *)

\* A row of natural times
Dated(row) ==
  /\ row.t0 \in Nat /\ row.wait \in Nat
  /\ \A k \in DOMAIN row.segs : row.segs[k].at \in Nat /\ row.segs[k].dur \in Int

\* Every stay in a tier that is not over has its slot in the heap
Holds(info, tier, heap, time) ==
  \A i \in DOMAIN info : \A k \in DOMAIN info[i].segs :
    LET seg == info[i].segs[k]
    IN seg.tier = tier /\ seg.dur > 0 /\ Leaves(info[i], seg) > time
         => <<Leaves(info[i], seg), i>> \in heap

\* A tier holds no more contexts than its heap has slots, now and later.
LEMMA HeapBoundsOccupancy ==
  ASSUME NEW info, NEW tier, NEW heap, IsFiniteSet(heap),
         NEW from \in Nat, NEW time \in Nat, from <= time,
         \A i \in DOMAIN info : Dated(info[i]),
         Holds(info, tier, heap, from)
  PROVE  /\ Occupancy(info, tier, time) \in Nat
         /\ Occupancy(info, tier, time) <= Cardinality(heap)
<1> DEFINE Here == {i \in DOMAIN info : InTier(info[i], tier, time)}
           Names == [e \in heap |-> e[2]]
           Named == {e[2] : e \in heap}
<1>1. Here \subseteq Named
  <2> SUFFICES ASSUME NEW i \in DOMAIN info, InTier(info[i], tier, time)
               PROVE  i \in Named
    OBVIOUS
  <2>1. PICK k \in DOMAIN info[i].segs :
          LET seg == info[i].segs[k]
          IN seg.tier = tier /\ info[i].t0 + seg.at <= time /\ time < Leaves(info[i], seg)
    BY DEF InTier
  <2>2. /\ info[i].t0 \in Nat /\ info[i].segs[k].at \in Nat /\ info[i].segs[k].dur \in Int
    BY DEF Dated
  <2>3. info[i].segs[k].dur > 0 /\ Leaves(info[i], info[i].segs[k]) > from
    BY <2>1, <2>2 DEF Leaves
  <2>4. <<Leaves(info[i], info[i].segs[k]), i>> \in heap
    BY <2>1, <2>3 DEF Holds
  <2> QED
    BY <2>4
<1>2. Names \in Surjection(heap, Named)
  BY DEF Surjection
<1>3. IsFiniteSet(Named) /\ Cardinality(Named) <= Cardinality(heap)
  BY <1>2, FS_Surjection
<1>4. IsFiniteSet(Here) /\ Cardinality(Here) <= Cardinality(Named)
  BY <1>1, <1>3, FS_Subset
<1>5. Cardinality(Here) \in Nat /\ Cardinality(Named) \in Nat /\ Cardinality(heap) \in Nat
  BY <1>3, <1>4, FS_CardinalityType
<1> QED
  BY <1>3, <1>4, <1>5 DEF Occupancy

\* Where the timelines agree the occupancies do.
LEMMA SameOccupancy ==
  ASSUME NEW old, NEW new, NEW tier, NEW time, DOMAIN old \subseteq DOMAIN new,
         \A i \in DOMAIN old : InTier(new[i], tier, time) <=> InTier(old[i], tier, time),
         \A i \in DOMAIN new \ DOMAIN old : ~InTier(new[i], tier, time)
  PROVE  Occupancy(new, tier, time) = Occupancy(old, tier, time)
<1>1. {i \in DOMAIN new : InTier(new[i], tier, time)}
        = {i \in DOMAIN old : InTier(old[i], tier, time)}
  OBVIOUS
<1> QED
  BY <1>1 DEF Occupancy

-----------------------------------------------------------------------------
(* One turn of a replay.                                                   *)

Tiers == {"hbm", "cpu", "discard"}
Segs == [tier : Tiers, at : Nat, dur : Int]
Decisions == [t0 : Nat, wait : Nat, segs : Seq(Segs), offered : SUBSET Tiers]

\* The heap of a tier bounds what is in it, from a time on and before
Fits(info, tier, cap, heap, time) ==
  /\ IsFiniteSet(heap) /\ Cardinality(heap) <= cap
  /\ Holds(info, tier, heap, time)
  /\ \A t \in Nat : Occupancy(info, tier, t) <= cap

\* Rows of a replay are rows of natural times.
LEMMA DecisionsAreDated ==
  ASSUME NEW row \in Decisions
  PROVE  Dated(row)
<1>1. row.t0 \in Nat /\ row.wait \in Nat /\ row.segs \in Seq(Segs)
  BY DEF Decisions
<1>2. \A k \in DOMAIN row.segs : row.segs[k] \in Segs
  BY <1>1
<1> QED
  BY <1>1, <1>2 DEF Segs, Dated

\* A trajectory that visits a tier once takes at most one slot of its heap.
LEMMA OneSlotPerTier ==
  ASSUME NEW row, NEW tier, NEW i, NEW heap, IsFiniteSet(heap),
         \A k, l \in DOMAIN row.segs : row.segs[k].tier = tier /\ row.segs[l].tier = tier => k = l
  PROVE  /\ IsFiniteSet(heap \cup Slots(row, tier, i))
         /\ Cardinality(heap \cup Slots(row, tier, i)) <= Cardinality(heap) + 1
<1> DEFINE Takes(k) == row.segs[k].tier = tier /\ row.segs[k].dur > 0
<1>0. Cardinality(heap) \in Nat
  BY FS_CardinalityType
<1>1. CASE \E k \in DOMAIN row.segs : Takes(k)
  <2>1. PICK k \in DOMAIN row.segs : Takes(k)
    BY <1>1
  <2>2. Slots(row, tier, i) = {<<Leaves(row, row.segs[k]), i>>}
    BY <2>1 DEF Slots
  <2> DEFINE slot == <<Leaves(row, row.segs[k]), i>>
  <2>3. /\ IsFiniteSet(heap \cup {slot})
        /\ Cardinality(heap \cup {slot}) = IF slot \in heap THEN Cardinality(heap)
                                                          ELSE Cardinality(heap) + 1
    BY FS_AddElement
  <2> QED
    BY <1>0, <2>2, <2>3
<1>2. CASE ~ \E k \in DOMAIN row.segs : Takes(k)
  <2>1. Slots(row, tier, i) = {}
    BY <1>2 DEF Slots
  <2>2. heap \cup Slots(row, tier, i) = heap
    BY <2>1
  <2>3. IsFiniteSet(heap \cup Slots(row, tier, i))
    BY <2>2, Zenon
  <2>4. Cardinality(heap \cup Slots(row, tier, i)) = Cardinality(heap)
    BY <2>2, Zenon
  <2> QED
    BY <1>0, <2>3, <2>4
<1> QED
  BY <1>1, <1>2

\* It takes none in the heap of a tier it does not visit.
LEMMA NoSlotElsewhere ==
  ASSUME NEW row, NEW tier, NEW i, \A k \in DOMAIN row.segs : row.segs[k].tier # tier
  PROVE  Slots(row, tier, i) = {}
BY DEF Slots

\* A tick of the pool (replay.py, CapacityPool) only frees slots.
LEMMA TickedHeap ==
  ASSUME NEW heap, NEW time, IsFiniteSet(heap)
  PROVE  /\ IsFiniteSet(PoolTick(heap, time))
         /\ Cardinality(PoolTick(heap, time)) <= Cardinality(heap)
BY FS_Subset DEF PoolTick

\* What the rows of an arrival change lies at or behind it: before, the bound
\* carries over, and from the arrival on it is the heap's.
LEMMA FitsForward ==
  ASSUME NEW old, NEW new, NEW tier, NEW cap \in Nat, NEW slots, NEW time \in Nat,
         DOMAIN old \subseteq DOMAIN new,
         \A j \in DOMAIN new : Dated(new[j]),
         \A j \in DOMAIN old : \A t \in Nat :
            t < time => (InTier(new[j], tier, t) <=> InTier(old[j], tier, t)),
         \A j \in DOMAIN new \ DOMAIN old : \A t \in Nat :
            t < time => ~InTier(new[j], tier, t),
         \A t \in Nat : Occupancy(old, tier, t) <= cap,
         Holds(new, tier, slots, time), IsFiniteSet(slots), Cardinality(slots) <= cap
  PROVE  Fits(new, tier, cap, slots, time)
<1>1. ASSUME NEW t \in Nat
      PROVE  Occupancy(new, tier, t) <= cap
  <2>1. CASE time <= t
    <3>1. /\ Occupancy(new, tier, t) <= Cardinality(slots)
          /\ Occupancy(new, tier, t) \in Nat
      BY <2>1, HeapBoundsOccupancy
    <3>2. Cardinality(slots) \in Nat
      BY FS_CardinalityType
    <3> QED
      BY <3>1, <3>2
  <2>2. CASE t < time
    <3>1. Occupancy(new, tier, t) = Occupancy(old, tier, t)
      BY <2>2, SameOccupancy
    <3> QED
      BY <3>1
  <2> QED
    BY <2>1, <2>2
<1> QED
  BY <1>1 DEF Fits

\* A row whose slots fit leaves the tier within its capacity.
LEMMA RowAdded ==
  ASSUME NEW info \in Seq(Decisions), NEW row \in Decisions, NEW tier, NEW cap \in Nat,
         NEW heap, NEW from \in Nat, from <= row.t0,
         Fits(info, tier, cap, heap, from),
         NEW slots, slots = PoolTick(heap, row.t0) \cup Slots(row, tier, Len(info) + 1),
         IsFiniteSet(slots), Cardinality(slots) <= cap
  PROVE  Fits(Append(info, row), tier, cap, slots, row.t0)
<1> DEFINE i == Len(info) + 1
           more == Append(info, row)
<1>a. Len(info) \in Nat /\ DOMAIN info = 1 .. Len(info) /\ DOMAIN more = 1 .. i
  OBVIOUS
<1>b. \A j \in DOMAIN info : more[j] = info[j] /\ info[j] \in Decisions
  OBVIOUS
<1>c. more[i] = row
  OBVIOUS
<1>d. row.t0 \in Nat
  BY DEF Decisions
<1>1. /\ Len(info) \in Nat /\ DOMAIN info = 1 .. Len(info) /\ DOMAIN more = 1 .. i
      /\ \A j \in DOMAIN info : more[j] = info[j] /\ more[j] \in Decisions
      /\ more[i] = row
      /\ row.t0 \in Nat
  BY <1>a, <1>b, <1>c, <1>d
<1>2. \A j \in DOMAIN more : Dated(more[j])
  BY <1>1, DecisionsAreDated
<1>3. Holds(more, tier, slots, row.t0)
  <2> SUFFICES ASSUME NEW j \in DOMAIN more, NEW k \in DOMAIN more[j].segs,
                      more[j].segs[k].tier = tier, more[j].segs[k].dur > 0,
                      Leaves(more[j], more[j].segs[k]) > row.t0
               PROVE  <<Leaves(more[j], more[j].segs[k]), j>> \in slots
    BY DEF Holds
  <2>1. CASE j = i
    BY <1>1, <2>1 DEF Slots
  <2>2. CASE j # i
    <3>1. j \in DOMAIN info /\ more[j] = info[j]
      BY <1>1, <2>2
    <3>2. Leaves(info[j], info[j].segs[k]) \in Int
      BY <1>2, <3>1 DEF Dated, Leaves
    <3>3. Leaves(info[j], info[j].segs[k]) > from
      BY <1>1, <3>1, <3>2
    <3>4. <<Leaves(info[j], info[j].segs[k]), j>> \in heap
      BY <3>1, <3>3 DEF Fits, Holds
    <3> QED
      BY <3>1, <3>4 DEF PoolTick
  <2> QED
    BY <2>1, <2>2
<1>4. \A t \in Nat : t < row.t0 => ~InTier(more[i], tier, t)
  BY <1>1, <1>2 DEF InTier, Dated
<1>5. DOMAIN info \subseteq DOMAIN more /\ DOMAIN more \ DOMAIN info = {i}
  BY <1>1
<1>6. \A t \in Nat : Occupancy(info, tier, t) <= cap
  BY DEF Fits
<1> HIDE DEF more, i
<1>7. Fits(more, tier, cap, slots, row.t0)
  BY <1>1, <1>2, <1>3, <1>4, <1>5, <1>6, FitsForward
<1> QED
  BY <1>7 DEF more

-----------------------------------------------------------------------------
(* The trajectory of a policy.                                             *)

\* Both tier systems of the replay name each tier at most once, the small one
\* without DRAM.
LEMMA OffersTyped ==
  ASSUME NEW ts \in Offers
  PROVE  /\ ts.n \in Nat
         /\ \A k \in 0 .. ts.n : ts.names[k] \in Tiers
         /\ \A k, l \in 0 .. ts.n : ts.names[k] = ts.names[l] => k = l
         /\ ts = TS_HBM_DISCARD => \A k \in 0 .. ts.n : ts.names[k] # "cpu"
<1>1. /\ TS_FULL.n = 2
      /\ TS_FULL.names[0] = "hbm" /\ TS_FULL.names[1] = "cpu" /\ TS_FULL.names[2] = "discard"
  BY DEF TS_FULL, NewTierSystem, FromZero
<1>2. /\ TS_HBM_DISCARD.n = 1
      /\ TS_HBM_DISCARD.names[0] = "hbm" /\ TS_HBM_DISCARD.names[1] = "discard"
  BY DEF TS_HBM_DISCARD, NewTierSystem, FromZero
<1>3. CASE ts = TS_FULL
  <2>1. ts # TS_HBM_DISCARD
    BY <1>1, <1>2, <1>3
  <2>2. \A k \in 0 .. ts.n : k = 0 \/ k = 1 \/ k = 2
    BY <1>1, <1>3
  <2> QED
    BY <1>1, <1>3, <2>1, <2>2 DEF Tiers
<1>4. CASE ts = TS_HBM_DISCARD
  <2>1. \A k \in 0 .. ts.n : k = 0 \/ k = 1
    BY <1>2, <1>4
  <2> QED
    BY <1>2, <1>4, <2>1 DEF Tiers
<1> QED
  BY <1>3, <1>4 DEF Offers

\* The loop stops at the first switch that is not before the end of the wait.
LEMMA MadeIsPrefix ==
  ASSUME NEW s \in Seq(Nat), NEW w \in Nat
  PROVE  /\ Made(s, w) \in 0 .. Len(s)
         /\ \A k \in 1 .. Made(s, w) : s[k] < w
<1> DEFINE Stops == {k \in DOMAIN s : s[k] >= w} \cup {Len(s) + 1}
<1>1. Stops \subseteq Nat \ {0} /\ Stops # {}
  OBVIOUS
<1>2. PICK k \in Stops : \A l \in Stops : k <= l
  BY <1>1, NatHasMin
<1>3. Min(Stops) \in Stops /\ \A l \in Stops : Min(Stops) <= l
  BY <1>2 DEF Min
<1>4. \A l \in DOMAIN s : l < Min(Stops) => s[l] < w
  <2> SUFFICES ASSUME NEW l \in DOMAIN s, l < Min(Stops), ~(s[l] < w)
               PROVE  FALSE
    OBVIOUS
  <2>1. s[l] \in Nat
    OBVIOUS
  <2>2. l \in Stops
    BY <2>1
  <2>3. Min(Stops) <= l /\ Min(Stops) \in Nat /\ l \in Nat
    BY <1>1, <1>3, <2>2
  <2> QED
    BY <2>3
<1>5. Min(Stops) \in 1 .. Len(s) + 1
  BY <1>1, <1>3
<1> HIDE DEF Stops
<1>6. Made(s, w) = Min(Stops) - 1
  BY DEF Made, Stops
<1> QED
  BY <1>4, <1>5, <1>6

\* Seg makes a segment of its tier.
LEMMA SegTyped ==
  ASSUME NEW tier \in Tiers, NEW at \in Nat, NEW dur \in Int
  PROVE  Seg(tier, at, dur) \in Segs /\ Seg(tier, at, dur).tier = tier
BY DEF Seg, Segs

\* The trajectory goes through the tiers of the offer in order, one segment each.
LEMMA SegmentsTyped ==
  ASSUME NEW ts \in Offers, NEW s \in Seq(Nat), Len(s) <= ts.n, NEW w \in Nat
  PROVE  /\ Segments(ts, s, w) \in Seq(Segs)
         /\ DOMAIN Segments(ts, s, w) \subseteq 1 .. ts.n + 1
         /\ \A k \in DOMAIN Segments(ts, s, w) : Segments(ts, s, w)[k].tier = ts.names[k - 1]
<1> DEFINE m == Made(s, w)
           segs == Segments(ts, s, w)
<1>1. m \in 0 .. Len(s) /\ ts.n \in Nat
  BY MadeIsPrefix, OffersTyped
<1>2. \A k \in 1 .. m + 2 : Bound(s, w, k) \in Nat
  BY <1>1 DEF Bound
<1>a. m \in Nat /\ m <= ts.n
  BY <1>1
<1>3. segs = [k \in 1 .. m + 1 |-> Seg(ts.names[k - 1], Bound(s, w, k),
                                       Bound(s, w, k + 1) - Bound(s, w, k))]
  BY DEF Segments
<1> HIDE DEF m, segs
<1>4. \A k \in 1 .. m + 1 : segs[k] \in Segs /\ segs[k].tier = ts.names[k - 1]
  <2> SUFFICES ASSUME NEW k \in 1 .. m + 1
               PROVE  segs[k] \in Segs /\ segs[k].tier = ts.names[k - 1]
    OBVIOUS
  <2>1. k \in 1 .. m + 2 /\ k + 1 \in 1 .. m + 2 /\ k - 1 \in 0 .. ts.n
    BY <1>1, <1>a
  <2>2. Bound(s, w, k) \in Nat /\ Bound(s, w, k + 1) - Bound(s, w, k) \in Int
    BY <1>2, <2>1
  <2>3. ts.names[k - 1] \in Tiers
    BY <2>1, OffersTyped
  <2>4. segs[k] = Seg(ts.names[k - 1], Bound(s, w, k), Bound(s, w, k + 1) - Bound(s, w, k))
    BY <1>3
  <2> DEFINE b == Bound(s, w, k)
             d == Bound(s, w, k + 1) - Bound(s, w, k)
             name == ts.names[k - 1]
  <2>5. b \in Nat /\ d \in Int /\ name \in Tiers /\ segs[k] = Seg(name, b, d)
    BY <2>2, <2>3, <2>4
  <2> HIDE DEF b, d, name
  <2>6. segs[k] \in Segs /\ segs[k].tier = name
    BY <2>5, SegTyped
  <2> QED
    BY <2>6 DEF name
<1>5. segs \in [1 .. m + 1 -> Segs]
  BY <1>3, <1>4
<1>6. m + 1 \in Nat /\ m + 1 <= ts.n + 1
  BY <1>1, <1>a
<1>7. segs \in Seq(Segs)
  BY <1>5, <1>6, SeqDef
<1>8. DOMAIN segs = 1 .. m + 1
  BY <1>5
<1>9. DOMAIN segs \subseteq 1 .. ts.n + 1
  BY <1>1, <1>6, <1>8
<1> QED
  BY <1>4, <1>7, <1>8, <1>9 DEF segs
-----------------------------------------------------------------------------
(* One turn of the loop of run_generic.                                    *)

Fields == {"hbm", "cpu", "rows", "forced"}

ReplayFits(r, time) ==
  /\ DOMAIN r = Fields
  /\ r.rows \in Seq(Decisions)
  /\ Fits(r.rows, "hbm", C_HBM, r.hbm, time)
  /\ Fits(r.rows, "cpu", C_CPU, r.cpu, time)

\* The slots of one trajectory fit where the pool is free or not wanted.
LEMMA SlotsFit ==
  ASSUME NEW heap, IsFiniteSet(heap), NEW cap \in Nat, Cardinality(heap) <= cap,
         NEW time, NEW row, NEW tier, NEW i,
         \A k, l \in DOMAIN row.segs : row.segs[k].tier = row.segs[l].tier => k = l,
         PoolFree(PoolTick(heap, time), cap) \/ \A k \in DOMAIN row.segs : row.segs[k].tier # tier
  PROVE  LET slots == PoolTick(heap, time) \cup Slots(row, tier, i)
         IN IsFiniteSet(slots) /\ Cardinality(slots) <= cap
<1> DEFINE ticked == PoolTick(heap, time)
<1>1. IsFiniteSet(ticked) /\ Cardinality(ticked) <= Cardinality(heap)
  BY TickedHeap
<1>2. Cardinality(heap) \in Nat /\ Cardinality(ticked) \in Nat
  BY <1>1, FS_CardinalityType
<1> HIDE DEF ticked
<1>3. CASE PoolFree(ticked, cap)
  <2>1. /\ IsFiniteSet(ticked \cup Slots(row, tier, i))
        /\ Cardinality(ticked \cup Slots(row, tier, i)) <= Cardinality(ticked) + 1
    BY <1>1, OneSlotPerTier
  <2>2. Cardinality(ticked \cup Slots(row, tier, i)) \in Nat
    BY <2>1, FS_CardinalityType
  <2>3. Cardinality(ticked) < cap
    BY <1>3 DEF PoolFree
  <2> QED
    BY <1>2, <2>1, <2>2, <2>3 DEF ticked
<1>4. CASE \A k \in DOMAIN row.segs : row.segs[k].tier # tier
  <2>1. Slots(row, tier, i) = {}
    BY <1>4, NoSlotElsewhere
  <2>2. ticked \cup Slots(row, tier, i) = ticked
    BY <2>1
  <2>3. Cardinality(ticked) <= cap
    BY <1>1, <1>2
  <2>4. Cardinality(ticked \cup Slots(row, tier, i)) <= cap
    BY <2>2, <2>3, Zenon
  <2>5. IsFiniteSet(ticked \cup Slots(row, tier, i))
    BY <1>1, <2>2, Zenon
  <2> QED
    BY <2>4, <2>5 DEF ticked
<1> QED
  BY <1>3, <1>4 DEF ticked

\* Placed, after the tick, keeps the pools within their capacity.
LEMMA PlacedFits ==
  ASSUME NEW r, NEW from \in Nat, ReplayFits(r, from),
         NEW t0 \in Nat, from <= t0, NEW wait \in Nat,
         NEW segs \in Seq(Segs), NEW offered \in SUBSET Tiers,
         \A k, l \in DOMAIN segs : segs[k].tier = segs[l].tier => k = l,
         \/ PoolFree(PoolTick(r.hbm, t0), C_HBM)
         \/ \A k \in DOMAIN segs : segs[k].tier # "hbm",
         \/ PoolFree(PoolTick(r.cpu, t0), C_CPU)
         \/ \A k \in DOMAIN segs : segs[k].tier # "cpu"
  PROVE  ReplayFits(Placed(Ticked(r, t0), t0, wait, segs, offered), t0)
<1> DEFINE row == [t0 |-> t0, wait |-> wait, segs |-> segs, offered |-> offered]
           i == Len(r.rows) + 1
           new == Placed(Ticked(r, t0), t0, wait, segs, offered)
<1>1. /\ row \in Decisions /\ row.t0 = t0 /\ row.segs = segs
  BY DEF Decisions
<1>2. /\ DOMAIN new = Fields
      /\ new.rows = Append(r.rows, row)
      /\ new.hbm = PoolTick(r.hbm, t0) \cup Slots(row, "hbm", i)
      /\ new.cpu = PoolTick(r.cpu, t0) \cup Slots(row, "cpu", i)
  BY DEF Placed, Ticked, ReplayFits, Fields
<1>3. C_HBM \in Nat /\ C_CPU \in Nat
  BY TierPoolAssumption
<1>4. /\ r.rows \in Seq(Decisions)
      /\ Fits(r.rows, "hbm", C_HBM, r.hbm, from) /\ Fits(r.rows, "cpu", C_CPU, r.cpu, from)
  BY DEF ReplayFits
<1>5. /\ IsFiniteSet(r.hbm) /\ Cardinality(r.hbm) <= C_HBM
      /\ IsFiniteSet(r.cpu) /\ Cardinality(r.cpu) <= C_CPU
  BY <1>4 DEF Fits
<1> HIDE DEF row, new, i
<1>a. \A k, l \in DOMAIN row.segs : row.segs[k].tier = row.segs[l].tier => k = l
  BY <1>1
<1>b. \/ PoolFree(PoolTick(r.hbm, t0), C_HBM)
      \/ \A k \in DOMAIN row.segs : row.segs[k].tier # "hbm"
  BY <1>1
<1>c. \/ PoolFree(PoolTick(r.cpu, t0), C_CPU)
      \/ \A k \in DOMAIN row.segs : row.segs[k].tier # "cpu"
  BY <1>1
<1>6. IsFiniteSet(new.hbm) /\ Cardinality(new.hbm) <= C_HBM
  <2>1. LET slots == PoolTick(r.hbm, t0) \cup Slots(row, "hbm", i)
        IN IsFiniteSet(slots) /\ Cardinality(slots) <= C_HBM
    BY <1>3, <1>5, <1>a, <1>b, SlotsFit, Zenon
  <2> QED
    BY <1>2, <2>1, Zenon
<1>7. IsFiniteSet(new.cpu) /\ Cardinality(new.cpu) <= C_CPU
  <2>1. LET slots == PoolTick(r.cpu, t0) \cup Slots(row, "cpu", i)
        IN IsFiniteSet(slots) /\ Cardinality(slots) <= C_CPU
    BY <1>3, <1>5, <1>a, <1>c, SlotsFit, Zenon
  <2> QED
    BY <1>2, <2>1, Zenon
<1>8. Fits(new.rows, "hbm", C_HBM, new.hbm, t0)
  <2>1. new.hbm = PoolTick(r.hbm, row.t0) \cup Slots(row, "hbm", Len(r.rows) + 1)
    BY <1>1, <1>2 DEF i
  <2>2. Fits(Append(r.rows, row), "hbm", C_HBM, new.hbm, row.t0)
    BY <1>1, <1>3, <1>4, <1>6, <2>1, RowAdded
  <2> QED
    BY <1>1, <1>2, <2>2, Zenon
<1>9. Fits(new.rows, "cpu", C_CPU, new.cpu, t0)
  <2>1. new.cpu = PoolTick(r.cpu, row.t0) \cup Slots(row, "cpu", Len(r.rows) + 1)
    BY <1>1, <1>2 DEF i
  <2>2. Fits(Append(r.rows, row), "cpu", C_CPU, new.cpu, row.t0)
    BY <1>1, <1>3, <1>4, <1>7, <2>1, RowAdded
  <2> QED
    BY <1>1, <1>2, <2>2, Zenon
<1>10. new.rows \in Seq(Decisions)
  BY <1>1, <1>2, <1>4
<1> QED
  BY <1>2, <1>8, <1>9, <1>10 DEF ReplayFits, new

\* One turn of the loop, admission or demotion, keeps both pools within capacity.
LEMMA TurnFits ==
  ASSUME NEW r, NEW from \in Nat, ReplayFits(r, from),
         NEW t0 \in Nat, from <= t0, NEW wait \in Nat, NEW fn,
         \A ts \in Offers : fn[ts] \in Seq(Nat) /\ Len(fn[ts]) <= ts.n
  PROVE  ReplayFits(Turn(r, fn, t0, wait), t0)
<1> DEFINE u == Ticked(r, t0)
<1>1. u.hbm = PoolTick(r.hbm, t0) /\ u.cpu = PoolTick(r.cpu, t0)
  BY DEF Ticked, ReplayFits, Fields
<1> HIDE DEF u
<1>2. CASE PoolFree(u.hbm, C_HBM)
  <2> DEFINE ts == IF PoolFree(u.cpu, C_CPU) THEN TS_FULL ELSE TS_HBM_DISCARD
             segs == Segments(ts, fn[ts], wait)
             offered == {ts.names[k] : k \in 0 .. ts.n}
  <2>1. ts \in Offers
    BY DEF Offers
  <2>2. /\ ~PoolFree(u.cpu, C_CPU) => ts = TS_HBM_DISCARD
    OBVIOUS
  <2> HIDE DEF ts
  <2>3. /\ ts.n \in Nat
        /\ \A k \in 0 .. ts.n : ts.names[k] \in Tiers
        /\ \A k, l \in 0 .. ts.n : ts.names[k] = ts.names[l] => k = l
        /\ ts = TS_HBM_DISCARD => \A k \in 0 .. ts.n : ts.names[k] # "cpu"
    BY <2>1, OffersTyped
  <2>4. /\ segs \in Seq(Segs)
        /\ DOMAIN segs \subseteq 1 .. ts.n + 1
        /\ \A k \in DOMAIN segs : segs[k].tier = ts.names[k - 1]
    BY <2>1, SegmentsTyped
  <2>5. offered \in SUBSET Tiers
    BY <2>3
  <2> HIDE DEF segs, offered
  <2>6. \A k \in DOMAIN segs : k \in Int /\ k - 1 \in 0 .. ts.n
    BY <2>3, <2>4
  <2>7. \A k, l \in DOMAIN segs : segs[k].tier = segs[l].tier => k = l
    <3> SUFFICES ASSUME NEW k \in DOMAIN segs, NEW l \in DOMAIN segs,
                        segs[k].tier = segs[l].tier
                 PROVE  k = l
      OBVIOUS
    <3>1. k - 1 = l - 1
      BY <2>3, <2>4, <2>6
    <3> QED
      BY <2>6, <3>1
  <2>8. PoolFree(u.cpu, C_CPU) \/ \A k \in DOMAIN segs : segs[k].tier # "cpu"
    BY <2>2, <2>3, <2>4, <2>6
  <2>9. ReplayFits(Placed(u, t0, wait, segs, offered), t0)
    BY <1>1, <1>2, <2>4, <2>5, <2>7, <2>8, PlacedFits DEF u
  <2>10. Turn(r, fn, t0, wait) = Admitted(u, fn, t0, wait)
    BY <1>2 DEF Turn, u
  <2>11. Admitted(u, fn, t0, wait) = Placed(u, t0, wait, segs, offered)
    BY DEF Admitted, ts, segs, offered
  <2> QED
    BY <2>9, <2>10, <2>11
<1>3. CASE ~PoolFree(u.hbm, C_HBM)
  <2> DEFINE tier == IF PoolFree(u.cpu, C_CPU) THEN "cpu" ELSE "discard"
             segs == <<Seg(tier, 0, wait)>>
             placed == Placed(u, t0, wait, segs, {tier})
  <2>1. /\ tier \in Tiers /\ tier # "hbm"
        /\ PoolFree(u.cpu, C_CPU) \/ tier # "cpu"
    BY DEF Tiers
  <2> HIDE DEF tier
  <2>2. Seg(tier, 0, wait) \in Segs /\ Seg(tier, 0, wait).tier = tier
    BY <2>1, SegTyped
  <2>3. /\ segs \in Seq(Segs) /\ DOMAIN segs = {1} /\ segs[1].tier = tier
    BY <2>2
  <2> HIDE DEF segs
  <2>4. ReplayFits(placed, t0)
    BY <1>1, <2>1, <2>3, PlacedFits DEF u
  <2>5. Turn(r, fn, t0, wait) = [placed EXCEPT !.forced = @ \cup {Len(u.rows) + 1}]
    BY <1>3 DEF Turn, u, Demoted, tier, segs
  <2> HIDE DEF placed
  <2> QED
    BY <2>4, <2>5 DEF ReplayFits, Fields
<1> QED
  BY <1>2, <1>3

-----------------------------------------------------------------------------
(* What the policies hand to the replay.                                   *)

\* Both offers are tier systems as policy.py demands, with one step that saves rent.
LEMMA OffersValid ==
  ASSUME NEW ts \in Offers
  PROVE  /\ Valid(ts)
         /\ ts.n \in {1, 2}
         /\ ts.n = 2 => ts = TS_FULL
         /\ step_a(ts, 0) > 0
         /\ ts.n = 2 => step_a(ts, 1) = 0
<1>1. /\ ALPHA_HBM_B \in Nat \ {0} /\ BETA_CPU_B \in Nat /\ BETA_DISCARD_B \in Nat
      /\ BETA_CPU_B <= BETA_DISCARD_B
  BY TierPoolAssumption
<1>2. CASE ts = TS_FULL
  <2>1. /\ ts.n = 2
        /\ ts.alpha = [k \in 0 .. 2 |-> <<ALPHA_HBM_B, 0, 0>>[k + 1]]
        /\ ts.beta = [k \in 0 .. 2 |-> <<0, BETA_CPU_B, BETA_DISCARD_B>>[k + 1]]
    BY <1>2 DEF TS_FULL, NewTierSystem, FromZero
  <2>2. /\ ts.alpha[0] = ALPHA_HBM_B /\ ts.alpha[1] = 0 /\ ts.alpha[2] = 0
        /\ ts.beta[0] = 0 /\ ts.beta[1] = BETA_CPU_B /\ ts.beta[2] = BETA_DISCARD_B
        /\ DOMAIN ts.alpha = 0 .. 2 /\ DOMAIN ts.beta = 0 .. 2
    BY <2>1
  <2>3. \A k \in 0 .. 2 : k = 0 \/ k = 1 \/ k = 2
    OBVIOUS
  <2>4. ts.alpha \in [0 .. 2 -> Nat] /\ ts.beta \in [0 .. 2 -> Nat]
    <3>1. \A k \in 0 .. 2 : ts.alpha[k] \in Nat /\ ts.beta[k] \in Nat
      BY <1>1, <2>2, <2>3
    <3>2. ts.alpha = [k \in 0 .. 2 |-> ts.alpha[k]] /\ ts.beta = [k \in 0 .. 2 |-> ts.beta[k]]
      BY <2>1
    <3> QED
      BY <3>1, <3>2
  <2>5. \A j, k \in 0 .. 2 :
          j <= k => ts.alpha[j] >= ts.alpha[k] /\ ts.beta[j] <= ts.beta[k]
    BY <1>1, <2>2, <2>3
  <2> QED
    BY <1>1, <1>2, <2>1, <2>2, <2>4, <2>5 DEF Valid, step_a
<1>3. CASE ts = TS_HBM_DISCARD
  <2>1. /\ ts.n = 1
        /\ ts.alpha = [k \in 0 .. 1 |-> <<ALPHA_HBM_B, 0>>[k + 1]]
        /\ ts.beta = [k \in 0 .. 1 |-> <<0, BETA_DISCARD_B>>[k + 1]]
    BY <1>3 DEF TS_HBM_DISCARD, NewTierSystem, FromZero
  <2>2. /\ ts.alpha[0] = ALPHA_HBM_B /\ ts.alpha[1] = 0
        /\ ts.beta[0] = 0 /\ ts.beta[1] = BETA_DISCARD_B
    BY <2>1
  <2>3. \A k \in 0 .. 1 : k = 0 \/ k = 1
    OBVIOUS
  <2>4. ts.alpha \in [0 .. 1 -> Nat] /\ ts.beta \in [0 .. 1 -> Nat]
    <3>1. \A k \in 0 .. 1 : ts.alpha[k] \in Nat /\ ts.beta[k] \in Nat
      BY <1>1, <2>2, <2>3
    <3>2. ts.alpha = [k \in 0 .. 1 |-> ts.alpha[k]] /\ ts.beta = [k \in 0 .. 1 |-> ts.beta[k]]
      BY <2>1
    <3> QED
      BY <3>1, <3>2
  <2>5. \A j, k \in 0 .. 1 :
          j <= k => ts.alpha[j] >= ts.alpha[k] /\ ts.beta[j] <= ts.beta[k]
    BY <1>1, <2>2, <2>3
  <2> QED
    BY <1>1, <1>3, <2>1, <2>2, <2>4, <2>5 DEF Valid, step_a
<1> QED
  BY <1>2, <1>3 DEF Offers

\* On either offer online_det makes the one switch that saves rent.
LEMMA DetOnOffers ==
  ASSUME NEW ts \in Offers
  PROVE  DetSchedules(ts) # {}
<1> DEFINE s == [k \in 1 .. 1 |-> BreakEven(ts, 0)]
<1>1. /\ Valid(ts) /\ ts.n \in {1, 2} /\ step_a(ts, 0) > 0
      /\ ts.n = 2 => step_a(ts, 1) = 0
  BY OffersValid
<1>2. 1 \in DetLengths(ts)
  <2>1. \A j \in 0 .. 1 - 1 : j = 0
    OBVIOUS
  <2> QED
    BY <1>1, <2>1 DEF DetLengths
<1>3. BreakEven(ts, 0) \in Int
  <2>1. 0 \in 0 .. ts.n /\ 0 + 1 \in 0 .. ts.n
    BY <1>1
  <2>2. step_a(ts, 0) \in Nat /\ step_b(ts, 0) \in Nat
    BY <1>1, <2>1, NeighbourStates DEF step_a, step_b
  <2> QED
    BY <1>1, <2>2 DEF BreakEven
<1>4. s \in [1 .. 1 -> {BreakEven(ts, j) : j \in 0 .. 1 - 1}]
  OBVIOUS
<1>5. Len(s) = 1 /\ \A k \in 1 .. Len(s) : k = 1 /\ s[k] = BreakEven(ts, 0)
  OBVIOUS
<1>6. \A j \in 0 .. 1 - 1 : j = 0
  OBVIOUS
<1> HIDE DEF s
<1>7. \A k \in 1 .. Len(s) : /\ \E j \in 0 .. k - 1 : s[k] = BreakEven(ts, j)
                            /\ \A j \in 0 .. k - 1 : s[k] >= BreakEven(ts, j)
  BY <1>3, <1>5, <1>6
<1>8. s \in DetSchedules(ts)
  BY <1>2, <1>4, <1>7 DEF DetSchedules
<1> QED
  BY <1>8

\* Beyond the critical load cpu_ttl discards after a natural time.
LEMMA DemotionTime ==
  ASSUME NEW mult \in {1, 2}, sched_ac(mult) > 0
  PROVE  t2(mult) \in Nat
<1>1. /\ BETA_CPU_B \in Nat /\ BETA_DISCARD_B \in Nat /\ BETA_CPU_B <= BETA_DISCARD_B
      /\ W_REF \in Nat
  BY TierPoolAssumption, EvaluationAssumption
<1>2. mult = 2
  <2>1. mult = 1 => sched_ac(mult) = 0
    BY <1>1 DEF sched_ac
  <2> QED
    BY <2>1
<1>3. sched_ac(mult) = BETA_DISCARD_B
  BY <1>1, <1>2 DEF sched_ac
<1>4. (BETA_DISCARD_B - BETA_CPU_B) \in Nat
  BY <1>1
<1>5. (BETA_DISCARD_B - BETA_CPU_B) * W_REF \in Nat
  BY <1>1, <1>4
<1> QED
  BY <1>1, <1>3, <1>5 DEF t2

\* Every policy hands the admission layer natural switch times, at most one per
\* transition of the offer.
LEMMA SwitchesTyped ==
  ASSUME NEW policy \in Policies, NEW ts \in Offers, NEW wait \in Nat, NEW c \in Chances
  PROVE  LET s == Switches(policy, ts, wait, c) IN s \in Seq(Nat) /\ Len(s) <= ts.n
<1> DEFINE s == Switches(policy, ts, wait, c)
           Ok == s \in Seq(Nat) /\ Len(s) <= ts.n
<1>1. Valid(ts) /\ ts.n \in {1, 2}
  BY OffersValid
<1>2. c.pred \in Nat /\ c.drawn \in Seq(Nat)
  BY EvaluationAssumption
<1>3. \A w \in Nat : opt_state(ts, w) \in 0 .. ts.n
  BY <1>1, OptStateIsBest
<1>4. \A n \in 0 .. ts.n : AtOnce(n) \in Seq(Nat) /\ Len(AtOnce(n)) <= ts.n
  BY <1>1, AtOnceSchedule DEF Schedule
<1>5. CASE policy \in {"always_pin", "always_cpu"}
  BY <1>1, <1>5 DEF Switches
<1>6. CASE policy \in {"always_discard", "opt", "ftp"}
  BY <1>1, <1>2, <1>3, <1>4, <1>6 DEF Switches
<1>7. CASE policy = "online_det"
  <2>1. s = CHOOSE d \in DetSchedules(ts) : TRUE
    BY <1>7 DEF Switches
  <2>2. s \in DetSchedules(ts)
    BY <2>1, DetOnOffers
  <2> QED
    BY <1>1, <2>2, DetSchedule DEF Schedule
<1>8. CASE policy = "online_rand"
  <2> DEFINE m == Min({Len(c.drawn), ts.n})
  <2>1. s = SubSeq(c.drawn, 1, m)
    BY <1>8 DEF Switches
  <2>2. Len(c.drawn) \in Nat /\ ts.n \in Nat
    BY <1>1, <1>2
  <2>3. m \in Nat /\ m <= Len(c.drawn) /\ m <= ts.n
    <3> DEFINE T == {Len(c.drawn), ts.n}
    <3>1. PICK k \in T : \A l \in T : k <= l
      BY <2>2
    <3>2. Min(T) \in T /\ \A l \in T : Min(T) <= l
      BY <3>1 DEF Min
    <3> QED
      BY <2>2, <3>2
  <2> HIDE DEF m, s
  <2>4. Len(s) = m
    BY <1>2, <2>1, <2>2, <2>3
  <2>5. s \in Seq(Nat)
    BY <1>2, <2>1, <2>2, <2>3
  <2> QED
    BY <2>3, <2>4, <2>5 DEF s
<1>9. CASE policy \in {"ttl_0", "ttl", "ttl_inf"}
  <2>1. Tau \in Nat
    BY EvaluationAssumption
  <2> QED
    BY <1>1, <1>9, <2>1 DEF Switches, ttl, Infinity
<1>10. CASE policy \in {"cpu_ttl_x1", "cpu_ttl_x2"}
  <2>1. PICK mult \in {1, 2} : s = cpu_ttl(mult, ts)
    BY <1>10 DEF Switches
  <2>2. CASE ts.n = 2 /\ sched_ac(mult) > 0
    BY <2>1, <2>2, DemotionTime DEF cpu_ttl
  <2>3. CASE ~(ts.n = 2 /\ sched_ac(mult) > 0)
    BY <1>1, <2>1, <2>3 DEF cpu_ttl
  <2> QED
    BY <2>2, <2>3
<1> QED
  BY <1>5, <1>6, <1>7, <1>8, <1>9, <1>10 DEF Policies

-----------------------------------------------------------------------------
(* The policies.                                                           *)

PoliciesInv ==
  /\ now \in Nat
  /\ DOMAIN replays = Policies
  /\ \A policy \in Policies : ReplayFits(replays[policy], now)

\* The empty timeline is within every capacity.
LEMMA NothingFits ==
  ASSUME NEW tier, NEW cap \in Nat, NEW time
  PROVE  Fits(<< >>, tier, cap, {}, time)
<1>1. IsFiniteSet({}) /\ Cardinality({}) = 0
  BY FS_EmptySet
<1>2. \A t \in Nat : Occupancy(<< >>, tier, t) = 0
  <2> SUFFICES ASSUME NEW t \in Nat PROVE Occupancy(<< >>, tier, t) = 0
    OBVIOUS
  <2>1. {i \in DOMAIN << >> : InTier((<< >>)[i], tier, t)} = {}
    OBVIOUS
  <2> QED
    BY <1>1, <2>1, Zenon DEF Occupancy
<1>3. Holds(<< >>, tier, {}, time)
  BY DEF Holds
<1> QED
  BY <1>1, <1>2, <1>3 DEF Fits

\* The replays start empty.
LEMMA PoliciesInit == EvaluationInit => PoliciesInv
<1> SUFFICES ASSUME EvaluationInit PROVE PoliciesInv
  OBVIOUS
<1>1. C_HBM \in Nat /\ C_CPU \in Nat
  BY TierPoolAssumption
<1>2. ReplayFits(NewReplay, 0)
  <2>1. /\ DOMAIN NewReplay = Fields
        /\ NewReplay.rows = << >> /\ NewReplay.hbm = {} /\ NewReplay.cpu = {}
    BY DEF NewReplay, Fields
  <2>2. NewReplay.rows \in Seq(Decisions)
    BY <2>1
  <2>3. Fits(<< >>, "hbm", C_HBM, {}, 0) /\ Fits(<< >>, "cpu", C_CPU, {}, 0)
    BY <1>1, NothingFits
  <2> QED
    BY <2>1, <2>2, <2>3 DEF ReplayFits
<1> QED
  BY <1>2 DEF EvaluationInit, Init, PoliciesInv

\* An arrival takes every policy through one turn.
LEMMA PoliciesStep == PoliciesInv /\ [EvaluationNext]_<<vars, replays>> => PoliciesInv'
<1> SUFFICES ASSUME PoliciesInv, [EvaluationNext]_<<vars, replays>> PROVE PoliciesInv'
  OBVIOUS
<1>1. CASE TraceEnds
  BY <1>1 DEF TraceEnds, Drain, PoliciesInv
<1>2. ASSUME NEW gap \in Gaps, NEW wait \in Waits, NEW c \in Chances, Replayed(gap, wait, c)
      PROVE  PoliciesInv'
  <2>1. gap \in Nat /\ wait \in Nat /\ now \in Nat
    BY MoriAssumption DEF PoliciesInv
  <2>2. now' = now + gap
    BY <1>2 DEF Replayed, Arrive
  <2>3. now' \in Nat /\ now <= now'
    BY <2>1, <2>2
  <2>4. ASSUME NEW policy \in Policies
        PROVE  ReplayFits(replays'[policy], now')
    <3> DEFINE fn == [ts \in Offers |-> Switches(policy, ts, wait, c)]
    <3>1. replays'[policy] = Turn(replays[policy], fn, now', wait)
      BY <1>2, <2>2 DEF Replayed
    <3>2. \A ts \in Offers : fn[ts] \in Seq(Nat) /\ Len(fn[ts]) <= ts.n
      BY <2>1, SwitchesTyped
    <3>3. ReplayFits(replays[policy], now)
      BY DEF PoliciesInv
    <3> HIDE DEF fn
    <3> QED
      BY <2>1, <2>3, <3>1, <3>2, <3>3, TurnFits
  <2> QED
    BY <1>2, <2>3, <2>4 DEF Replayed, PoliciesInv
<1>3. CASE UNCHANGED <<vars, replays>>
  BY <1>3 DEF PoliciesInv, vars
<1> QED
  BY <1>1, <1>2, <1>3 DEF EvaluationNext

\* Occupancy bounded at every time is occupancy bounded where segments start.
LEMMA BoundedFits ==
  ASSUME NEW info, NEW tier, NEW cap,
         \A i \in DOMAIN info : Dated(info[i]),
         \A t \in Nat : Occupancy(info, tier, t) <= cap
  PROVE  FitsInto(info, tier, cap)
<1> SUFFICES ASSUME NEW i \in DOMAIN info, NEW k \in DOMAIN info[i].segs
             PROVE  Occupancy(info, tier, info[i].t0 + info[i].segs[k].at) <= cap
  BY DEF FitsInto
<1>1. info[i].t0 + info[i].segs[k].at \in Nat
  BY DEF Dated
<1> QED
  BY <1>1

-----------------------------------------------------------------------------
(* The MORI baseline.                                                      *)

MoriRows == [t0 : Nat, wait : Nat, segs : Seq(Segs)]

BelievedAll(info) == [i \in DOMAIN info |-> Believed(info[i])]

StaysIn(row) == [row EXCEPT !.segs = <<Seg("hbm", 0, row.wait)>>]

Distinct(queue) == \A k, l \in DOMAIN queue : queue[k] = queue[l] => k = l

\* The contexts of the deque are unresolved, and nobody else is in HBM any more
QueueInv(info, queue, time) ==
  /\ queue \in Seq(DOMAIN info) /\ Distinct(queue)
  /\ \A k \in DOMAIN queue : info[queue[k]].segs = << >>
  /\ \A j \in DOMAIN info : j \notin {queue[k] : k \in DOMAIN queue} =>
        /\ info[j].segs # << >>
        /\ \A k \in DOMAIN info[j].segs :
             info[j].segs[k].tier = "hbm" => Leaves(info[j], info[j].segs[k]) <= time

\* The deque read as a heap
QueueHeap(info, queue) == {<<End(info[queue[k]]), queue[k]>> : k \in DOMAIN queue}

\* Waits end at natural times.
LEMMA WaitEnds ==
  ASSUME NEW row \in MoriRows
  PROVE  End(row) \in Nat
BY DEF MoriRows, End

\* Segments end at whole times.
LEMMA RowLeaves ==
  ASSUME NEW row \in MoriRows, NEW k \in DOMAIN row.segs
  PROVE  Leaves(row, row.segs[k]) \in Int
<1>1. row.t0 \in Nat /\ row.segs \in Seq(Segs)
  BY DEF MoriRows
<1>2. row.segs[k] \in Segs
  BY <1>1
<1> QED
  BY <1>1, <1>2 DEF Leaves, Segs

\* What an unresolved row stands for: in HBM for the whole wait.
LEMMA BelievedRow ==
  ASSUME NEW row \in MoriRows
  PROVE  /\ row.segs = << >> => Believed(row) = StaysIn(row)
         /\ row.segs # << >> => Believed(row) = row
         /\ StaysIn(row) \in MoriRows
         /\ StaysIn(row).t0 = row.t0 /\ StaysIn(row).wait = row.wait
         /\ DOMAIN StaysIn(row).segs = {1} /\ StaysIn(row).segs # << >>
         /\ StaysIn(row).segs[1].tier = "hbm"
         /\ StaysIn(row).segs[1].at = 0
         /\ StaysIn(row).segs[1].dur = row.wait
         /\ Leaves(StaysIn(row), StaysIn(row).segs[1]) = End(row)
         /\ Dated(Believed(row))
         /\ Believed(row).t0 = row.t0 /\ Believed(row).wait = row.wait
<1>1. row.t0 \in Nat /\ row.wait \in Nat /\ row.segs \in Seq(Segs)
  BY DEF MoriRows
<1>2. row.segs = << >> => Believed(row) = StaysIn(row)
  BY DEF Believed, StaysIn
<1>3. row.segs # << >> => Believed(row) = row
  BY DEF Believed
<1>4. Seg("hbm", 0, row.wait) \in Segs
  BY <1>1 DEF Seg, Segs, Tiers
<1>5. <<Seg("hbm", 0, row.wait)>> \in Seq(Segs)
  BY <1>4
<1>6. /\ StaysIn(row) \in MoriRows
      /\ StaysIn(row).t0 = row.t0 /\ StaysIn(row).wait = row.wait
      /\ StaysIn(row).segs = <<Seg("hbm", 0, row.wait)>>
  BY <1>5 DEF MoriRows, StaysIn
<1>7. /\ DOMAIN StaysIn(row).segs = {1} /\ StaysIn(row).segs # << >>
      /\ StaysIn(row).segs[1] = Seg("hbm", 0, row.wait)
  BY <1>6
<1>8. /\ StaysIn(row).segs[1].tier = "hbm"
      /\ StaysIn(row).segs[1].at = 0
      /\ StaysIn(row).segs[1].dur = row.wait
  BY <1>7 DEF Seg
<1>9. Leaves(StaysIn(row), StaysIn(row).segs[1]) = End(row)
  BY <1>1, <1>6, <1>8 DEF Leaves, End
<1>10. Dated(StaysIn(row))
  BY <1>1, <1>6, <1>7, <1>8 DEF Dated
<1>11. row.segs # << >> => Dated(row)
  <2>1. \A k \in DOMAIN row.segs : row.segs[k] \in Segs
    BY <1>1
  <2> QED
    BY <1>1, <2>1 DEF Dated, Segs
<1>12. Believed(row) = StaysIn(row) \/ Believed(row) = row
  BY <1>2, <1>3
<1>13. Dated(Believed(row))
  BY <1>2, <1>3, <1>10, <1>11
<1> QED
  BY <1>2, <1>3, <1>6, <1>7, <1>8, <1>9, <1>12, <1>13

\* A context that resumes leaves HBM when its wait is over.
LEMMA ResumedRow ==
  ASSUME NEW row \in MoriRows
  PROVE  Resolve(row, End(row), "hbm") = StaysIn(row)
<1>1. row.t0 \in Nat /\ row.wait \in Nat
  BY DEF MoriRows
<1>2. End(row) - row.t0 = row.wait /\ row.wait <= row.wait /\ row.wait - row.wait <= 0
  BY <1>1 DEF End
<1> QED
  BY <1>1, <1>2 DEF Resolve, StaysIn

\* The deque has a slot for everyone in HBM.
LEMMA QueueHolds ==
  ASSUME NEW info \in Seq(MoriRows), NEW queue, NEW time \in Nat, QueueInv(info, queue, time)
  PROVE  /\ Holds(BelievedAll(info), "hbm", QueueHeap(info, queue), time)
         /\ IsFiniteSet(QueueHeap(info, queue))
         /\ Cardinality(QueueHeap(info, queue)) <= Len(queue)
<1> DEFINE all == BelievedAll(info)
           heap == QueueHeap(info, queue)
<1>0. /\ Len(queue) \in Nat /\ DOMAIN queue = 1 .. Len(queue)
      /\ \A k \in DOMAIN queue : queue[k] \in DOMAIN info
      /\ \A j \in DOMAIN info : info[j] \in MoriRows
      /\ DOMAIN all = DOMAIN info
      /\ \A j \in DOMAIN info : all[j] = Believed(info[j])
  BY DEF QueueInv, BelievedAll
<1> HIDE DEF all
<1>1. Holds(all, "hbm", heap, time)
  <2> SUFFICES ASSUME NEW j \in DOMAIN all, NEW k \in DOMAIN all[j].segs,
                      all[j].segs[k].tier = "hbm", Leaves(all[j], all[j].segs[k]) > time
               PROVE  <<Leaves(all[j], all[j].segs[k]), j>> \in heap
    BY DEF Holds
  <2>1. j \in DOMAIN info /\ info[j] \in MoriRows /\ all[j] = Believed(info[j])
    BY <1>0
  <2>2. CASE j \in {queue[l] : l \in DOMAIN queue}
    <3>1. PICK l \in DOMAIN queue : queue[l] = j
      BY <2>2
    <3>2. all[j] = StaysIn(info[j])
      BY <2>1, <3>1, BelievedRow DEF QueueInv
    <3>3. k = 1 /\ Leaves(all[j], all[j].segs[k]) = End(info[j])
      BY <2>1, <3>2, BelievedRow
    <3> QED
      BY <3>1, <3>3 DEF QueueHeap
  <2>3. CASE j \notin {queue[l] : l \in DOMAIN queue}
    <3>1. info[j].segs # << >>
      BY <2>1, <2>3 DEF QueueInv
    <3>2. all[j] = info[j]
      BY <2>1, <3>1, BelievedRow
    <3>3. Leaves(info[j], info[j].segs[k]) <= time
      BY <2>1, <2>3, <3>2 DEF QueueInv
    <3>4. Leaves(info[j], info[j].segs[k]) \in Int
      <4>1. Dated(all[j])
        BY <2>1, BelievedRow
      <4> QED
        BY <3>2, <4>1 DEF Dated, Leaves
    <3> QED
      BY <3>2, <3>3, <3>4
  <2> QED
    BY <2>2, <2>3
<1>2. IsFiniteSet(heap) /\ Cardinality(heap) <= Len(queue)
  <2> DEFINE slot == [k \in 1 .. Len(queue) |-> <<End(info[queue[k]]), queue[k]>>]
  <2>1. slot \in Surjection(1 .. Len(queue), heap)
    BY <1>0 DEF Surjection, QueueHeap
  <2>2. IsFiniteSet(1 .. Len(queue)) /\ Cardinality(1 .. Len(queue)) = Len(queue)
    <3>1. 1 \in Int /\ Len(queue) \in Int
      BY <1>0
    <3>2. Cardinality(1 .. Len(queue)) = IF 1 > Len(queue) THEN 0 ELSE Len(queue) - 1 + 1
      BY <3>1, FS_Interval
    <3>3. IsFiniteSet(1 .. Len(queue))
      BY <3>1, FS_Interval
    <3> QED
      BY <1>0, <3>2, <3>3
  <2> HIDE DEF slot, heap
  <2> QED
    BY <2>1, <2>2, FS_Surjection
<1> QED
  BY <1>1, <1>2 DEF all

EvictedAt(row, new, time, tier) ==
  /\ new \in MoriRows /\ new.t0 = row.t0 /\ new.wait = row.wait
  /\ new.segs # << >>
  /\ \A t \in Nat : t < time =>
        \A any \in {"hbm", "cpu"} : InTier(new, any, t) <=> InTier(StaysIn(row), any, t)
  /\ \A k \in DOMAIN new.segs :
        /\ new.segs[k].tier = "hbm" => Leaves(new, new.segs[k]) <= time
        /\ new.segs[k].tier = "cpu" => /\ Leaves(new, new.segs[k]) = End(row)
                                       /\ EndTier(new) = "cpu"
  /\ EndTier(new) = "cpu" => tier = "cpu"

\* A context that is evicted was in HBM until then, at most, and is in DRAM from
\* then on, until its wait is over.
LEMMA EvictedRow ==
  ASSUME NEW row \in MoriRows, NEW time \in Nat, row.t0 <= time,
         NEW tier \in {"cpu", "discard"}
  PROVE  EvictedAt(row, Resolve(row, time, tier), time, tier)
<1> DEFINE new == Resolve(row, time, tier)
           dur == IF time - row.t0 <= row.wait THEN time - row.t0 ELSE row.wait
           rest == row.wait - dur
           stay == StaysIn(row)
<1>1. row.t0 \in Nat /\ row.wait \in Nat
  BY DEF MoriRows
<1>2. /\ dur \in Nat /\ rest \in Nat /\ row.t0 + dur <= time
      /\ dur + rest = row.wait
      /\ rest > 0 => row.t0 + dur = time
  BY <1>1
<1>3. new = [row EXCEPT !.segs = IF rest <= 0 THEN <<Seg("hbm", 0, dur)>>
                                 ELSE <<Seg("hbm", 0, dur), Seg(tier, dur, rest)>>]
  BY DEF Resolve
<1> HIDE DEF new, dur, rest
<1>4. /\ stay.t0 = row.t0 /\ DOMAIN stay.segs = {1}
      /\ stay.segs[1].tier = "hbm" /\ stay.segs[1].at = 0 /\ stay.segs[1].dur = row.wait
  BY BelievedRow
<1> HIDE DEF stay
<1>5. ASSUME rest <= 0 PROVE EvictedAt(row, new, time, tier)
  <2>1. /\ new.t0 = row.t0 /\ new.wait = row.wait /\ new.segs = <<Seg("hbm", 0, dur)>>
        /\ DOMAIN new = DOMAIN row
    BY <1>3, <1>5 DEF MoriRows
  <2>2. rest = 0 /\ dur = row.wait
    BY <1>1, <1>2, <1>5
  <2>3. new = StaysIn(row)
    BY <1>3, <1>5, <2>2 DEF StaysIn
  <2>4. /\ DOMAIN new.segs = {1} /\ Len(new.segs) = 1
        /\ new.segs[1].tier = "hbm" /\ new.segs[1].at = 0 /\ new.segs[1].dur = dur
    BY <2>1 DEF Seg
  <2>5. EndTier(new) = "hbm"
    BY <2>4 DEF EndTier, Last
  <2>6. Leaves(new, new.segs[1]) <= time
    BY <1>1, <1>2, <2>1, <2>4 DEF Leaves
  <2>7. new \in MoriRows
    BY <2>3, BelievedRow
  <2>8. new.segs # << >>
    BY <2>1
  <2>9. \A t \in Nat : \A any : InTier(new, any, t) <=> InTier(StaysIn(row), any, t)
    BY <2>3, Zenon
  <2> QED
    BY <2>1, <2>4, <2>5, <2>6, <2>7, <2>8, <2>9 DEF EvictedAt
<1>6. ASSUME rest > 0 PROVE EvictedAt(row, new, time, tier)
  <2>1. /\ new.t0 = row.t0 /\ new.wait = row.wait
        /\ new.segs = <<Seg("hbm", 0, dur), Seg(tier, dur, rest)>>
    BY <1>2, <1>3, <1>6 DEF MoriRows
  <2>2. /\ DOMAIN new.segs = 1 .. 2 /\ Len(new.segs) = 2
        /\ new.segs[1].tier = "hbm" /\ new.segs[1].at = 0 /\ new.segs[1].dur = dur
        /\ new.segs[2].tier = tier /\ new.segs[2].at = dur /\ new.segs[2].dur = rest
    BY <2>1 DEF Seg
  <2>3. EndTier(new) = tier
    BY <2>2 DEF EndTier, Last
  <2>4. Leaves(new, new.segs[1]) = time /\ Leaves(new, new.segs[2]) = End(row)
    BY <1>1, <1>2, <1>6, <2>1, <2>2 DEF Leaves, End
  <2>5. Seg("hbm", 0, dur) \in Segs /\ Seg(tier, dur, rest) \in Segs
    BY <1>2 DEF Seg, Segs, Tiers
  <2>6. new \in MoriRows
    <3>1. new.segs \in Seq(Segs)
      BY <2>1, <2>5
    <3>2. new = [row EXCEPT !.segs = new.segs]
      BY <1>2, <1>3, <1>6, <2>1
    <3> QED
      BY <3>1, <3>2 DEF MoriRows
  <2>7. new.segs # << >>
    BY <2>1
  <2>8. \A k \in DOMAIN new.segs : k = 1 \/ k = 2
    BY <2>2
  <2>9. ASSUME NEW t \in Nat, t < time, NEW any \in {"hbm", "cpu"}
        PROVE  InTier(new, any, t) <=> InTier(StaysIn(row), any, t)
    <3>1. InTier(new, any, t) <=> any = "hbm" /\ row.t0 <= t
      <4>1. ~(row.t0 + new.segs[2].at <= t)
        BY <1>1, <1>2, <1>6, <2>2, <2>9
      <4>2. InTier(new, any, t)
              <=> new.segs[1].tier = any /\ row.t0 + new.segs[1].at <= t
                    /\ t < Leaves(new, new.segs[1])
        BY <2>1, <2>2, <2>8, <4>1 DEF InTier
      <4> QED
        BY <1>1, <2>2, <2>4, <2>9, <4>2
    <3>2. Leaves(stay, stay.segs[1]) >= time
      BY <1>1, <1>2, <1>4, <1>6 DEF Leaves
    <3>3. Leaves(stay, stay.segs[1]) \in Int
      BY <1>1, <1>4 DEF Leaves
    <3>4. InTier(stay, any, t) <=> any = "hbm" /\ row.t0 <= t
      BY <1>1, <1>4, <2>9, <3>2, <3>3 DEF InTier
    <3> QED
      BY <3>1, <3>4 DEF stay
  <2> QED
    BY <2>1, <2>2, <2>3, <2>4, <2>6, <2>7, <2>8, <2>9 DEF EvictedAt
<1>7. EvictedAt(row, new, time, tier)
  BY <1>2, <1>5, <1>6
<1> QED
  BY <1>7 DEF new

\* The contexts that resumed by a time are those at the head of the deque.
LEMMA ResumedIsPrefix ==
  ASSUME NEW queue, NEW info \in Seq(MoriRows), queue \in Seq(DOMAIN info), NEW time \in Nat
  PROVE  /\ Resumed(queue, info, time) \in 0 .. Len(queue)
         /\ \A k \in 1 .. Resumed(queue, info, time) : End(info[queue[k]]) <= time
<1> DEFINE Waiting == {k \in 1 .. Len(queue) : End(info[queue[k]]) > time} \cup {Len(queue) + 1}
<1>1. Len(queue) \in Nat /\ Waiting \subseteq Nat \ {0} /\ Waiting # {}
  OBVIOUS
<1>2. PICK k \in Waiting : \A l \in Waiting : k <= l
  BY <1>1, NatHasMin
<1>3. Min(Waiting) \in Waiting /\ \A l \in Waiting : Min(Waiting) <= l
  BY <1>2 DEF Min
<1>4. Min(Waiting) \in 1 .. Len(queue) + 1
  BY <1>1, <1>3
<1>5. ASSUME NEW l \in 1 .. Len(queue), l < Min(Waiting)
      PROVE  End(info[queue[l]]) <= time
  <2>1. l \notin Waiting
    BY <1>3, <1>4, <1>5
  <2>2. queue[l] \in DOMAIN info
    OBVIOUS
  <2>3. info[queue[l]] \in MoriRows
    BY <2>2
  <2>4. End(info[queue[l]]) \in Nat
    BY <2>3, WaitEnds
  <2> QED
    BY <2>1, <2>4
<1> HIDE DEF Waiting
<1>6. Resumed(queue, info, time) = Min(Waiting) - 1
  BY DEF Resumed, Waiting
<1> QED
  BY <1>1, <1>4, <1>5, <1>6

\* A deque whose head was popped and that one more has joined, place by place.
LEMMA QueueTail ==
  ASSUME NEW S, NEW queue \in Seq(S), NEW gone \in 0 .. Len(queue), NEW x
  PROVE  LET next == Append(SubSeq(queue, gone + 1, Len(queue)), x)
             rest == Len(queue) - gone
         IN /\ rest \in 0 .. Len(queue)
            /\ Len(next) = rest + 1
            /\ DOMAIN next = 1 .. rest + 1
            /\ \A k \in 1 .. rest : next[k] = queue[gone + k]
            /\ next[rest + 1] = x
            /\ next \in Seq(S \cup {x})
<1> DEFINE len == Len(queue)
           rest == len - gone
           tail == SubSeq(queue, gone + 1, len)
           next == Append(tail, x)
<1>1. len \in Nat /\ gone \in Nat /\ gone <= len
  OBVIOUS
<1>2. rest \in Nat /\ rest \in 0 .. len /\ gone + 1 \in Int /\ len \in Int
  BY <1>1
<1>3. \A k \in gone + 1 .. len : queue[k] \in S
  <2> SUFFICES ASSUME NEW k \in gone + 1 .. len PROVE queue[k] \in S
    OBVIOUS
  <2>1. k \in 1 .. len
    BY <1>1
  <2> QED
    BY <2>1
<1> HIDE DEF len
<1>4. /\ tail \in Seq(S)
      /\ Len(tail) = IF gone + 1 <= len THEN len - (gone + 1) + 1 ELSE 0
      /\ \A k \in 1 .. len - (gone + 1) + 1 : tail[k] = queue[gone + 1 + k - 1]
  BY <1>2, <1>3, SubSeqProperties
<1> HIDE DEF tail
<1>5. Len(tail) = rest
  BY <1>1, <1>4
<1>6. \A k \in 1 .. rest : tail[k] = queue[gone + k]
  <2> SUFFICES ASSUME NEW k \in 1 .. rest PROVE tail[k] = queue[gone + k]
    OBVIOUS
  <2>1. k \in 1 .. len - (gone + 1) + 1 /\ gone + 1 + k - 1 = gone + k
    BY <1>1
  <2> QED
    BY <1>4, <2>1
<1> HIDE DEF rest
<1>7. /\ Len(next) = rest + 1 /\ DOMAIN next = 1 .. rest + 1
      /\ \A k \in 1 .. rest : next[k] = tail[k]
      /\ next[rest + 1] = x
  BY <1>2, <1>4, <1>5
<1>9. next \in Seq(S \cup {x})
  BY <1>4
<1> HIDE DEF next
<1>8. \A k \in 1 .. rest : next[k] = queue[gone + k]
  BY <1>6, <1>7
<1> QED
  BY <1>2, <1>7, <1>8, <1>9 DEF len, rest, tail, next

\* What an arrival does before it evicts: it resolves those that resumed, as they
\* were believed to be, and takes their place in the deque.
AfterPop(queue, gone, i) == Append(SubSeq(queue, gone + 1, Len(queue)), i)

Popped(queue, gone) == {queue[k] : k \in 1 .. gone}

RowsAfter(all, popped) ==
  [j \in DOMAIN all |-> IF j \in popped THEN Resolve(all[j], End(all[j]), "hbm") ELSE all[j]]

Moved(info, all, queue, next, popped, resumed, time) ==
  /\ resumed \in Seq(MoriRows) /\ DOMAIN resumed = DOMAIN all
  /\ \A j \in DOMAIN info : /\ Believed(resumed[j]) = Believed(info[j])
                            /\ resumed[j].t0 = info[j].t0
  /\ \A j \in DOMAIN all : j \notin popped => resumed[j] = all[j]
  /\ QueueInv(resumed, next, time)
  /\ Len(next) \in 1 .. Len(queue) + 1
  /\ \A k \in DOMAIN next : next[k] \notin popped
  /\ Len(all) \notin popped

\* After the pops and the push the deque still holds exactly the unresolved ones.
LEMMA QueueMoves ==
  ASSUME NEW info \in Seq(MoriRows), NEW queue, NEW from \in Nat, QueueInv(info, queue, from),
         NEW time \in Nat, from <= time,
         NEW fresh \in MoriRows, fresh.segs = << >>
  PROVE  LET all == Append(info, fresh)
             gone == Resumed(queue, all, time)
             popped == Popped(queue, gone)
         IN Moved(info, all, queue, AfterPop(queue, gone, Len(all)), popped,
                  RowsAfter(all, popped), time)
<1> DEFINE all == Append(info, fresh)
           i == Len(all)
           len == Len(queue)
           gone == Resumed(queue, all, time)
           popped == Popped(queue, gone)
           next == AfterPop(queue, gone, i)
           resumed == RowsAfter(all, popped)
           rest == len - gone
<1>0. queue \in Seq(DOMAIN info)
  BY DEF QueueInv
<1>1. /\ Len(info) \in Nat /\ i \in Nat /\ len \in Nat
      /\ i = Len(info) + 1
      /\ DOMAIN info = 1 .. Len(info) /\ DOMAIN queue = 1 .. len
      /\ all \in Seq(MoriRows) /\ DOMAIN all = 1 .. i
      /\ all[i] = fresh
  BY <1>0
<1>2. \A j \in DOMAIN info : all[j] = info[j] /\ info[j] \in MoriRows
  OBVIOUS
<1>a. \A j \in 1 .. i : all[j] \in MoriRows
  BY <1>1
<1>3. \A k \in 1 .. len : queue[k] \in DOMAIN info
  BY <1>0
<1>4. DOMAIN info = (1 .. i) \ {i} /\ i \notin DOMAIN info
  BY <1>1
<1> HIDE DEF all, i, len, gone, popped, next, resumed, rest
<1>5. gone \in 0 .. len /\ \A k \in 1 .. gone : End(all[queue[k]]) <= time
  <2>1. DOMAIN info \subseteq DOMAIN all
    BY <1>1, <1>4
  <2>2. queue \in Seq(DOMAIN all)
    BY <1>0, <2>1
  <2> QED
    BY <1>1, <2>2, ResumedIsPrefix DEF len, gone
<1>p. gone \in Nat /\ rest \in Nat /\ rest = len - gone /\ gone <= len
  BY <1>1, <1>5 DEF rest
<1>q. popped = {queue[k] : k \in 1 .. gone}
  BY DEF popped, Popped
<1>r. /\ DOMAIN resumed = 1 .. i
      /\ \A j \in 1 .. i : resumed[j] = IF j \in popped THEN Resolve(all[j], End(all[j]), "hbm")
                                         ELSE all[j]
  BY <1>1 DEF resumed, RowsAfter
<1>6. popped \subseteq DOMAIN info
  BY <1>1, <1>3, <1>5, <1>p, <1>q
<1>7. \A j \in popped : resumed[j] = StaysIn(info[j]) /\ info[j].segs = << >>
  <2> SUFFICES ASSUME NEW j \in popped
               PROVE  resumed[j] = StaysIn(info[j]) /\ info[j].segs = << >>
    OBVIOUS
  <2>1. j \in DOMAIN info /\ j \in 1 .. i
    BY <1>4, <1>6
  <2>2. resumed[j] = Resolve(all[j], End(all[j]), "hbm")
    BY <1>r, <2>1
  <2>3. resumed[j] = StaysIn(info[j])
    BY <1>2, <2>1, <2>2, ResumedRow
  <2>4. PICK k \in 1 .. gone : j = queue[k]
    BY <1>q
  <2>5. k \in DOMAIN queue
    BY <1>1, <1>p
  <2> QED
    BY <2>3, <2>4, <2>5 DEF QueueInv
<1>8. \A j \in 1 .. i : j \notin popped => resumed[j] = all[j]
  BY <1>r
<1>9. ASSUME NEW j \in 1 .. i PROVE resumed[j] \in MoriRows
  <2>1. CASE j \in popped
    <3>1. info[j] \in MoriRows
      BY <1>2, <1>6, <2>1
    <3>2. StaysIn(info[j]) \in MoriRows
      BY <3>1, BelievedRow
    <3> QED
      BY <1>7, <2>1, <3>2
  <2>2. CASE j \notin popped
    BY <1>8, <1>a, <2>2
  <2> QED
    BY <2>1, <2>2
<1>10. resumed \in Seq(MoriRows)
  <2>1. resumed = [j \in 1 .. i |-> resumed[j]]
    BY <1>r DEF resumed, RowsAfter
  <2>2. resumed \in [1 .. i -> MoriRows]
    BY <1>9, <2>1
  <2> QED
    BY <1>1, <2>2, SeqDef
<1>11. i \notin popped
  BY <1>4, <1>6
<1>12. \A j \in DOMAIN info : /\ Believed(resumed[j]) = Believed(info[j])
                              /\ resumed[j].t0 = info[j].t0
  <2> SUFFICES ASSUME NEW j \in DOMAIN info
               PROVE  Believed(resumed[j]) = Believed(info[j]) /\ resumed[j].t0 = info[j].t0
    OBVIOUS
  <2>1. CASE j \in popped
    <3>1. resumed[j] = StaysIn(info[j]) /\ Believed(info[j]) = StaysIn(info[j])
      BY <1>2, <1>7, <2>1, BelievedRow
    <3>2. StaysIn(info[j]).segs # << >>
      BY <1>2, BelievedRow
    <3>3. Believed(resumed[j]) = resumed[j]
      BY <3>1, <3>2 DEF Believed
    <3>4. StaysIn(info[j]).t0 = info[j].t0
      BY <1>2, BelievedRow
    <3> QED
      BY <3>1, <3>3, <3>4
  <2>2. CASE j \notin popped
    BY <1>2, <1>4, <1>8, <2>2
  <2> QED
    BY <2>1, <2>2
<1>13. /\ Len(next) = rest + 1 /\ DOMAIN next = 1 .. rest + 1
       /\ \A k \in 1 .. rest : next[k] = queue[gone + k]
       /\ next[rest + 1] = i
       /\ next \in Seq(DOMAIN info \cup {i})
  BY <1>0, <1>5, QueueTail DEF next, AfterPop, rest, len
<1>b. \A k \in DOMAIN next : k = rest + 1 \/ k \in 1 .. rest
  BY <1>13, <1>p
<1>c. \A k \in 1 .. rest : gone + k \in DOMAIN queue /\ gone + k > gone /\ k \in DOMAIN next
  BY <1>1, <1>13, <1>p
<1>14. \A k \in DOMAIN next : next[k] \notin popped /\ next[k] \in 1 .. i
  <2> SUFFICES ASSUME NEW k \in DOMAIN next
               PROVE  next[k] \notin popped /\ next[k] \in 1 .. i
    OBVIOUS
  <2>1. CASE k = rest + 1
    BY <1>1, <1>11, <1>13, <2>1
  <2>2. CASE k \in 1 .. rest
    <3>1. next[k] = queue[gone + k] /\ gone + k \in DOMAIN queue /\ gone + k > gone
      BY <1>c, <1>13, <2>2
    <3>2. \A l \in 1 .. gone : l \in DOMAIN queue /\ l # gone + k
      BY <1>1, <1>p, <2>2
    <3>3. \A l \in 1 .. gone : queue[l] # next[k]
      BY <3>1, <3>2 DEF QueueInv, Distinct
    <3>4. next[k] \in DOMAIN info
      BY <1>1, <1>3, <3>1
    <3> QED
      BY <1>4, <1>q, <3>3, <3>4
  <2> QED
    BY <1>b, <2>1, <2>2
<1>15. Distinct(next)
  <2> SUFFICES ASSUME NEW k \in DOMAIN next, NEW l \in DOMAIN next, next[k] = next[l]
               PROVE  k = l
    BY DEF Distinct
  <2>1. ASSUME NEW m \in 1 .. rest PROVE next[m] \in DOMAIN info
    BY <1>1, <1>3, <1>c, <1>13
  <2>2. CASE k \in 1 .. rest /\ l \in 1 .. rest
    <3>1. queue[gone + k] = queue[gone + l]
      BY <1>13, <2>2
    <3>2. gone + k \in DOMAIN queue /\ gone + l \in DOMAIN queue
      BY <1>1, <1>c, <2>2
    <3>3. gone + k = gone + l
      BY <3>1, <3>2 DEF QueueInv, Distinct
    <3> QED
      BY <1>p, <2>2, <3>3
  <2>3. CASE k = rest + 1 \/ l = rest + 1
    BY <1>4, <1>13, <1>b, <2>1, <2>3
  <2> QED
    BY <1>b, <2>2, <2>3
<1>16. \A k \in DOMAIN next : resumed[next[k]].segs = << >>
  <2> SUFFICES ASSUME NEW k \in DOMAIN next PROVE resumed[next[k]].segs = << >>
    OBVIOUS
  <2>1. resumed[next[k]] = all[next[k]]
    BY <1>8, <1>14
  <2>2. CASE k = rest + 1
    BY <1>1, <1>13, <2>1, <2>2
  <2>3. CASE k \in 1 .. rest
    <3>1. next[k] = queue[gone + k] /\ gone + k \in DOMAIN queue
      BY <1>1, <1>c, <1>13, <2>3
    <3>2. next[k] \in DOMAIN info
      BY <1>1, <1>3, <3>1
    <3>3. info[queue[gone + k]].segs = << >>
      BY <3>1 DEF QueueInv
    <3>4. all[next[k]] = info[next[k]]
      BY <1>2, <3>2
    <3> QED
      BY <2>1, <3>1, <3>3, <3>4
  <2> QED
    BY <1>b, <2>2, <2>3
<1>17. ASSUME NEW j \in DOMAIN resumed, j \notin {next[k] : k \in DOMAIN next}
       PROVE  /\ resumed[j].segs # << >>
              /\ \A k \in DOMAIN resumed[j].segs :
                   resumed[j].segs[k].tier = "hbm" => Leaves(resumed[j], resumed[j].segs[k]) <= time
  <2>1. j \in 1 .. i /\ j # i
    <3>1. rest + 1 \in DOMAIN next
      BY <1>13, <1>p
    <3> QED
      BY <1>13, <1>17, <1>r, <3>1
  <2>2. j \in DOMAIN info
    BY <1>4, <2>1
  <2>3. CASE j \in popped
    <3>1. PICK k \in 1 .. gone : j = queue[k]
      BY <1>q, <2>3
    <3>2. End(all[j]) <= time /\ all[j] = info[j]
      BY <1>2, <1>5, <2>2, <3>1
    <3>3. resumed[j] = StaysIn(info[j])
      BY <1>7, <2>3
    <3>4. /\ DOMAIN StaysIn(info[j]).segs = {1}
          /\ Leaves(StaysIn(info[j]), StaysIn(info[j]).segs[1]) = End(info[j])
      BY <1>2, <2>2, BelievedRow
    <3> QED
      BY <3>2, <3>3, <3>4
  <2>4. CASE j \notin popped
    <3>1. resumed[j] = info[j]
      BY <1>2, <1>8, <2>1, <2>2, <2>4
    <3>2. \A k \in DOMAIN queue : queue[k] # j
      <4> SUFFICES ASSUME NEW k \in DOMAIN queue, queue[k] = j PROVE FALSE
        OBVIOUS
      <4>1. k \in 1 .. len /\ k \notin 1 .. gone
        BY <1>1, <1>q, <2>4
      <4>2. k - gone \in 1 .. rest /\ gone + (k - gone) = k
        BY <1>1, <1>p, <4>1
      <4>3. k - gone \in DOMAIN next /\ next[k - gone] = j
        BY <1>13, <1>c, <4>2
      <4> QED
        BY <1>17, <4>3
    <3>3. /\ info[j].segs # << >>
          /\ \A k \in DOMAIN info[j].segs :
               info[j].segs[k].tier = "hbm" => Leaves(info[j], info[j].segs[k]) <= from
      BY <2>2, <3>2 DEF QueueInv
    <3>4. \A k \in DOMAIN info[j].segs : Leaves(info[j], info[j].segs[k]) \in Int
      BY <1>2, <2>2, RowLeaves
    <3> QED
      BY <3>1, <3>3, <3>4
  <2> QED
    BY <2>3, <2>4
<1>18. next \in Seq(DOMAIN resumed)
  <2>1. DOMAIN info \cup {i} = DOMAIN resumed
    BY <1>1, <1>4, <1>r
  <2> QED
    BY <1>13, <2>1, Zenon
<1>19. QueueInv(resumed, next, time)
  BY <1>15, <1>16, <1>17, <1>18 DEF QueueInv
<1>20. Len(next) \in 1 .. len + 1
  BY <1>1, <1>13, <1>p
<1>21. Moved(info, all, queue, next, popped, resumed, time)
  BY <1>1, <1>8, <1>10, <1>11, <1>12, <1>14, <1>19, <1>20, <1>r DEF Moved, i, len
<1> QED
  BY <1>21 DEF all, i, gone, popped, next, resumed

\* A deque without its first, place by place.
LEMMA QueueDrops ==
  ASSUME NEW S, NEW queue \in Seq(S), Len(queue) >= 1
  PROVE  /\ RemoveAt(queue, 1) \in Seq(S)
         /\ Len(RemoveAt(queue, 1)) = Len(queue) - 1
         /\ \A k \in 1 .. Len(queue) - 1 : RemoveAt(queue, 1)[k] = queue[k + 1]
<1> DEFINE len == Len(queue)
           none == SubSeq(queue, 1, 1 - 1)
           tail == SubSeq(queue, 1 + 1, len)
<1>1. len \in Nat /\ len >= 1
  OBVIOUS
<1>2. \A k \in 1 + 1 .. len : queue[k] \in S
  OBVIOUS
<1> HIDE DEF len
<1>3. none = << >>
  BY SubSeqEmpty
<1>4. /\ tail \in Seq(S)
      /\ Len(tail) = IF 1 + 1 <= len THEN len - (1 + 1) + 1 ELSE 0
      /\ \A k \in 1 .. len - (1 + 1) + 1 : tail[k] = queue[1 + 1 + k - 1]
  BY <1>1, <1>2, SubSeqProperties
<1>5. RemoveAt(queue, 1) = none \o tail
  BY DEF RemoveAt, len
<1> HIDE DEF none, tail
<1>6. none \o tail = tail
  BY <1>3, <1>4
<1>7. Len(tail) = len - 1
  BY <1>1, <1>4
<1>8. \A k \in 1 .. len - 1 : tail[k] = queue[k + 1]
  <2> SUFFICES ASSUME NEW k \in 1 .. len - 1 PROVE tail[k] = queue[k + 1]
    OBVIOUS
  <2>1. k \in 1 .. len - (1 + 1) + 1 /\ 1 + 1 + k - 1 = k + 1
    BY <1>1
  <2> QED
    BY <1>4, <2>1
<1>9. RemoveAt(queue, 1) = tail
  BY <1>5, <1>6
<1> QED
  BY <1>4, <1>7, <1>8, <1>9 DEF len

\* The victim leaves the deque and is resolved.
LEMMA QueueEvicts ==
  ASSUME NEW info \in Seq(MoriRows), NEW queue, NEW time \in Nat, QueueInv(info, queue, time),
         Len(queue) >= 1, NEW tier \in {"cpu", "discard"}, info[queue[1]].t0 <= time,
         NEW row, row = Resolve(info[queue[1]], time, tier)
  PROVE  LET after == [info EXCEPT ![queue[1]] = row]
         IN /\ queue[1] \in DOMAIN info
            /\ after \in Seq(MoriRows)
            /\ QueueInv(after, RemoveAt(queue, 1), time)
            /\ Len(RemoveAt(queue, 1)) = Len(queue) - 1
<1> DEFINE len == Len(queue)
           victim == queue[1]
           after == [info EXCEPT ![victim] = row]
           left == RemoveAt(queue, 1)
<1>1. queue \in Seq(DOMAIN info)
  BY DEF QueueInv
<1>2. /\ len \in Nat /\ len >= 1 /\ DOMAIN queue = 1 .. len
      /\ victim \in DOMAIN info
  BY <1>1
<1>3. info[victim] \in MoriRows
  BY <1>2
<1>4. /\ row \in MoriRows /\ row.segs # << >>
      /\ \A k \in DOMAIN row.segs : row.segs[k].tier = "hbm" => Leaves(row, row.segs[k]) <= time
  <2> DEFINE base == info[victim]
  <2>1. base \in MoriRows /\ base.t0 <= time /\ row = Resolve(base, time, tier)
    BY <1>3
  <2> HIDE DEF base
  <2> QED
    BY <2>1, EvictedRow DEF EvictedAt
<1>5. after \in Seq(MoriRows)
  BY <1>2, <1>4, ExceptSeq
<1>6. /\ DOMAIN after = DOMAIN info
      /\ after[victim] = row
      /\ \A j \in DOMAIN info : j # victim => after[j] = info[j]
  BY <1>2
<1>7. /\ left \in Seq(DOMAIN info) /\ Len(left) = len - 1
      /\ \A k \in 1 .. len - 1 : left[k] = queue[k + 1]
  BY <1>1, <1>2, QueueDrops
<1> HIDE DEF len, after, left
<1>8. DOMAIN left = 1 .. len - 1 /\ \A k \in 1 .. len - 1 : k + 1 \in DOMAIN queue /\ k + 1 # 1
  BY <1>2, <1>7
<1>9. 1 \in DOMAIN queue
  BY <1>2
<1>10. \A k \in DOMAIN left : left[k] # victim
  BY <1>7, <1>8, <1>9 DEF QueueInv, Distinct
<1>11. Distinct(left)
  <2> SUFFICES ASSUME NEW k \in DOMAIN left, NEW l \in DOMAIN left, left[k] = left[l]
               PROVE  k = l
    BY DEF Distinct
  <2>1. k + 1 = l + 1
    BY <1>7, <1>8 DEF QueueInv, Distinct
  <2>2. k \in Int /\ l \in Int
    BY <1>8
  <2> QED
    BY <2>1, <2>2
<1>12. \A k \in DOMAIN left : after[left[k]].segs = << >>
  <2> SUFFICES ASSUME NEW k \in DOMAIN left PROVE after[left[k]].segs = << >>
    OBVIOUS
  <2>1. left[k] = queue[k + 1] /\ k + 1 \in DOMAIN queue /\ left[k] \in DOMAIN info
    BY <1>7, <1>8
  <2>2. info[queue[k + 1]].segs = << >>
    BY <2>1 DEF QueueInv
  <2> QED
    BY <1>6, <1>10, <2>1, <2>2
<1>13. ASSUME NEW j \in DOMAIN after, j \notin {left[k] : k \in DOMAIN left}
       PROVE  /\ after[j].segs # << >>
              /\ \A k \in DOMAIN after[j].segs :
                   after[j].segs[k].tier = "hbm" => Leaves(after[j], after[j].segs[k]) <= time
  <2>1. CASE j = victim
    BY <1>4, <1>6, <2>1
  <2>2. CASE j # victim
    <3>1. \A k \in DOMAIN queue : queue[k] # j
      <4> SUFFICES ASSUME NEW k \in DOMAIN queue, queue[k] = j PROVE FALSE
        OBVIOUS
      <4>1. k # 1 /\ k \in 1 .. len
        BY <1>2, <2>2
      <4>2. k - 1 \in 1 .. len - 1 /\ (k - 1) + 1 = k
        BY <1>2, <4>1
      <4>3. k - 1 \in DOMAIN left /\ left[k - 1] = j
        BY <1>7, <1>8, <4>2
      <4> QED
        BY <1>13, <4>3
    <3>2. after[j] = info[j] /\ j \in DOMAIN info
      BY <1>6, <2>2
    <3> QED
      BY <3>1, <3>2 DEF QueueInv
  <2> QED
    BY <2>1, <2>2
<1>14. left \in Seq(DOMAIN after)
  BY <1>6, <1>7, Zenon
<1>15. QueueInv(after, left, time)
  BY <1>11, <1>12, <1>13, <1>14 DEF QueueInv
<1> QED
  BY <1>2, <1>5, <1>7, <1>15 DEF len, after, left

MoriInv ==
  /\ now \in Nat /\ rows \in Seq(MoriRows)
  /\ \A j \in DOMAIN rows : rows[j].t0 <= now
  /\ \A t \in Nat : /\ Occupancy(Timeline, "hbm", t) <= C_HBM
                    /\ Occupancy(Timeline, "cpu", t) <= C_CPU
  /\ ~drained => /\ QueueInv(rows, hbm, now) /\ Len(hbm) <= C_HBM
                 /\ Fits(Timeline, "cpu", C_CPU, cpu, now)

\* MORI starts empty.
LEMMA MoriInit == Init => MoriInv
<1> SUFFICES ASSUME Init PROVE MoriInv
  OBVIOUS
<1>1. C_HBM \in Nat /\ C_CPU \in Nat
  BY TierPoolAssumption
<1>2. Timeline = << >>
  <2>1. DOMAIN rows = {}
    BY DEF Init
  <2> QED
    BY <2>1 DEF Timeline
<1>3. Fits(<< >>, "hbm", C_HBM, {}, 0) /\ Fits(<< >>, "cpu", C_CPU, {}, 0)
  BY <1>1, NothingFits
<1>4. QueueInv(rows, hbm, now) /\ Len(hbm) <= C_HBM
  BY <1>1 DEF Init, QueueInv, Distinct
<1>5. rows \in Seq(MoriRows) /\ now \in Nat /\ \A j \in DOMAIN rows : rows[j].t0 <= now
  BY DEF Init
<1>6. /\ Fits(Timeline, "hbm", C_HBM, {}, 0) /\ Fits(Timeline, "cpu", C_CPU, {}, 0)
      /\ cpu = {} /\ now = 0
  BY <1>2, <1>3, Zenon DEF Init
<1>7. \A t \in Nat : /\ Occupancy(Timeline, "hbm", t) <= C_HBM
                     /\ Occupancy(Timeline, "cpu", t) <= C_CPU
  BY <1>6 DEF Fits
<1> QED
  BY <1>4, <1>5, <1>6, <1>7 DEF MoriInv

\* The times of eviction, with one more
Noted(x, time) ==
  [j \in DOMAIN evicted \cup {x} |-> IF j = x THEN time ELSE evicted[j]]

\* What an arrival is, in the terms of the lemmas above.
LEMMA ArriveIs ==
  ASSUME NEW gap \in Nat, NEW wait \in Nat, Arrive(gap, wait),
         now \in Nat, rows \in Seq(MoriRows)
  PROVE  LET t0 == now + gap
             all == Append(rows, [t0 |-> t0, wait |-> wait, segs |-> << >>])
             gone == Resumed(hbm, all, t0)
             queue == AfterPop(hbm, gone, Len(all))
             resumed == RowsAfter(all, Popped(hbm, gone))
             heap == PoolTick(cpu, t0)
             tier == IF PoolFree(heap, C_CPU) THEN "cpu" ELSE "discard"
             row == Resolve(all[queue[1]], t0, tier)
         IN /\ now' = t0 /\ ~drained /\ drained' = drained
            /\ \/ /\ Len(queue) <= C_HBM
                  /\ hbm' = queue /\ cpu' = heap /\ rows' = resumed
                  /\ evicted' = evicted
               \/ /\ Len(queue) > C_HBM
                  /\ hbm' = RemoveAt(queue, 1)
                  /\ cpu' = IF EndTier(row) = "cpu"
                            THEN PoolHold(heap, End(row), queue[1]) ELSE heap
                  /\ rows' = [resumed EXCEPT ![queue[1]] = row]
                  /\ evicted' = Noted(queue[1], t0)
<1> DEFINE fresh == [t0 |-> now + gap, wait |-> wait, segs |-> << >>]
           all == Append(rows, fresh)
<1>0. fresh \in MoriRows
  BY DEF MoriRows
<1> HIDE DEF fresh
<1>1. Len(all) = Len(rows) + 1 /\ DOMAIN all = 1 .. Len(rows) + 1
  BY <1>0, AppendProperties
<1> DEFINE t0 == now + gap
           i == Len(rows) + 1
           gone == Resumed(hbm, all, t0)
           popped == {hbm[k] : k \in 1 .. gone}
           resumed == [j \in 1 .. i |-> IF j \in popped THEN Resolve(all[j], End(all[j]), "hbm")
                                       ELSE all[j]]
           queue == Append(SubSeq(hbm, gone + 1, Len(hbm)), i)
           heap == PoolTick(cpu, t0)
           tier == IF PoolFree(heap, C_CPU) THEN "cpu" ELSE "discard"
           Goal(q, r) ==
             LET row == Resolve(all[q[1]], t0, tier)
             IN /\ now' = t0 /\ ~drained /\ drained' = drained
                /\ \/ /\ Len(q) <= C_HBM
                      /\ hbm' = q /\ cpu' = heap /\ rows' = r
                      /\ evicted' = evicted
                   \/ /\ Len(q) > C_HBM
                      /\ hbm' = RemoveAt(q, 1)
                      /\ cpu' = IF EndTier(row) = "cpu"
                                THEN PoolHold(heap, End(row), q[1]) ELSE heap
                      /\ rows' = [r EXCEPT ![q[1]] = row]
                      /\ evicted' = Noted(q[1], t0)
<1>2. queue = AfterPop(hbm, gone, Len(all))
  BY <1>1, Zenon DEF AfterPop
<1>3. resumed = RowsAfter(all, Popped(hbm, gone))
  BY <1>1 DEF RowsAfter, Popped
<1>4. Goal(queue, resumed)
  BY Zenon DEF Arrive, Victim, Noted, fresh
<1> HIDE DEF resumed, queue, Goal
<1>5. Goal(AfterPop(hbm, gone, Len(all)), RowsAfter(all, Popped(hbm, gone)))
  BY <1>2, <1>3, <1>4, Zenon
<1> QED
  BY <1>5, Zenon DEF Goal, fresh

\* Before the arrival nothing changed in either tier.
SameBefore(old, new, time) ==
  /\ DOMAIN old \subseteq DOMAIN new
  /\ \A j \in DOMAIN new : Dated(new[j])
  /\ \A t \in Nat : t < time => \A any \in {"hbm", "cpu"} :
       /\ \A j \in DOMAIN old : InTier(new[j], any, t) <=> InTier(old[j], any, t)
       /\ \A j \in DOMAIN new \ DOMAIN old : ~InTier(new[j], any, t)

\* One arrival at MORI, with or without an eviction, keeps both tiers within
\* capacity.
LEMMA MoriArrive ==
  ASSUME MoriInv, NEW gap \in Gaps, NEW wait \in Waits, Arrive(gap, wait)
  PROVE  MoriInv'
<1> DEFINE t0 == now + gap
           fresh == [t0 |-> t0, wait |-> wait, segs |-> << >>]
           all == Append(rows, fresh)
           i == Len(all)
           gone == Resumed(hbm, all, t0)
           popped == Popped(hbm, gone)
           queue == AfterPop(hbm, gone, i)
           resumed == RowsAfter(all, popped)
           heap == PoolTick(cpu, t0)
           tier == IF PoolFree(heap, C_CPU) THEN "cpu" ELSE "discard"
           victim == queue[1]
           row == Resolve(all[victim], t0, tier)
<1>1. /\ gap \in Nat /\ wait \in Nat /\ now \in Nat /\ rows \in Seq(MoriRows)
      /\ C_HBM \in Nat /\ C_HBM >= 1 /\ C_CPU \in Nat
  BY MoriAssumption, TierPoolAssumption DEF MoriInv
<1>2. t0 \in Nat /\ now <= t0
  BY <1>1
<1>3. /\ now' = t0 /\ ~drained /\ drained' = drained
      /\ \/ /\ Len(queue) <= C_HBM
            /\ hbm' = queue /\ cpu' = heap /\ rows' = resumed
         \/ /\ Len(queue) > C_HBM
            /\ hbm' = RemoveAt(queue, 1)
            /\ cpu' = IF EndTier(row) = "cpu" THEN PoolHold(heap, End(row), victim) ELSE heap
            /\ rows' = [resumed EXCEPT ![victim] = row]
  BY <1>1, ArriveIs
<1>4. fresh \in MoriRows /\ fresh.segs = << >> /\ fresh.t0 = t0
  BY <1>1, <1>2 DEF MoriRows
<1> HIDE DEF fresh
<1>5. /\ QueueInv(rows, hbm, now) /\ Len(hbm) <= C_HBM
      /\ Fits(Timeline, "cpu", C_CPU, cpu, now)
      /\ \A j \in DOMAIN rows : rows[j].t0 <= now
      /\ \A t \in Nat : /\ Occupancy(Timeline, "hbm", t) <= C_HBM
                        /\ Occupancy(Timeline, "cpu", t) <= C_CPU
  BY <1>3 DEF MoriInv
<1>6. Moved(rows, all, hbm, queue, popped, resumed, t0)
  BY <1>1, <1>2, <1>4, <1>5, QueueMoves
<1>7. /\ DOMAIN all = DOMAIN rows \cup {i} /\ i \notin DOMAIN rows
      /\ all[i] = fresh
      /\ \A j \in DOMAIN rows : rows[j] \in MoriRows /\ rows[j].t0 \in Nat
      /\ Len(hbm) \in Nat
  <2>1. /\ Len(rows) \in Nat /\ i = Len(rows) + 1 /\ DOMAIN rows = 1 .. Len(rows)
        /\ DOMAIN all = 1 .. i /\ all[i] = fresh
    BY <1>1, <1>4
  <2>2. DOMAIN all = DOMAIN rows \cup {i} /\ i \notin DOMAIN rows
    BY <2>1
  <2>3. \A j \in DOMAIN rows : rows[j] \in MoriRows
    BY <1>1
  <2>4. \A j \in DOMAIN rows : rows[j].t0 \in Nat
    BY <2>3 DEF MoriRows
  <2>5. Len(hbm) \in Nat
    BY <1>5 DEF QueueInv
  <2> QED
    BY <2>1, <2>2, <2>3, <2>4, <2>5
<1> HIDE DEF t0, all, i, gone, popped, queue, resumed, heap, tier, victim, row
<1>8. /\ resumed \in Seq(MoriRows) /\ DOMAIN resumed = DOMAIN all
      /\ \A j \in DOMAIN rows : Believed(resumed[j]) = Timeline[j]
      /\ resumed[i] = fresh
      /\ \A j \in DOMAIN resumed : resumed[j].t0 <= t0
      /\ \A j \in DOMAIN resumed : resumed[j] \in MoriRows
  <2>1. /\ resumed \in Seq(MoriRows) /\ DOMAIN resumed = DOMAIN all
        /\ \A j \in DOMAIN rows : /\ Believed(resumed[j]) = Believed(rows[j])
                                  /\ resumed[j].t0 = rows[j].t0
        /\ resumed[i] = fresh
    BY <1>6, <1>7 DEF Moved, i
  <2>2. \A j \in DOMAIN rows : resumed[j].t0 <= t0
    BY <1>1, <1>2, <1>5, <1>7, <2>1
  <2>3. \A j \in DOMAIN resumed : resumed[j].t0 <= t0
    BY <1>2, <1>4, <1>7, <2>1, <2>2
  <2>4. \A j \in DOMAIN resumed : resumed[j] \in MoriRows
    BY <2>1
  <2> QED
    BY <2>1, <2>3, <2>4 DEF Timeline
<1>9. QueueInv(resumed, queue, t0) /\ Len(queue) \in 1 .. Len(hbm) + 1
  BY <1>6 DEF Moved
<1>10. SameBefore(Timeline, BelievedAll(resumed), t0)
  <2>1. DOMAIN Timeline = DOMAIN rows /\ DOMAIN BelievedAll(resumed) = DOMAIN rows \cup {i}
    BY <1>7, <1>8 DEF Timeline, BelievedAll
  <2>2. \A j \in DOMAIN BelievedAll(resumed) : /\ BelievedAll(resumed)[j] = Believed(resumed[j])
                                               /\ resumed[j] \in MoriRows
    BY <1>8 DEF BelievedAll
  <2>3. \A j \in DOMAIN BelievedAll(resumed) : Dated(BelievedAll(resumed)[j])
    BY <2>2, BelievedRow
  <2>4. \A j \in DOMAIN rows : BelievedAll(resumed)[j] = Timeline[j]
    BY <1>8, <2>1, <2>2
  <2>5. ASSUME NEW t \in Nat, t < t0, NEW any PROVE ~InTier(BelievedAll(resumed)[i], any, t)
    <3>1. BelievedAll(resumed)[i] = Believed(fresh)
      BY <1>8, <2>1, <2>2
    <3>2. Dated(Believed(fresh)) /\ Believed(fresh).t0 = t0
      BY <1>4, BelievedRow
    <3> QED
      BY <1>2, <2>5, <3>1, <3>2 DEF InTier, Dated
  <2>6. DOMAIN BelievedAll(resumed) \ DOMAIN Timeline = {i}
    BY <1>7, <2>1
  <2> QED
    BY <2>1, <2>3, <2>4, <2>5, <2>6 DEF SameBefore
\* What is left to show: the rows, the deque and the heap of DRAM after the step.
<1>11. SUFFICES /\ rows' \in Seq(MoriRows)
                /\ \A j \in DOMAIN rows' : rows'[j].t0 <= t0
                /\ QueueInv(rows', hbm', t0) /\ Len(hbm') <= C_HBM /\ Len(hbm') \in Nat
                /\ SameBefore(Timeline, BelievedAll(rows'), t0)
                /\ Holds(BelievedAll(rows'), "cpu", cpu', t0)
                /\ IsFiniteSet(cpu') /\ Cardinality(cpu') <= C_CPU
  <2> DEFINE new == BelievedAll(rows')
             slots == QueueHeap(rows', hbm')
  <2>1. Timeline' = new
    BY DEF Timeline, BelievedAll
  <2>2. /\ Holds(new, "hbm", slots, t0)
        /\ IsFiniteSet(slots) /\ Cardinality(slots) <= Len(hbm')
    BY <1>2, <1>11, QueueHolds
  <2>3. Cardinality(slots) <= C_HBM
    <3>1. Cardinality(slots) \in Nat
      BY <2>2, FS_CardinalityType
    <3> QED
      BY <1>1, <1>11, <2>2, <3>1
  <2> HIDE DEF new, slots
  <2>4. /\ SameBefore(Timeline, new, t0) /\ Holds(new, "cpu", cpu', t0)
    BY <1>11 DEF new
  <2>5. Fits(new, "hbm", C_HBM, slots, t0)
    BY <1>1, <1>2, <1>5, <2>2, <2>3, <2>4, FitsForward DEF SameBefore
  <2>6. Fits(new, "cpu", C_CPU, cpu', t0)
    BY <1>1, <1>2, <1>5, <1>11, <2>4, FitsForward DEF SameBefore
  <2> QED
    BY <1>2, <1>3, <1>11, <2>1, <2>5, <2>6 DEF MoriInv, Fits
<1>12. IsFiniteSet(heap) /\ Cardinality(heap) <= C_CPU /\ Cardinality(heap) \in Nat
  <2>1. IsFiniteSet(cpu) /\ Cardinality(cpu) <= C_CPU
    BY <1>5 DEF Fits
  <2>2. IsFiniteSet(heap) /\ Cardinality(heap) <= Cardinality(cpu)
    BY <2>1, TickedHeap DEF heap
  <2>3. Cardinality(heap) \in Nat /\ Cardinality(cpu) \in Nat
    BY <2>1, <2>2, FS_CardinalityType
  <2> QED
    BY <1>1, <2>1, <2>2, <2>3
<1>13. Holds(BelievedAll(resumed), "cpu", heap, t0)
  <2> SUFFICES ASSUME NEW j \in DOMAIN resumed, NEW k \in DOMAIN Believed(resumed[j]).segs,
                      Believed(resumed[j]).segs[k].tier = "cpu",
                      Believed(resumed[j]).segs[k].dur > 0,
                      Leaves(Believed(resumed[j]), Believed(resumed[j]).segs[k]) > t0
               PROVE  <<Leaves(Believed(resumed[j]), Believed(resumed[j]).segs[k]), j>> \in heap
    BY DEF Holds, BelievedAll
  <2>1. CASE j = i
    <3>1. Believed(resumed[j]) = StaysIn(fresh)
      BY <1>4, <1>8, <2>1, BelievedRow
    <3> QED
      BY <1>4, <3>1, BelievedRow
  <2>2. CASE j # i
    <3>1. j \in DOMAIN rows /\ Believed(resumed[j]) = Timeline[j] /\ DOMAIN Timeline = DOMAIN rows
      BY <1>7, <1>8, <2>2 DEF Timeline
    <3>2. Leaves(Timeline[j], Timeline[j].segs[k]) \in Int
      <4>1. Dated(Believed(resumed[j]))
        BY <1>8, BelievedRow
      <4> QED
        BY <3>1, <4>1 DEF Dated, Leaves
    <3>3. /\ k \in DOMAIN Timeline[j].segs
          /\ Timeline[j].segs[k].tier = "cpu" /\ Timeline[j].segs[k].dur > 0
          /\ Leaves(Timeline[j], Timeline[j].segs[k]) > t0
      BY <3>1
    <3>4. Leaves(Timeline[j], Timeline[j].segs[k]) > now
      BY <1>1, <1>2, <3>2, <3>3
    <3>5. Holds(Timeline, "cpu", cpu, now)
      BY <1>5 DEF Fits
    <3>6. <<Leaves(Timeline[j], Timeline[j].segs[k]), j>> \in cpu
      BY <3>1, <3>3, <3>4, <3>5 DEF Holds
    <3> QED
      BY <3>1, <3>3, <3>6 DEF heap, PoolTick
  <2> QED
    BY <2>1, <2>2
<1>14. CASE /\ Len(queue) <= C_HBM
            /\ hbm' = queue /\ cpu' = heap /\ rows' = resumed
  <2>1. Len(queue) \in Nat
    BY <1>9
  <2> QED
    BY <1>8, <1>9, <1>10, <1>12, <1>13, <1>14, <2>1
<1>15. CASE /\ Len(queue) > C_HBM
            /\ hbm' = RemoveAt(queue, 1)
            /\ cpu' = IF EndTier(row) = "cpu" THEN PoolHold(heap, End(row), victim) ELSE heap
            /\ rows' = [resumed EXCEPT ![victim] = row]
  <2>1. Len(queue) >= 1 /\ Len(queue) - 1 <= C_HBM /\ Len(queue) - 1 \in Nat
    BY <1>1, <1>5, <1>7, <1>9
  <2>2. tier \in {"cpu", "discard"}
    BY DEF tier
  <2>3. /\ victim \in DOMAIN resumed /\ resumed[victim].segs = << >>
        /\ victim \notin popped
    <3>1. queue \in Seq(DOMAIN resumed)
      BY <1>9 DEF QueueInv
    <3>2. 1 \in DOMAIN queue
      BY <2>1, <3>1
    <3> QED
      BY <1>6, <1>9, <3>1, <3>2 DEF QueueInv, Moved, victim
  <2>4. all[victim] = resumed[victim]
    BY <1>6, <1>8, <2>3 DEF Moved
  <2> DEFINE base == resumed[victim]
  <2>5. base \in MoriRows /\ base.t0 <= t0 /\ row = Resolve(base, t0, tier)
    BY <1>8, <2>3, <2>4 DEF row
  <2> HIDE DEF base
  <2>6. EvictedAt(base, row, t0, tier)
    BY <1>2, <2>2, <2>5, EvictedRow
  <2>7. /\ rows' \in Seq(MoriRows) /\ QueueInv(rows', hbm', t0)
        /\ Len(hbm') = Len(queue) - 1
    BY <1>2, <1>8, <1>9, <1>15, <2>1, <2>2, <2>5, QueueEvicts DEF base, victim
  <2>8. /\ DOMAIN rows' = DOMAIN resumed /\ rows'[victim] = row
        /\ \A j \in DOMAIN resumed : j # victim => rows'[j] = resumed[j]
    BY <1>15, <2>3
  <2>9. \A j \in DOMAIN rows' : rows'[j].t0 <= t0
    BY <1>8, <2>5, <2>6, <2>8 DEF EvictedAt
  <2>10. Believed(row) = row /\ Dated(row)
    <3>1. row \in MoriRows /\ row.segs # << >>
      BY <2>6 DEF EvictedAt
    <3> QED
      BY <3>1, BelievedRow
  <2>11. Believed(base) = StaysIn(base)
    BY <2>3, <2>5, BelievedRow DEF base
  <2>12. SameBefore(Timeline, BelievedAll(rows'), t0)
    <3> DEFINE old == BelievedAll(resumed)
               new == BelievedAll(rows')
    <3>1. /\ DOMAIN old = DOMAIN new
          /\ \A j \in DOMAIN old : old[j] = Believed(resumed[j]) /\ new[j] = Believed(rows'[j])
          /\ DOMAIN old = DOMAIN resumed
      BY <2>8 DEF BelievedAll
    <3> HIDE DEF old, new
    <3>2. \A j \in DOMAIN old : j # victim => new[j] = old[j]
      BY <2>8, <3>1
    <3>3. new[victim] = row /\ old[victim] = StaysIn(base)
      BY <2>3, <2>8, <2>10, <2>11, <3>1 DEF base
    <3>4. \A t \in Nat : t < t0 => \A any \in {"hbm", "cpu"} :
            \A j \in DOMAIN old : InTier(new[j], any, t) <=> InTier(old[j], any, t)
      BY <2>6, <3>2, <3>3 DEF EvictedAt
    <3>5. SameBefore(Timeline, old, t0)
      BY <1>10 DEF old
    <3>6. \A j \in DOMAIN new : Dated(new[j])
      BY <2>10, <3>1, <3>2, <3>3, <3>5 DEF SameBefore
    <3>7. SameBefore(Timeline, new, t0)
      BY <3>1, <3>4, <3>5, <3>6 DEF SameBefore
    <3> QED
      BY <3>7 DEF new
  <2>13. End(row) = End(base)
    BY <2>6 DEF EvictedAt, End
  <2>14. Holds(BelievedAll(rows'), "cpu", cpu', t0)
    <3> SUFFICES ASSUME NEW j \in DOMAIN resumed, NEW k \in DOMAIN Believed(rows'[j]).segs,
                        Believed(rows'[j]).segs[k].tier = "cpu",
                        Believed(rows'[j]).segs[k].dur > 0,
                        Leaves(Believed(rows'[j]), Believed(rows'[j]).segs[k]) > t0
                 PROVE  <<Leaves(Believed(rows'[j]), Believed(rows'[j]).segs[k]), j>> \in cpu'
      BY <2>8 DEF Holds, BelievedAll
    <3>1. heap \subseteq cpu'
      BY <1>15 DEF PoolHold
    <3>2. CASE j = victim
      <4>1. Believed(rows'[j]) = row
        BY <2>8, <2>10, <3>2
      <4>2. Leaves(row, row.segs[k]) = End(row) /\ EndTier(row) = "cpu"
        BY <2>6, <2>13, <4>1 DEF EvictedAt
      <4> QED
        BY <1>15, <3>2, <4>1, <4>2 DEF PoolHold
    <3>3. CASE j # victim
      <4>1. rows'[j] = resumed[j]
        BY <2>8, <3>3
      <4>2. <<Leaves(Believed(resumed[j]), Believed(resumed[j]).segs[k]), j>> \in heap
        BY <1>13, <4>1 DEF Holds, BelievedAll
      <4> QED
        BY <3>1, <4>1, <4>2
    <3> QED
      BY <3>2, <3>3
  <2>15. IsFiniteSet(cpu') /\ Cardinality(cpu') <= C_CPU
    <3>1. CASE EndTier(row) = "cpu"
      <4> DEFINE slot == <<End(row), victim>>
      <4>1. cpu' = heap \cup {slot}
        BY <1>15, <3>1 DEF PoolHold
      <4>2. Cardinality(heap) < C_CPU
        BY <2>6, <3>1 DEF EvictedAt, tier, PoolFree
      <4>3. /\ IsFiniteSet(heap \cup {slot})
            /\ Cardinality(heap \cup {slot}) = IF slot \in heap THEN Cardinality(heap)
                                                             ELSE Cardinality(heap) + 1
        BY <1>12, FS_AddElement
      <4> HIDE DEF slot
      <4> QED
        BY <1>1, <1>12, <4>1, <4>2, <4>3
    <3>2. CASE EndTier(row) # "cpu"
      BY <1>12, <1>15, <3>2
    <3> QED
      BY <3>1, <3>2
  <2> QED
    BY <2>1, <2>7, <2>9, <2>12, <2>14, <2>15
<1> QED
  BY <1>3, <1>14, <1>15

\* Drain resolves what is left as it was believed to be.
LEMMA MoriDrain == MoriInv /\ Drain => MoriInv'
<1> SUFFICES ASSUME MoriInv, Drain PROVE MoriInv'
  OBVIOUS
<1>1. /\ ~drained /\ drained' /\ now' = now
      /\ rows' = [j \in DOMAIN rows |->
                   IF j \in ToSet(hbm) THEN Resolve(rows[j], End(rows[j]), "hbm") ELSE rows[j]]
  BY DEF Drain
<1>2. now \in Nat /\ rows \in Seq(MoriRows) /\ QueueInv(rows, hbm, now)
  BY <1>1 DEF MoriInv
<1>3. DOMAIN rows' = DOMAIN rows /\ \A j \in DOMAIN rows : rows[j] \in MoriRows
  BY <1>1, <1>2
<1>4. ASSUME NEW j \in DOMAIN rows
      PROVE  /\ rows'[j] \in MoriRows /\ rows'[j].t0 = rows[j].t0
             /\ Believed(rows'[j]) = Believed(rows[j])
  <2>1. CASE j \in ToSet(hbm)
    <3>1. rows'[j] = StaysIn(rows[j])
      <4>1. rows'[j] = Resolve(rows[j], End(rows[j]), "hbm")
        BY <1>1, <2>1
      <4> QED
        BY <1>3, <4>1, ResumedRow
    <3>2. rows[j].segs = << >>
      BY <1>2, <2>1 DEF QueueInv, ToSet
    <3>3. Believed(rows[j]) = StaysIn(rows[j])
      BY <1>3, <3>2, BelievedRow
    <3>4. /\ StaysIn(rows[j]) \in MoriRows /\ StaysIn(rows[j]).t0 = rows[j].t0
          /\ StaysIn(rows[j]).segs # << >>
      BY <1>3, BelievedRow
    <3> QED
      BY <3>1, <3>3, <3>4 DEF Believed
  <2>2. CASE j \notin ToSet(hbm)
    BY <1>1, <1>3, <2>2
  <2> QED
    BY <2>1, <2>2
<1>5. Timeline' = Timeline
  <2>1. Timeline' = [j \in DOMAIN rows' |-> Believed(rows'[j])]
    BY DEF Timeline
  <2> QED
    BY <1>3, <1>4, <2>1 DEF Timeline
<1>6. rows' \in Seq(MoriRows)
  <2>1. DOMAIN rows = 1 .. Len(rows) /\ Len(rows) \in Nat
    BY <1>2
  <2>2. rows' = [j \in 1 .. Len(rows) |-> rows'[j]]
    BY <1>1, <2>1
  <2>3. rows' \in [1 .. Len(rows) -> MoriRows]
    BY <1>4, <2>1, <2>2
  <2> QED
    BY <2>1, <2>3, SeqDef
<1> QED
  BY <1>1, <1>3, <1>4, <1>5, <1>6 DEF MoriInv

\* So does every step.
LEMMA MoriStep == MoriInv /\ [EvaluationNext]_<<vars, replays>> => MoriInv'
<1> SUFFICES ASSUME MoriInv, [EvaluationNext]_<<vars, replays>> PROVE MoriInv'
  OBVIOUS
<1>1. CASE TraceEnds
  BY <1>1, MoriDrain DEF TraceEnds
<1>2. ASSUME NEW gap \in Gaps, NEW wait \in Waits, NEW c \in Chances, Replayed(gap, wait, c)
      PROVE  MoriInv'
  BY <1>2, MoriArrive DEF Replayed
<1>3. CASE UNCHANGED <<vars, replays>>
  BY <1>3 DEF MoriInv, vars, Timeline
<1> QED
  BY <1>1, <1>2, <1>3 DEF EvaluationNext

\* The two invariants hold of every behaviour.
LEMMA CapacityInvariant == EvaluationSpec => [](PoliciesInv /\ MoriInv)
<1>1. EvaluationInit => PoliciesInv /\ MoriInv
  BY PoliciesInit, MoriInit DEF EvaluationInit
<1>2. (PoliciesInv /\ MoriInv) /\ [EvaluationNext]_<<vars, replays>> => (PoliciesInv /\ MoriInv)'
  BY PoliciesStep, MoriStep
<1> QED
  BY <1>1, <1>2, PTL DEF EvaluationSpec

\* No policy of replay.py, shift_eval.py or const_alpha_eval.py, and not MORI either,
\* ever has more than C_HBM contexts in HBM or more than C_CPU in DRAM, whatever the
\* trace, the predictions and the random numbers.
THEOREM WithinCapacityCorrect == EvaluationSpec => []WithinCapacity
<1>1. PoliciesInv /\ MoriInv => WithinCapacity
  <2> SUFFICES ASSUME PoliciesInv, MoriInv PROVE WithinCapacity
    OBVIOUS
  <2>1. MoriWithinCapacity
    <3>1. \A j \in DOMAIN Timeline : Dated(Timeline[j])
      <4>1. \A j \in DOMAIN rows : rows[j] \in MoriRows
        BY DEF MoriInv
      <4> QED
        BY <4>1, BelievedRow DEF Timeline
    <3> QED
      BY <3>1, BoundedFits DEF MoriInv, MoriWithinCapacity
  <2>2. ASSUME NEW policy \in Policies
        PROVE  /\ FitsInto(replays[policy].rows, "hbm", C_HBM)
               /\ FitsInto(replays[policy].rows, "cpu", C_CPU)
    <3> DEFINE info == replays[policy].rows
    <3>1. ReplayFits(replays[policy], now)
      BY DEF PoliciesInv
    <3>2. info \in Seq(Decisions)
      BY <3>1 DEF ReplayFits
    <3>3. \A j \in DOMAIN info : Dated(info[j])
      <4>1. \A j \in DOMAIN info : info[j] \in Decisions
        BY <3>2
      <4> QED
        BY <4>1, DecisionsAreDated
    <3>4. \A t \in Nat : Occupancy(info, "hbm", t) <= C_HBM /\ Occupancy(info, "cpu", t) <= C_CPU
      BY <3>1 DEF ReplayFits, Fits
    <3> HIDE DEF info
    <3>5. FitsInto(info, "hbm", C_HBM) /\ FitsInto(info, "cpu", C_CPU)
      BY <3>3, <3>4, BoundedFits
    <3> QED
      BY <3>5 DEF info
  <2> QED
    BY <2>1, <2>2 DEF WithinCapacity
<1> QED
  BY <1>1, CapacityInvariant, PTL

-----------------------------------------------------------------------------
(* Policies that leave HBM at once.                                        *)

Immediate == {"always_cpu", "always_discard", "ttl_0", "cpu_ttl_x1", "cpu_ttl_x2"}

\* They all switch at time zero on either offer.
LEMMA ImmediateSwitch ==
  ASSUME NEW policy \in Immediate, NEW ts \in Offers, NEW wait, NEW c
  PROVE  LET s == Switches(policy, ts, wait, c) IN Len(s) >= 1 /\ s[1] = 0
<1>1. ts.n \in {1, 2}
  BY OffersValid
<1>2. CASE policy = "always_discard"
  <2>1. Switches(policy, ts, wait, c) = [k \in 1 .. ts.n |-> 0]
    BY <1>2 DEF Switches, AtOnce
  <2> QED
    BY <1>1, <2>1
<1>3. CASE policy \in {"always_cpu", "ttl_0", "cpu_ttl_x1", "cpu_ttl_x2"}
  <2>1. \/ Switches(policy, ts, wait, c) = <<0>>
        \/ \E x : Switches(policy, ts, wait, c) = <<0, x>>
    BY <1>3 DEF Switches, ttl, cpu_ttl, Infinity
  <2> QED
    BY <2>1
<1> QED
  BY <1>2, <1>3 DEF Immediate

\* The loop makes a switch at time zero unless nobody waits.
LEMMA NoneMade ==
  ASSUME NEW s \in Seq(Nat), Len(s) >= 1, s[1] = 0, NEW w \in Nat, Made(s, w) = 0
  PROVE  w = 0
<1> DEFINE Stops == {k \in DOMAIN s : s[k] >= w} \cup {Len(s) + 1}
<1>1. Stops \subseteq Nat \ {0} /\ Stops # {}
  OBVIOUS
<1>2. PICK k \in Stops : \A l \in Stops : k <= l
  BY <1>1, NatHasMin
<1>3. Min(Stops) \in Stops
  BY <1>2 DEF Min
<1>4. Min(Stops) - 1 = 0
  BY DEF Made
<1>5. 1 \in Stops
  <2>1. Min(Stops) \in Nat
    BY <1>1, <1>3
  <2> HIDE DEF Stops
  <2>2. Min(Stops) = 1
    BY <1>4, <2>1
  <2> QED
    BY <1>3, <2>2
<1>6. Len(s) + 1 # 1
  OBVIOUS
<1>7. s[1] >= w
  BY <1>5, <1>6
<1> QED
  BY <1>7

\* Their stay in HBM has no duration and takes no slot.
LEMMA ImmediateTakesNoSlot ==
  ASSUME NEW ts \in Offers, NEW s \in Seq(Nat), Len(s) <= ts.n, Len(s) >= 1, s[1] = 0,
         NEW wait \in Nat, NEW t0, NEW offered, NEW i
  PROVE  Slots([t0 |-> t0, wait |-> wait, segs |-> Segments(ts, s, wait), offered |-> offered],
               "hbm", i) = {}
<1> DEFINE segs == Segments(ts, s, wait)
           m == Made(s, wait)
<1>1. /\ ts.n \in Nat /\ ts.names[0] = "hbm"
      /\ \A k, l \in 0 .. ts.n : ts.names[k] = ts.names[l] => k = l
  BY OffersTyped DEF Offers, TS_FULL, TS_HBM_DISCARD, NewTierSystem, FromZero
<1>2. m \in 0 .. Len(s) /\ Len(s) \in Nat
  BY MadeIsPrefix
<1>3. DOMAIN segs \subseteq 1 .. ts.n + 1
  BY SegmentsTyped
<1>4. \A k \in DOMAIN segs : segs[k].tier = ts.names[k - 1]
  BY SegmentsTyped
<1>5. segs = [k \in 1 .. m + 1 |-> Seg(ts.names[k - 1], Bound(s, wait, k),
                                       Bound(s, wait, k + 1) - Bound(s, wait, k))]
  BY DEF Segments
<1>6. Bound(s, wait, 2) = 0
  <2>1. CASE m = 0
    <3>1. wait = 0
      BY <2>1, NoneMade
    <3> QED
      BY <2>1, <3>1 DEF Bound
  <2>2. CASE m >= 1
    BY <1>2, <2>2 DEF Bound
  <2> QED
    BY <1>2, <2>1, <2>2
<1>7. Bound(s, wait, 1) = 0
  BY DEF Bound
<1> HIDE DEF segs, m
<1>8. ASSUME NEW k \in DOMAIN segs, segs[k].tier = "hbm" PROVE ~(segs[k].dur > 0)
  <2>1. k = 1
    <3>1. k \in Int /\ k - 1 \in 0 .. ts.n /\ 0 \in 0 .. ts.n
      BY <1>1, <1>3, <1>8
    <3>2. k - 1 = 0
      BY <1>1, <1>4, <1>8, <3>1
    <3> QED
      BY <3>1, <3>2
  <2>2. segs[1] = Seg(ts.names[0], 0, 0 - 0)
    <3>1. 1 \in 1 .. m + 1
      BY <1>2
    <3> QED
      BY <1>5, <1>6, <1>7, <3>1
  <2> QED
    BY <2>1, <2>2 DEF Seg
<1> QED
  BY <1>8 DEF Slots, segs

NeverFullInv ==
  \A policy \in Immediate : replays[policy].hbm = {} /\ replays[policy].forced = {}

\* A turn of such a policy finds HBM empty, is admitted, and leaves HBM empty.
LEMMA ImmediateTurn ==
  ASSUME NEW r, DOMAIN r = Fields, r.hbm = {}, r.forced = {},
         NEW t0, NEW wait \in Nat, NEW fn,
         \A ts \in Offers : /\ fn[ts] \in Seq(Nat) /\ Len(fn[ts]) <= ts.n
                            /\ Len(fn[ts]) >= 1 /\ fn[ts][1] = 0
  PROVE  LET next == Turn(r, fn, t0, wait) IN next.hbm = {} /\ next.forced = {}
<1> DEFINE u == Ticked(r, t0)
           ts == IF PoolFree(u.cpu, C_CPU) THEN TS_FULL ELSE TS_HBM_DISCARD
           offered == {ts.names[k] : k \in 0 .. ts.n}
           row == [t0 |-> t0, wait |-> wait, segs |-> Segments(ts, fn[ts], wait),
                   offered |-> offered]
<1>1. /\ DOMAIN u = Fields /\ u.hbm = {} /\ u.forced = {}
  BY DEF Ticked, PoolTick, Fields
<1> HIDE DEF u
<1>2. PoolFree(u.hbm, C_HBM)
  <2>1. Cardinality({}) = 0
    BY FS_EmptySet
  <2>2. C_HBM > 0
    BY TierPoolAssumption
  <2> QED
    BY <1>1, <2>1, <2>2 DEF PoolFree
<1>3. Turn(r, fn, t0, wait) = Admitted(u, fn, t0, wait)
  BY <1>2 DEF Turn, u
<1>4. Admitted(u, fn, t0, wait) = Placed(u, t0, wait, Segments(ts, fn[ts], wait), offered)
  BY DEF Admitted
<1>5. ts \in Offers
  BY DEF Offers
<1> HIDE DEF ts
<1>6. Slots(row, "hbm", Len(u.rows) + 1) = {}
  BY <1>5, ImmediateTakesNoSlot
<1> DEFINE next == Placed(u, t0, wait, Segments(ts, fn[ts], wait), offered)
<1>7. /\ next.hbm = u.hbm \cup Slots(row, "hbm", Len(u.rows) + 1)
      /\ next.forced = u.forced
  BY <1>1 DEF Placed, Fields
<1> HIDE DEF next, row, offered
<1>8. next.hbm = {} /\ next.forced = {}
  BY <1>1, <1>6, <1>7
<1> QED
  BY <1>3, <1>4, <1>8 DEF next

\* Hence their HBM stays empty.
LEMMA NeverFullInvariant == EvaluationSpec => []NeverFullInv
<1>1. EvaluationInit => NeverFullInv
  BY DEF EvaluationInit, NeverFullInv, NewReplay, Policies, Immediate
<1>2. PoliciesInv /\ NeverFullInv /\ [EvaluationNext]_<<vars, replays>> => NeverFullInv'
  <2> SUFFICES ASSUME PoliciesInv, NeverFullInv, [EvaluationNext]_<<vars, replays>>
               PROVE  NeverFullInv'
    OBVIOUS
  <2>1. CASE TraceEnds \/ UNCHANGED <<vars, replays>>
    BY <2>1 DEF TraceEnds, NeverFullInv
  <2>2. ASSUME NEW gap \in Gaps, NEW wait \in Waits, NEW c \in Chances, Replayed(gap, wait, c)
        PROVE  NeverFullInv'
    <3> SUFFICES ASSUME NEW policy \in Immediate
                 PROVE  replays'[policy].hbm = {} /\ replays'[policy].forced = {}
      BY DEF NeverFullInv
    <3> DEFINE fn == [ts \in Offers |-> Switches(policy, ts, wait, c)]
    <3>1. policy \in Policies
      BY DEF Immediate, Policies
    <3>2. replays'[policy] = Turn(replays[policy], fn, now + gap, wait)
      BY <2>2, <3>1 DEF Replayed
    <3>3. wait \in Nat
      BY MoriAssumption
    <3>4. \A ts \in Offers : fn[ts] \in Seq(Nat) /\ Len(fn[ts]) <= ts.n
      BY <3>1, <3>3, SwitchesTyped
    <3>5. \A ts \in Offers : Len(fn[ts]) >= 1 /\ fn[ts][1] = 0
      BY ImmediateSwitch
    <3>6. /\ DOMAIN replays[policy] = Fields
          /\ replays[policy].hbm = {} /\ replays[policy].forced = {}
      BY <3>1 DEF PoliciesInv, ReplayFits, NeverFullInv
    <3> HIDE DEF fn
    <3> QED
      BY <3>2, <3>3, <3>4, <3>5, <3>6, ImmediateTurn
  <2> QED
    BY <2>1, <2>2 DEF EvaluationNext
<1> QED
  BY <1>1, <1>2, CapacityInvariant, PTL DEF EvaluationSpec

\* A policy that leaves HBM at once is never kept out of it, whatever the load, the
\* capacity and the trace: a stay of no duration takes no slot (replay.py:126).
THEOREM ImmediateNeverForcedCorrect == EvaluationSpec => []ImmediateNeverForced
<1>1. NeverFullInv => ImmediateNeverForced
  BY DEF NeverFullInv, ImmediateNeverForced, Immediate
<1> QED
  BY <1>1, NeverFullInvariant, PTL

\* A switch behind the end of the wait is as good as none.
LEMMA MadeAtOnce ==
  ASSUME NEW s \in Seq(Nat), Len(s) >= 1, s[1] = 0, NEW w \in Nat,
         \A k \in 2 .. Len(s) : s[k] >= w
  PROVE  Made(s, w) = IF w = 0 THEN 0 ELSE 1
<1>1. Made(s, w) \in 0 .. Len(s) /\ \A k \in 1 .. Made(s, w) : s[k] < w
  BY MadeIsPrefix
<1>2. Made(s, w) = 0 => w = 0
  BY NoneMade
<1> DEFINE m == Made(s, w)
<1> HIDE DEF m
<1>3. m \in 0 .. Len(s) /\ (\A k \in 1 .. m : s[k] < w) /\ (m = 0 => w = 0)
  BY <1>1, <1>2 DEF m
<1>4. m >= 1 => s[1] < w
  BY <1>3
<1>5. ~(m >= 2)
  <2> SUFFICES ASSUME m >= 2 PROVE FALSE
    OBVIOUS
  <2>1. 2 \in 1 .. m /\ 2 \in 2 .. Len(s) /\ s[2] \in Nat
    BY <1>3
  <2>2. s[2] < w /\ s[2] >= w
    BY <1>3, <2>1
  <2> QED
    BY <2>1, <2>2
<1>6. m = IF w = 0 THEN 0 ELSE 1
  BY <1>3, <1>4, <1>5
<1> QED
  BY <1>6 DEF m

-----------------------------------------------------------------------------
(* The oldest goes first.                                                  *)

\* In order of arrival
Ordered(queue) == \A k, l \in DOMAIN queue : k < l => queue[k] < queue[l]

\* Resolved, and out of HBM by a time
GoneBy(row, time) ==
  /\ row.segs # << >>
  /\ \A k \in DOMAIN row.segs : row.segs[k].tier = "hbm" => Leaves(row, row.segs[k]) <= time

\* A deque in order stays so when its head leaves and the newest joins.
LEMMA PopKeepsOrder ==
  ASSUME NEW n \in Nat, NEW queue \in Seq(1 .. n), Ordered(queue), NEW gone \in 0 .. Len(queue)
  PROVE  Ordered(AfterPop(queue, gone, n + 1))
<1> DEFINE next == AfterPop(queue, gone, n + 1)
           rest == Len(queue) - gone
<1>1. /\ rest \in 0 .. Len(queue) /\ DOMAIN next = 1 .. rest + 1
      /\ \A k \in 1 .. rest : next[k] = queue[gone + k]
      /\ next[rest + 1] = n + 1
  BY QueueTail DEF AfterPop
<1>2. Len(queue) \in Nat /\ DOMAIN queue = 1 .. Len(queue) /\ gone \in Nat
  OBVIOUS
<1>3. rest \in Nat /\ \A k \in 1 .. rest : gone + k \in DOMAIN queue
  BY <1>1, <1>2
<1>4. \A k \in 1 .. rest : queue[gone + k] \in 1 .. n
  BY <1>3
<1> HIDE DEF next, rest
<1> SUFFICES ASSUME NEW k \in 1 .. rest + 1, NEW l \in 1 .. rest + 1, k < l
             PROVE  next[k] < next[l]
  BY <1>1 DEF Ordered, next
<1>5. k \in 1 .. rest
  BY <1>3
<1>6. CASE l = rest + 1
  <2>1. next[k] \in 1 .. n /\ next[l] = n + 1
    BY <1>1, <1>4, <1>5, <1>6
  <2> QED
    BY <2>1
<1>7. CASE l # rest + 1
  <2>1. l \in 1 .. rest
    BY <1>3, <1>7
  <2>2. gone + k < gone + l
    BY <1>2, <1>5, <2>1
  <2> QED
    BY <1>1, <1>3, <1>5, <2>1, <2>2 DEF Ordered
<1> QED
  BY <1>6, <1>7

\* So does a deque without its first, which is the oldest.
LEMMA DropKeepsOrder ==
  ASSUME NEW n \in Nat, NEW queue \in Seq(1 .. n), Ordered(queue), Len(queue) >= 1
  PROVE  /\ Ordered(RemoveAt(queue, 1))
         /\ \A k \in DOMAIN queue : queue[1] <= queue[k]
<1> DEFINE left == RemoveAt(queue, 1)
           len == Len(queue)
<1>1. len \in Nat /\ DOMAIN queue = 1 .. len
  OBVIOUS
<1>2. /\ left \in Seq(1 .. n) /\ Len(left) = len - 1
      /\ \A k \in 1 .. len - 1 : left[k] = queue[k + 1]
  BY QueueDrops
<1>3. \A k \in DOMAIN queue : queue[k] \in 1 .. n
  OBVIOUS
<1> HIDE DEF left, len
<1>4. DOMAIN left = 1 .. len - 1
  BY <1>2
<1>5. Ordered(left)
  <2> SUFFICES ASSUME NEW k \in 1 .. len - 1, NEW l \in 1 .. len - 1, k < l
               PROVE  left[k] < left[l]
    BY <1>4 DEF Ordered
  <2>1. k + 1 \in DOMAIN queue /\ l + 1 \in DOMAIN queue /\ k + 1 < l + 1
    BY <1>1
  <2> QED
    BY <1>2, <2>1 DEF Ordered
<1>6. ASSUME NEW k \in DOMAIN queue PROVE queue[1] <= queue[k]
  <2>1. 1 \in DOMAIN queue /\ (k = 1 \/ 1 < k)
    BY <1>1
  <2> QED
    BY <1>3, <2>1 DEF Ordered
<1> QED
  BY <1>5, <1>6 DEF left

\* The deque is in order of arrival, and when a context was evicted all those that
\* arrived before it were out of HBM for good.
OldestInv ==
  /\ Ordered(hbm)
  /\ \A i \in DOMAIN evicted :
       /\ i \in DOMAIN rows /\ evicted[i] \in Nat
       /\ \A j \in 1 .. i - 1 : GoneBy(rows[j], evicted[i])

\* What follows a step that resolves contexts and evicts at most one.
LEMMA OldestKept ==
  ASSUME OldestInv, rows \in Seq(MoriRows), rows' \in Seq(MoriRows), Len(rows) <= Len(rows)',
         Ordered(hbm)',
         \A j \in DOMAIN rows : rows[j].segs # << >> => rows'[j] = rows[j],
         \A i \in DOMAIN evicted' :
           \/ i \in DOMAIN evicted /\ evicted'[i] = evicted[i]
           \/ /\ i \in DOMAIN rows' /\ evicted'[i] \in Nat
              /\ \A j \in 1 .. i - 1 : GoneBy(rows'[j], evicted'[i])
  PROVE  OldestInv'
<1>1. ASSUME NEW i \in DOMAIN evicted', i \in DOMAIN evicted, evicted'[i] = evicted[i]
      PROVE  /\ i \in DOMAIN rows' /\ evicted'[i] \in Nat
             /\ \A j \in 1 .. i - 1 : GoneBy(rows'[j], evicted'[i])
  <2>1. i \in DOMAIN rows /\ evicted[i] \in Nat /\ \A j \in 1 .. i - 1 : GoneBy(rows[j], evicted[i])
    BY <1>1 DEF OldestInv
  <2>2. /\ Len(rows) \in Nat /\ DOMAIN rows = 1 .. Len(rows)
        /\ Len(rows') \in Nat /\ DOMAIN rows' = 1 .. Len(rows')
    OBVIOUS
  <2>3. i \in DOMAIN rows' /\ \A j \in 1 .. i - 1 : j \in DOMAIN rows
    BY <2>1, <2>2
  <2>4. ASSUME NEW j \in 1 .. i - 1 PROVE GoneBy(rows'[j], evicted'[i])
    <3>1. rows'[j] = rows[j] /\ GoneBy(rows[j], evicted[i])
      BY <2>1, <2>3 DEF GoneBy
    <3> QED
      BY <1>1, <3>1
  <2> QED
    BY <1>1, <2>1, <2>3, <2>4
<1>2. \A i \in DOMAIN evicted' :
        i \in DOMAIN rows' /\ evicted'[i] \in Nat /\ \A j \in 1 .. i - 1 : GoneBy(rows'[j], evicted'[i])
  BY <1>1
<1> QED
  BY <1>2 DEF OldestInv

\* One arrival at MORI: whoever is evicted was the oldest left.
LEMMA OldestArrive ==
  ASSUME MoriInv, MoriInv', OldestInv, NEW gap \in Gaps, NEW wait \in Waits, Arrive(gap, wait)
  PROVE  OldestInv'
<1> DEFINE t0 == now + gap
           fresh == [t0 |-> t0, wait |-> wait, segs |-> << >>]
           all == Append(rows, fresh)
           i == Len(all)
           gone == Resumed(hbm, all, t0)
           popped == Popped(hbm, gone)
           queue == AfterPop(hbm, gone, i)
           resumed == RowsAfter(all, popped)
           heap == PoolTick(cpu, t0)
           tier == IF PoolFree(heap, C_CPU) THEN "cpu" ELSE "discard"
           victim == queue[1]
           row == Resolve(all[victim], t0, tier)
<1>1. /\ gap \in Nat /\ wait \in Nat /\ now \in Nat /\ rows \in Seq(MoriRows)
      /\ rows' \in Seq(MoriRows) /\ C_HBM \in Nat
  BY MoriAssumption, TierPoolAssumption DEF MoriInv
<1>2. t0 \in Nat /\ now <= t0
  BY <1>1
<1>3. /\ ~drained
      /\ \/ /\ Len(queue) <= C_HBM
            /\ hbm' = queue /\ rows' = resumed /\ evicted' = evicted
         \/ /\ Len(queue) > C_HBM
            /\ hbm' = RemoveAt(queue, 1)
            /\ rows' = [resumed EXCEPT ![victim] = row]
            /\ evicted' = Noted(victim, t0)
  BY <1>1, ArriveIs
<1>4. fresh \in MoriRows /\ fresh.segs = << >>
  BY <1>1, <1>2 DEF MoriRows
<1> HIDE DEF fresh
<1>5. QueueInv(rows, hbm, now) /\ Ordered(hbm)
  BY <1>3 DEF MoriInv, OldestInv
<1>6. Moved(rows, all, hbm, queue, popped, resumed, t0)
  BY <1>1, <1>2, <1>4, <1>5, QueueMoves
<1>7. /\ Len(rows) \in Nat /\ i = Len(rows) + 1 /\ DOMAIN rows = 1 .. Len(rows)
      /\ all \in Seq(MoriRows) /\ DOMAIN all = 1 .. i
      /\ \A j \in DOMAIN rows : all[j] = rows[j]
  BY <1>1, <1>4
<1>8. hbm \in Seq(1 .. Len(rows)) /\ hbm \in Seq(DOMAIN all)
  <2>1. hbm \in Seq(DOMAIN rows) /\ DOMAIN rows \subseteq DOMAIN all
    BY <1>5, <1>7 DEF QueueInv
  <2> QED
    BY <1>7, <2>1
<1> HIDE DEF all
<1>9. gone \in 0 .. Len(hbm)
  BY <1>2, <1>7, <1>8, ResumedIsPrefix DEF gone
<1>10. Ordered(queue)
  BY <1>5, <1>7, <1>8, <1>9, PopKeepsOrder DEF queue
<1> HIDE DEF t0, i, gone, popped, queue, resumed, heap, tier, victim, row
<1>11. /\ resumed \in Seq(MoriRows) /\ DOMAIN resumed = 1 .. i
       /\ \A j \in DOMAIN all : j \notin popped => resumed[j] = all[j]
       /\ QueueInv(resumed, queue, t0) /\ Len(queue) >= 1
  BY <1>6, <1>7 DEF Moved
<1>12. ASSUME NEW j \in DOMAIN rows, rows[j].segs # << >>
       PROVE  j \in 1 .. i /\ resumed[j] = rows[j]
  <2>1. j \notin popped
    <3> SUFFICES ASSUME NEW k \in 1 .. gone, j = hbm[k] PROVE FALSE
      BY DEF popped, Popped
    <3>1. k \in DOMAIN hbm
      BY <1>8, <1>9
    <3> QED
      BY <1>5, <1>12, <3>1 DEF QueueInv
  <2>2. j \in DOMAIN all
    BY <1>7
  <2> QED
    BY <1>7, <1>11, <2>1, <2>2
<1>13. CASE hbm' = queue /\ rows' = resumed /\ evicted' = evicted
  <2>1. Ordered(hbm)'
    BY <1>10, <1>13 DEF Ordered
  <2>2. Len(rows) <= Len(rows')
    BY <1>7, <1>11, <1>13
  <2> QED
    BY <1>1, <1>12, <1>13, <2>1, <2>2, OldestKept
<1>14. CASE /\ hbm' = RemoveAt(queue, 1)
            /\ rows' = [resumed EXCEPT ![victim] = row]
            /\ evicted' = Noted(victim, t0)
  <2>1. queue \in Seq(1 .. i)
    BY <1>11 DEF QueueInv
  <2>2. /\ Ordered(RemoveAt(queue, 1)) /\ \A k \in DOMAIN queue : victim <= queue[k]
        /\ i \in Nat
    BY <1>7, <1>10, <1>11, <2>1, DropKeepsOrder DEF victim
  <2>3. Ordered(hbm)'
    BY <1>14, <2>2 DEF Ordered
  <2>4. 1 \in DOMAIN queue /\ victim \in 1 .. i /\ \A k \in DOMAIN queue : queue[k] \in 1 .. i
    <3>1. \A k \in DOMAIN queue : queue[k] \in 1 .. i
      BY <1>7, <2>1
    <3>2. 1 \in DOMAIN queue
      BY <1>11, <2>1
    <3> QED
      BY <3>1, <3>2 DEF victim
  <2>5. /\ DOMAIN rows' = 1 .. i
        /\ \A j \in 1 .. i : j # victim => rows'[j] = resumed[j]
    BY <1>11, <1>14
  <2>6. Len(rows) <= Len(rows')
    BY <1>1, <1>7, <2>2, <2>5
  <2>7. ASSUME NEW j \in DOMAIN rows, rows[j].segs # << >> PROVE rows'[j] = rows[j]
    <3>1. resumed[j] = rows[j] /\ j \in 1 .. i
      BY <1>12, <2>7
    <3>2. resumed[victim].segs = << >>
      BY <1>11, <2>4 DEF QueueInv, victim
    <3> QED
      BY <2>5, <2>7, <3>1, <3>2
  <2>8. \A j \in 1 .. victim - 1 : GoneBy(rows'[j], t0)
    <3> SUFFICES ASSUME NEW j \in 1 .. victim - 1 PROVE GoneBy(rows'[j], t0)
      OBVIOUS
    <3>1. j \in 1 .. i /\ j # victim /\ \A k \in DOMAIN queue : queue[k] # j
      BY <2>2, <2>4
    <3>2. GoneBy(resumed[j], t0)
      BY <1>11, <3>1 DEF QueueInv, GoneBy
    <3> QED
      BY <2>5, <3>1, <3>2
  <2>9. ASSUME NEW x \in DOMAIN evicted'
        PROVE  \/ x \in DOMAIN evicted /\ evicted'[x] = evicted[x]
               \/ /\ x \in DOMAIN rows' /\ evicted'[x] \in Nat
                  /\ \A j \in 1 .. x - 1 : GoneBy(rows'[j], evicted'[x])
    <3>1. x = victim \/ x \in DOMAIN evicted
      BY <1>14, <2>9 DEF Noted
    <3>2. evicted'[x] = IF x = victim THEN t0 ELSE evicted[x]
      BY <1>14, <2>9, <3>1 DEF Noted
    <3> QED
      BY <1>2, <2>4, <2>5, <2>8, <3>1, <3>2
  <2> QED
    BY <1>1, <2>3, <2>6, <2>7, <2>9, OldestKept
<1> QED
  BY <1>3, <1>13, <1>14

\* The end of the trace resolves who is left and evicts nobody.
LEMMA OldestDrain ==
  ASSUME MoriInv, MoriInv', OldestInv, Drain
  PROVE  OldestInv'
<1>1. /\ ~drained /\ hbm' = << >> /\ evicted' = evicted
      /\ rows' = [j \in DOMAIN rows |->
                   IF j \in ToSet(hbm) THEN Resolve(rows[j], End(rows[j]), "hbm") ELSE rows[j]]
  BY DEF Drain
<1>2. rows \in Seq(MoriRows) /\ rows' \in Seq(MoriRows) /\ QueueInv(rows, hbm, now)
  BY <1>1 DEF MoriInv
<1>3. Len(rows) <= Len(rows')
  <2>1. DOMAIN rows' = DOMAIN rows
    BY <1>1
  <2> QED
    BY <1>2, <2>1
<1>4. Ordered(hbm)'
  BY <1>1 DEF Ordered
<1>5. ASSUME NEW j \in DOMAIN rows, rows[j].segs # << >> PROVE rows'[j] = rows[j]
  <2>1. j \notin ToSet(hbm)
    BY <1>2, <1>5 DEF QueueInv, ToSet
  <2> QED
    BY <1>1, <2>1
<1> QED
  BY <1>1, <1>2, <1>3, <1>4, <1>5, OldestKept

\* MORI evicts in order of arrival, whatever the trace: when a context is taken out
\* of its wait, none that arrived before it is left in HBM.
THEOREM EvictsOldestFirstCorrect == EvaluationSpec => []EvictsOldestFirst
<1>1. EvaluationInit => OldestInv
  BY DEF EvaluationInit, Init, OldestInv, Ordered
<1>2. MoriInv /\ MoriInv' /\ OldestInv /\ [EvaluationNext]_<<vars, replays>> => OldestInv'
  <2> SUFFICES ASSUME MoriInv, MoriInv', OldestInv, [EvaluationNext]_<<vars, replays>>
               PROVE  OldestInv'
    OBVIOUS
  <2>1. CASE TraceEnds
    BY <2>1, OldestDrain DEF TraceEnds
  <2>2. ASSUME NEW gap \in Gaps, NEW wait \in Waits, NEW c \in Chances, Replayed(gap, wait, c)
        PROVE  OldestInv'
    BY <2>2, OldestArrive DEF Replayed
  <2>3. CASE UNCHANGED <<vars, replays>>
    BY <2>3 DEF OldestInv, vars, Ordered
  <2> QED
    BY <2>1, <2>2, <2>3 DEF EvaluationNext
<1>3. MoriInv /\ OldestInv => EvictsOldestFirst
  <2> SUFFICES ASSUME MoriInv, OldestInv,
                      NEW i \in DOMAIN evicted, NEW j \in 1 .. i - 1,
                      InTier(Timeline[j], "hbm", evicted[i])
               PROVE  FALSE
    BY DEF EvictsOldestFirst
  <2>1. rows \in Seq(MoriRows) /\ i \in DOMAIN rows /\ GoneBy(rows[j], evicted[i])
    BY DEF MoriInv, OldestInv
  <2>2. j \in DOMAIN rows /\ rows[j] \in MoriRows
    BY <2>1
  <2>3. Timeline[j] = rows[j]
    BY <2>1, <2>2, BelievedRow DEF Timeline, GoneBy
  <2>4. PICK k \in DOMAIN rows[j].segs :
          rows[j].segs[k].tier = "hbm" /\ evicted[i] < Leaves(rows[j], rows[j].segs[k])
    BY <2>3 DEF InTier
  <2>5. Leaves(rows[j], rows[j].segs[k]) <= evicted[i]
    BY <2>1, <2>4 DEF GoneBy
  <2>6. Leaves(rows[j], rows[j].segs[k]) \in Int /\ evicted[i] \in Nat
    BY <2>2, <2>4, RowLeaves DEF OldestInv
  <2> QED
    BY <2>4, <2>5, <2>6
<1> QED
  BY <1>1, <1>2, <1>3, CapacityInvariant, PTL DEF EvaluationSpec

-----------------------------------------------------------------------------
(* A full heap is a full tier.                                             *)

\* A slot of the heap is a context that has entered the tier, one slot for each
Backed(info, tier, heap, time) ==
  /\ \A e \in heap :
        /\ e[2] \in DOMAIN info
        /\ \E k \in DOMAIN info[e[2]].segs :
             /\ info[e[2]].segs[k].tier = tier
             /\ info[e[2]].t0 + info[e[2]].segs[k].at <= time
             /\ Leaves(info[e[2]], info[e[2]].segs[k]) = e[1]
  /\ \A e, f \in heap : e[2] = f[2] => e = f

\* The slots that are left after a tick are contexts that are in the tier then.
LEMMA BackedIsPresent ==
  ASSUME NEW info, NEW tier, NEW heap, NEW from \in Nat, NEW time \in Nat, from <= time,
         IsFiniteSet(heap), IsFiniteSet(DOMAIN info),
         \A i \in DOMAIN info : Dated(info[i]),
         Backed(info, tier, heap, from)
  PROVE  /\ Occupancy(info, tier, time) \in Nat
         /\ Cardinality(PoolTick(heap, time)) <= Occupancy(info, tier, time)
<1> DEFINE Here == {i \in DOMAIN info : InTier(info[i], tier, time)}
           ticked == PoolTick(heap, time)
           Named == {e[2] : e \in ticked}
           names == [e \in ticked |-> e[2]]
<1>1. IsFiniteSet(ticked) /\ ticked \subseteq heap /\ \A e \in ticked : e[1] > time
  BY TickedHeap DEF PoolTick
<1>2. Named \subseteq Here
  <2> SUFFICES ASSUME NEW e \in ticked PROVE e[2] \in Here
    OBVIOUS
  <2>1. e \in heap /\ e[1] > time
    BY <1>1
  <2>2. /\ e[2] \in DOMAIN info
        /\ \E k \in DOMAIN info[e[2]].segs :
             /\ info[e[2]].segs[k].tier = tier
             /\ info[e[2]].t0 + info[e[2]].segs[k].at <= from
             /\ Leaves(info[e[2]], info[e[2]].segs[k]) = e[1]
    BY <2>1 DEF Backed
  <2>3. PICK k \in DOMAIN info[e[2]].segs :
             /\ info[e[2]].segs[k].tier = tier
             /\ info[e[2]].t0 + info[e[2]].segs[k].at <= from
             /\ Leaves(info[e[2]], info[e[2]].segs[k]) = e[1]
    BY <2>2
  <2>4. info[e[2]].t0 \in Nat /\ info[e[2]].segs[k].at \in Nat
    BY <2>2 DEF Dated
  <2>5. info[e[2]].t0 + info[e[2]].segs[k].at <= time
    BY <2>3, <2>4
  <2>6. time < Leaves(info[e[2]], info[e[2]].segs[k])
    <3>1. info[e[2]].segs[k].dur \in Int
      BY <2>2 DEF Dated
    <3>2. e[1] \in Int
      BY <2>3, <2>4, <3>1 DEF Leaves
    <3> QED
      BY <2>1, <2>3, <3>2
  <2> QED
    BY <2>2, <2>3, <2>5, <2>6 DEF InTier
<1>3. names \in Bijection(ticked, Named)
  <2>1. \A e, f \in ticked : names[e] = names[f] => e = f
    BY <1>1 DEF Backed
  <2>2. names \in Injection(ticked, Named)
    BY <2>1 DEF Injection, IsInjective
  <2>3. names \in Surjection(ticked, Named)
    BY DEF Surjection
  <2> QED
    BY <2>2, <2>3 DEF Bijection
<1>4. IsFiniteSet(Named) /\ Cardinality(Named) = Cardinality(ticked)
  BY <1>1, <1>3, FS_Bijection DEF ExistsBijection
<1>5. IsFiniteSet(Here)
  <2>1. Here \subseteq DOMAIN info
    OBVIOUS
  <2> QED
    BY <2>1, FS_Subset
<1>6. Cardinality(Named) <= Cardinality(Here) /\ Cardinality(Here) \in Nat
  BY <1>2, <1>5, FS_Subset, FS_CardinalityType
<1> QED
  BY <1>4, <1>6 DEF Occupancy

\* The rows of a replay are finitely many.
LEMMA RowsFinite ==
  ASSUME NEW info \in Seq(Decisions)
  PROVE  IsFiniteSet(DOMAIN info) /\ \A i \in DOMAIN info : Dated(info[i])
<1>1. Len(info) \in Nat /\ DOMAIN info = 1 .. Len(info)
      /\ \A i \in DOMAIN info : info[i] \in Decisions
  OBVIOUS
<1>2. IsFiniteSet(1 .. Len(info))
  BY <1>1, FS_Interval
<1> QED
  BY <1>1, <1>2, DecisionsAreDated

\* When the pool has no free slot the tier is full.
LEMMA FullIsFull ==
  ASSUME NEW info \in Seq(Decisions), NEW tier, NEW cap \in Nat, NEW heap,
         NEW from \in Nat, NEW time \in Nat, from <= time,
         Fits(info, tier, cap, heap, from), Backed(info, tier, heap, from),
         ~PoolFree(PoolTick(heap, time), cap)
  PROVE  Occupancy(info, tier, time) = cap
<1>1. IsFiniteSet(heap) /\ Occupancy(info, tier, time) <= cap
  BY DEF Fits
<1>2. /\ Occupancy(info, tier, time) \in Nat
      /\ Cardinality(PoolTick(heap, time)) <= Occupancy(info, tier, time)
  BY <1>1, RowsFinite, BackedIsPresent
<1>3. Cardinality(PoolTick(heap, time)) \in Nat
  BY <1>1, TickedHeap, FS_CardinalityType
<1> QED
  BY <1>1, <1>2, <1>3 DEF PoolFree

\* A trajectory that is in a tier from its arrival on, if at all
AtOnceIn(segs, tier) == \A k \in DOMAIN segs : segs[k].tier = tier => segs[k].at = 0

\* Such a trajectory adds a slot that is taken at once.
LEMMA BackedAdded ==
  ASSUME NEW info \in Seq(Decisions), NEW row \in Decisions, NEW tier, NEW heap,
         NEW from \in Nat, from <= row.t0, Backed(info, tier, heap, from),
         AtOnceIn(row.segs, tier),
         \A k, l \in DOMAIN row.segs : row.segs[k].tier = row.segs[l].tier => k = l
  PROVE  Backed(Append(info, row), tier,
                PoolTick(heap, row.t0) \cup Slots(row, tier, Len(info) + 1), row.t0)
<1> DEFINE i == Len(info) + 1
           more == Append(info, row)
           old == PoolTick(heap, row.t0)
           new == Slots(row, tier, i)
<1>1. /\ Len(info) \in Nat /\ DOMAIN info = 1 .. Len(info) /\ DOMAIN more = 1 .. i
      /\ \A j \in DOMAIN info : more[j] = info[j] /\ info[j] \in Decisions
      /\ more[i] = row
  OBVIOUS
<1>2. row.t0 \in Nat /\ i \in DOMAIN more /\ i \notin DOMAIN info
  BY <1>1 DEF Decisions
<1>3. old \subseteq heap
  BY DEF PoolTick
<1>4. \A e \in new : e[2] = i /\ \E k \in DOMAIN row.segs :
                                   row.segs[k].tier = tier /\ e = <<Leaves(row, row.segs[k]), i>>
  BY DEF Slots
<1> HIDE DEF i, more, old, new
<1>5. ASSUME NEW e \in old \cup new
      PROVE  /\ e[2] \in DOMAIN more
             /\ \E k \in DOMAIN more[e[2]].segs :
                  /\ more[e[2]].segs[k].tier = tier
                  /\ more[e[2]].t0 + more[e[2]].segs[k].at <= row.t0
                  /\ Leaves(more[e[2]], more[e[2]].segs[k]) = e[1]
  <2>1. CASE e \in old
    <3>1. /\ e[2] \in DOMAIN info
          /\ \E k \in DOMAIN info[e[2]].segs :
               /\ info[e[2]].segs[k].tier = tier
               /\ info[e[2]].t0 + info[e[2]].segs[k].at <= from
               /\ Leaves(info[e[2]], info[e[2]].segs[k]) = e[1]
      BY <1>3, <2>1 DEF Backed
    <3>2. e[2] \in DOMAIN more /\ more[e[2]] = info[e[2]] /\ Dated(info[e[2]])
      BY <1>1, <3>1, DecisionsAreDated DEF i
    <3>3. PICK k \in DOMAIN info[e[2]].segs :
               /\ info[e[2]].segs[k].tier = tier
               /\ info[e[2]].t0 + info[e[2]].segs[k].at <= from
               /\ Leaves(info[e[2]], info[e[2]].segs[k]) = e[1]
      BY <3>1
    <3>4. info[e[2]].t0 + info[e[2]].segs[k].at <= row.t0
      BY <1>2, <3>2, <3>3 DEF Dated
    <3> QED
      BY <3>2, <3>3, <3>4
  <2>2. CASE e \in new
    <3>1. PICK k \in DOMAIN row.segs :
            row.segs[k].tier = tier /\ e = <<Leaves(row, row.segs[k]), i>>
      BY <1>4, <2>2
    <3>2. row.segs[k].at = 0
      BY <3>1 DEF AtOnceIn
    <3>3. e[1] = Leaves(row, row.segs[k]) /\ e[2] = i
      BY <3>1
    <3>4. row.t0 + row.segs[k].at <= row.t0
      BY <1>2, <3>2
    <3>5. more[e[2]] = row /\ e[2] \in DOMAIN more
      BY <1>1, <1>2, <3>3
    <3> QED
      BY <3>1, <3>3, <3>4, <3>5
  <2> QED
    BY <2>1, <2>2
<1>6. ASSUME NEW e \in old \cup new, NEW f \in old \cup new, e[2] = f[2]
      PROVE  e = f
  <2>1. CASE e \in old /\ f \in old
    BY <1>3, <1>6, <2>1 DEF Backed
  <2>2. CASE e \in new /\ f \in new
    BY <1>4, <2>2
  <2>3. \A x \in old : x[2] # i
    BY <1>2, <1>3 DEF Backed
  <2> QED
    BY <1>4, <1>6, <2>1, <2>2, <2>3
<1> QED
  BY <1>5, <1>6 DEF Backed, i, more, old, new

\* What is before a row, and the row, stay when another is appended.
LEMMA RowsStay ==
  ASSUME NEW info \in Seq(Decisions), NEW row \in Decisions
  PROVE  /\ Append(info, row) \in Seq(Decisions) /\ Len(Append(info, row)) = Len(info) + 1
         /\ Append(info, row)[Len(info) + 1] = row
         /\ SubSeq(Append(info, row), 1, Len(info) + 1 - 1) = info
         /\ \A i \in 1 .. Len(info) : /\ Append(info, row)[i] = info[i]
                                      /\ SubSeq(Append(info, row), 1, i - 1) = SubSeq(info, 1, i - 1)
<1>1. /\ Len(info) \in Nat
      /\ Append(info, row) \in Seq(Decisions) /\ Len(Append(info, row)) = Len(info) + 1
      /\ Append(info, row)[Len(info) + 1] = row
      /\ \A i \in 1 .. Len(info) : Append(info, row)[i] = info[i]
  OBVIOUS
<1>2. \A m \in 0 .. Len(info) :
        SubSeq(Append(info, row), 1, m) = SubSeq(info, 1, m)
  <2> SUFFICES ASSUME NEW m \in 0 .. Len(info)
               PROVE  SubSeq(Append(info, row), 1, m) = SubSeq(info, 1, m)
    OBVIOUS
  <2>1. /\ SubSeq(Append(info, row), 1, m) = [j \in 1 .. m |-> Append(info, row)[j]]
        /\ SubSeq(info, 1, m) = [j \in 1 .. m |-> info[j]]
    BY <1>1
  <2>2. \A j \in 1 .. m : Append(info, row)[j] = info[j]
    BY <1>1
  <2> QED
    BY <2>1, <2>2
<1>3. SubSeq(info, 1, Len(info)) = info
  OBVIOUS
<1>4. Len(info) \in 0 .. Len(info) /\ Len(info) + 1 - 1 = Len(info)
      /\ \A i \in 1 .. Len(info) : i - 1 \in 0 .. Len(info)
  BY <1>1
<1> QED
  BY <1>1, <1>2, <1>3, <1>4

-----------------------------------------------------------------------------
(* Who is kept out of HBM.                                                 *)

\* Whoever was demoted at arrival found this many contexts in HBM
KeptOut(r) ==
  /\ r.forced \subseteq 1 .. Len(r.rows)
  /\ \A i \in r.forced : Occupancy(SubSeq(r.rows, 1, i - 1), "hbm", r.rows[i].t0) = C_HBM

\* The trajectory of a policy is in HBM from the start, and in no tier twice.
LEMMA SegmentsFromHbm ==
  ASSUME NEW ts \in Offers, NEW s \in Seq(Nat), Len(s) <= ts.n, NEW w \in Nat
  PROVE  /\ AtOnceIn(Segments(ts, s, w), "hbm")
         /\ \A k, l \in DOMAIN Segments(ts, s, w) :
              Segments(ts, s, w)[k].tier = Segments(ts, s, w)[l].tier => k = l
         /\ ts = TS_HBM_DISCARD => \A k \in DOMAIN Segments(ts, s, w) :
                                     Segments(ts, s, w)[k].tier # "cpu"
<1> DEFINE segs == Segments(ts, s, w)
<1>1. /\ ts.n \in Nat /\ ts.names[0] = "hbm"
      /\ \A k, l \in 0 .. ts.n : ts.names[k] = ts.names[l] => k = l
      /\ ts = TS_HBM_DISCARD => \A k \in 0 .. ts.n : ts.names[k] # "cpu"
  <2>1. ts.names[0] = "hbm"
    BY DEF Offers, TS_FULL, TS_HBM_DISCARD, NewTierSystem, FromZero
  <2> QED
    BY <2>1, OffersTyped
<1>2. /\ DOMAIN segs \subseteq 1 .. ts.n + 1
      /\ \A k \in DOMAIN segs : segs[k].tier = ts.names[k - 1]
  BY SegmentsTyped
<1>3. Made(s, w) \in Nat
  BY MadeIsPrefix
<1>4. \A k \in DOMAIN segs : segs[k] = Seg(ts.names[k - 1], Bound(s, w, k),
                                           Bound(s, w, k + 1) - Bound(s, w, k))
  BY DEF Segments
<1>5. \A k \in DOMAIN segs : segs[k].at = Bound(s, w, k)
  BY <1>4 DEF Seg
<1>6. Bound(s, w, 1) = 0
  BY DEF Bound
<1> HIDE DEF segs
<1>7. \A k \in DOMAIN segs : k \in Int /\ k - 1 \in 0 .. ts.n
  BY <1>1, <1>2
<1>8. \A k, l \in DOMAIN segs : segs[k].tier = segs[l].tier => k = l
  <2> SUFFICES ASSUME NEW k \in DOMAIN segs, NEW l \in DOMAIN segs,
                      segs[k].tier = segs[l].tier
               PROVE  k = l
    OBVIOUS
  <2>1. k - 1 = l - 1
    BY <1>1, <1>2, <1>7
  <2> QED
    BY <1>7, <2>1
<1>9. \A k \in DOMAIN segs : segs[k].tier = "hbm" => segs[k].at = 0
  <2> SUFFICES ASSUME NEW k \in DOMAIN segs, segs[k].tier = "hbm" PROVE segs[k].at = 0
    OBVIOUS
  <2>1. k - 1 = 0
    <3>1. 0 \in 0 .. ts.n
      BY <1>1
    <3> QED
      BY <1>1, <1>2, <1>7, <3>1
  <2>2. k = 1
    BY <1>7, <2>1
  <2> QED
    BY <1>5, <1>6, <2>2
<1>10. ts = TS_HBM_DISCARD => \A k \in DOMAIN segs : segs[k].tier # "cpu"
  BY <1>1, <1>2, <1>7
<1> QED
  BY <1>8, <1>9, <1>10 DEF AtOnceIn, segs

\* What Placed makes of a replay, after the tick.
LEMMA PlacedIs ==
  ASSUME NEW r, DOMAIN r = Fields, NEW t0, NEW wait, NEW segs, NEW offered
  PROVE  LET row == [t0 |-> t0, wait |-> wait, segs |-> segs, offered |-> offered]
             new == Placed(Ticked(r, t0), t0, wait, segs, offered)
         IN /\ DOMAIN new = Fields
            /\ new.rows = Append(r.rows, row)
            /\ new.hbm = PoolTick(r.hbm, t0) \cup Slots(row, "hbm", Len(r.rows) + 1)
            /\ new.cpu = PoolTick(r.cpu, t0) \cup Slots(row, "cpu", Len(r.rows) + 1)
            /\ new.forced = r.forced
BY DEF Placed, Ticked, Fields

\* One row more leaves what was said of the earlier demotions true.
LEMMA KeptOutStays ==
  ASSUME NEW r, r.rows \in Seq(Decisions), KeptOut(r), NEW row \in Decisions,
         NEW i \in r.forced
  PROVE  /\ i \in 1 .. Len(r.rows) + 1
         /\ Occupancy(SubSeq(Append(r.rows, row), 1, i - 1), "hbm", Append(r.rows, row)[i].t0)
              = C_HBM
<1>1. i \in 1 .. Len(r.rows)
  BY DEF KeptOut
<1>2. /\ Append(r.rows, row)[i] = r.rows[i]
      /\ SubSeq(Append(r.rows, row), 1, i - 1) = SubSeq(r.rows, 1, i - 1)
  BY <1>1, RowsStay
<1>3. Occupancy(SubSeq(r.rows, 1, i - 1), "hbm", r.rows[i].t0) = C_HBM
  BY DEF KeptOut
<1>4. Occupancy(SubSeq(Append(r.rows, row), 1, i - 1), "hbm", Append(r.rows, row)[i].t0)
        = Occupancy(SubSeq(r.rows, 1, i - 1), "hbm", r.rows[i].t0)
  BY <1>2, Zenon
<1>5. i \in 1 .. Len(r.rows) + 1
  BY <1>1
<1> QED
  BY <1>3, <1>4, <1>5, Zenon

\* A turn demotes only from an HBM that is full.
LEMMA TurnKeepsOut ==
  ASSUME NEW r, NEW from \in Nat, ReplayFits(r, from), Backed(r.rows, "hbm", r.hbm, from),
         KeptOut(r),
         NEW t0 \in Nat, from <= t0, NEW wait \in Nat, NEW fn,
         \A ts \in Offers : fn[ts] \in Seq(Nat) /\ Len(fn[ts]) <= ts.n
  PROVE  LET next == Turn(r, fn, t0, wait)
         IN Backed(next.rows, "hbm", next.hbm, t0) /\ KeptOut(next)
<1> DEFINE u == Ticked(r, t0)
           next == Turn(r, fn, t0, wait)
<1>1. /\ DOMAIN r = Fields /\ r.rows \in Seq(Decisions) /\ Len(r.rows) \in Nat
      /\ Fits(r.rows, "hbm", C_HBM, r.hbm, from)
      /\ C_HBM \in Nat
  BY TierPoolAssumption DEF ReplayFits
<1>2. u.hbm = PoolTick(r.hbm, t0) /\ u.rows = r.rows /\ u.forced = r.forced
  BY <1>1 DEF Ticked, Fields
<1> HIDE DEF u
<1>3. CASE PoolFree(u.hbm, C_HBM)
  <2> DEFINE ts == IF PoolFree(u.cpu, C_CPU) THEN TS_FULL ELSE TS_HBM_DISCARD
             segs == Segments(ts, fn[ts], wait)
             offered == {ts.names[k] : k \in 0 .. ts.n}
             row == [t0 |-> t0, wait |-> wait, segs |-> segs, offered |-> offered]
  <2>1. ts \in Offers
    BY DEF Offers
  <2>2. next = Placed(u, t0, wait, segs, offered)
    BY <1>3 DEF Turn, u, Admitted
  <2> HIDE DEF ts
  <2>3. /\ segs \in Seq(Segs) /\ AtOnceIn(segs, "hbm")
        /\ \A k, l \in DOMAIN segs : segs[k].tier = segs[l].tier => k = l
    BY <2>1, SegmentsTyped, SegmentsFromHbm
  <2>4. offered \in SUBSET Tiers
    BY <2>1, OffersTyped
  <2> HIDE DEF segs, offered, next
  <2>5. row \in Decisions /\ row.t0 = t0 /\ row.segs = segs
    BY <2>3, <2>4 DEF Decisions
  <2>6. /\ next.rows = Append(r.rows, row)
        /\ next.hbm = PoolTick(r.hbm, t0) \cup Slots(row, "hbm", Len(r.rows) + 1)
        /\ next.forced = r.forced
    BY <1>1, <2>2, PlacedIs DEF u
  <2> HIDE DEF row
  <2>7. Backed(next.rows, "hbm", next.hbm, t0)
    <3>1. Backed(Append(r.rows, row), "hbm",
                 PoolTick(r.hbm, row.t0) \cup Slots(row, "hbm", Len(r.rows) + 1), row.t0)
      BY <1>1, <2>3, <2>5, BackedAdded
    <3> QED
      BY <2>5, <2>6, <3>1
  <2>8. Len(next.rows) = Len(r.rows) + 1
    BY <1>1, <2>5, <2>6
  <2>9. KeptOut(next)
    BY <1>1, <2>5, <2>6, <2>8, KeptOutStays DEF KeptOut
  <2> QED
    BY <2>7, <2>9 DEF next
<1>4. CASE ~PoolFree(u.hbm, C_HBM)
  <2> DEFINE tier == IF PoolFree(u.cpu, C_CPU) THEN "cpu" ELSE "discard"
             segs == <<Seg(tier, 0, wait)>>
             offered == {tier}
             row == [t0 |-> t0, wait |-> wait, segs |-> segs, offered |-> offered]
             placed == Placed(u, t0, wait, segs, offered)
             i == Len(r.rows) + 1
  <2>1. tier \in Tiers /\ tier # "hbm"
    BY DEF Tiers
  <2>2. next = [placed EXCEPT !.forced = @ \cup {i}]
    BY <1>2, <1>4 DEF Turn, u, Demoted
  <2> HIDE DEF tier, next
  <2>3. Seg(tier, 0, wait) \in Segs /\ Seg(tier, 0, wait).tier = tier
    BY <2>1, SegTyped
  <2>4. /\ segs \in Seq(Segs) /\ DOMAIN segs = {1} /\ segs[1].tier = tier
    BY <2>3
  <2> HIDE DEF segs
  <2>5. row \in Decisions /\ row.t0 = t0 /\ row.segs = segs
    BY <2>1, <2>4 DEF Decisions
  <2> HIDE DEF offered
  <2>6. /\ DOMAIN placed = Fields
        /\ placed.rows = Append(r.rows, row)
        /\ placed.hbm = PoolTick(r.hbm, t0) \cup Slots(row, "hbm", i)
        /\ placed.forced = r.forced
    BY <1>1, PlacedIs DEF u
  <2> HIDE DEF row, placed
  <2>7. /\ next.rows = Append(r.rows, row)
        /\ next.hbm = PoolTick(r.hbm, t0) \cup Slots(row, "hbm", i)
        /\ next.forced = r.forced \cup {i}
    BY <2>2, <2>6 DEF Fields
  <2>8. AtOnceIn(row.segs, "hbm") /\ \A k, l \in DOMAIN row.segs : k = l
    BY <2>1, <2>4, <2>5 DEF AtOnceIn
  <2>9. Backed(next.rows, "hbm", next.hbm, t0)
    <3>1. Backed(Append(r.rows, row), "hbm",
                 PoolTick(r.hbm, row.t0) \cup Slots(row, "hbm", Len(r.rows) + 1), row.t0)
      BY <1>1, <2>5, <2>8, BackedAdded
    <3> QED
      BY <2>5, <2>7, <3>1
  <2>10. Occupancy(r.rows, "hbm", t0) = C_HBM
    BY <1>1, <1>2, <1>4, FullIsFull
  <2>11. /\ Len(next.rows) = i
         /\ Append(r.rows, row)[i] = row /\ SubSeq(Append(r.rows, row), 1, i - 1) = r.rows
    BY <1>1, <2>5, <2>7, RowsStay
  <2>12. ASSUME NEW j \in next.forced
         PROVE  /\ j \in 1 .. i
                /\ Occupancy(SubSeq(next.rows, 1, j - 1), "hbm", next.rows[j].t0) = C_HBM
    <3>1. CASE j = i
      <4>1. SubSeq(next.rows, 1, j - 1) = r.rows /\ next.rows[j].t0 = t0
        BY <2>5, <2>7, <2>11, <3>1
      <4>2. j \in 1 .. i
        BY <1>1, <3>1
      <4> QED
        BY <2>10, <4>1, <4>2, Zenon
    <3>2. CASE j \in r.forced
      BY <1>1, <2>5, <2>7, <3>2, KeptOutStays
    <3> QED
      BY <2>7, <3>1, <3>2
  <2>13. KeptOut(next)
    BY <2>11, <2>12 DEF KeptOut
  <2> QED
    BY <2>9, <2>13 DEF next
<1> QED
  BY <1>3, <1>4

-----------------------------------------------------------------------------
(* Who is kept out of DRAM by a policy that demotes at once.               *)

\* Whoever was discarded at arrival found this many contexts in DRAM
Refused(info) ==
  \A i \in DOMAIN info :
    EndTier(info[i]) = "discard"
      => Occupancy(SubSeq(info, 1, i - 1), "cpu", info[i].t0) = C_CPU

\* always_cpu enters DRAM on arrival, and is discarded only where DRAM is not offered.
LEMMA AlwaysCpuSegments ==
  ASSUME NEW ts \in Offers, NEW w \in Nat
  PROVE  LET segs == Segments(ts, <<0>>, w)
         IN /\ AtOnceIn(segs, "cpu")
            /\ Last(segs).tier = "discard" => ts = TS_HBM_DISCARD
<1> DEFINE s == <<0>>
           segs == Segments(ts, s, w)
           m == IF w = 0 THEN 0 ELSE 1
<1>1. /\ s \in Seq(Nat) /\ Len(s) = 1 /\ s[1] = 0
      /\ \A k \in 2 .. Len(s) : s[k] >= w
  OBVIOUS
<1> HIDE DEF s
<1>2. Made(s, w) = m
  BY <1>1, MadeAtOnce
<1>3. segs = [k \in 1 .. m + 1 |-> Seg(ts.names[k - 1], Bound(s, w, k),
                                       Bound(s, w, k + 1) - Bound(s, w, k))]
  BY <1>2 DEF Segments
<1>4. m \in {0, 1}
  OBVIOUS
<1>5. m = 1 => Bound(s, w, 2) = 0
  BY <1>1, <1>2 DEF Bound
<1>6. Bound(s, w, 1) = 0
  BY DEF Bound
<1> HIDE DEF segs, m
<1>7. \A k \in DOMAIN segs : segs[k].at = 0 /\ segs[k].tier = ts.names[k - 1]
  <2>1. \A k \in DOMAIN segs : segs[k].at = Bound(s, w, k) /\ segs[k].tier = ts.names[k - 1]
    BY <1>3 DEF Seg
  <2>2. \A k \in DOMAIN segs : k = 1 \/ (k = 2 /\ m = 1)
    BY <1>3, <1>4
  <2> QED
    BY <1>5, <1>6, <2>1, <2>2
<1>8. Len(segs) = m + 1 /\ Last(segs) = segs[m + 1] /\ m + 1 \in DOMAIN segs
  BY <1>3, <1>4 DEF Last
<1>9. ts = TS_FULL => ts.names[0] = "hbm" /\ ts.names[1] = "cpu"
  BY DEF TS_FULL, NewTierSystem, FromZero
<1>10. ts = TS_FULL => Last(segs).tier # "discard"
  <2> DEFINE l == m + 1
  <2>1. l \in DOMAIN segs /\ Last(segs) = segs[l] /\ l - 1 \in {0, 1}
    BY <1>4, <1>8
  <2> HIDE DEF l
  <2>2. Last(segs).tier = ts.names[l - 1]
    BY <1>7, <2>1
  <2>3. CASE l - 1 = 0
    BY <1>9, <2>2, <2>3
  <2>4. CASE l - 1 = 1
    BY <1>9, <2>2, <2>4
  <2> QED
    BY <2>1, <2>3, <2>4
<1> QED
  BY <1>7, <1>10 DEF AtOnceIn, segs, s, Offers

\* A turn of always_cpu discards only where DRAM is full.
LEMMA AlwaysCpuTurn ==
  ASSUME NEW r, NEW from \in Nat, ReplayFits(r, from), r.hbm = {},
         Backed(r.rows, "cpu", r.cpu, from), Refused(r.rows),
         NEW t0 \in Nat, from <= t0, NEW wait \in Nat, NEW fn,
         \A ts \in Offers : fn[ts] = << 0 >>
  PROVE  LET next == Turn(r, fn, t0, wait)
         IN Backed(next.rows, "cpu", next.cpu, t0) /\ Refused(next.rows)
<1> DEFINE u == Ticked(r, t0)
           next == Turn(r, fn, t0, wait)
           ts == IF PoolFree(u.cpu, C_CPU) THEN TS_FULL ELSE TS_HBM_DISCARD
           segs == Segments(ts, <<0>>, wait)
           offered == {ts.names[k] : k \in 0 .. ts.n}
           row == [t0 |-> t0, wait |-> wait, segs |-> segs, offered |-> offered]
           i == Len(r.rows) + 1
<1>1. /\ DOMAIN r = Fields /\ r.rows \in Seq(Decisions) /\ Len(r.rows) \in Nat
      /\ Fits(r.rows, "cpu", C_CPU, r.cpu, from)
      /\ C_HBM \in Nat \ {0} /\ C_CPU \in Nat
  BY TierPoolAssumption DEF ReplayFits
<1>2. u.hbm = {} /\ u.cpu = PoolTick(r.cpu, t0) /\ u.rows = r.rows
  <2>1. PoolTick({}, t0) = {}
    BY DEF PoolTick
  <2> QED
    BY <1>1, <2>1 DEF Ticked, Fields
<1>3. ts \in Offers
  BY DEF Offers
<1>4. next = Placed(u, t0, wait, segs, offered)
  <2>1. PoolFree(u.hbm, C_HBM)
    <3>1. Cardinality({}) = 0
      BY FS_EmptySet
    <3> QED
      BY <1>1, <1>2, <3>1 DEF PoolFree
  <2> HIDE DEF u
  <2>2. fn[ts] = <<0>>
    BY <1>3
  <2>3. next = Admitted(u, fn, t0, wait)
    BY <2>1 DEF Turn, u
  <2> QED
    BY <2>2, <2>3 DEF Admitted
<1>5. ts = TS_HBM_DISCARD => ~PoolFree(u.cpu, C_CPU)
  <2>1. TS_FULL.n = 2 /\ TS_HBM_DISCARD.n = 1
    BY DEF TS_FULL, TS_HBM_DISCARD, NewTierSystem
  <2> QED
    BY <2>1
<1> HIDE DEF u, ts, next
<1>6. /\ segs \in Seq(Segs)
      /\ AtOnceIn(segs, "cpu") /\ (Last(segs).tier = "discard" => ts = TS_HBM_DISCARD)
      /\ \A k, l \in DOMAIN segs : segs[k].tier = segs[l].tier => k = l
  <2>1. ts.n \in Nat /\ ts.n >= 1
    BY <1>3, OffersValid
  <2>2. <<0>> \in Seq(Nat) /\ Len(<<0>>) <= ts.n
    BY <2>1
  <2>3. segs \in Seq(Segs) /\ \A k, l \in DOMAIN segs : segs[k].tier = segs[l].tier => k = l
    BY <1>3, <2>2, SegmentsTyped, SegmentsFromHbm
  <2> QED
    BY <1>3, <2>3, AlwaysCpuSegments
<1>7. offered \in SUBSET Tiers
  BY <1>3, OffersTyped
<1> HIDE DEF segs, offered
<1>8. row \in Decisions /\ row.t0 = t0 /\ row.segs = segs
  BY <1>6, <1>7 DEF Decisions
<1>9. /\ next.rows = Append(r.rows, row)
      /\ next.cpu = PoolTick(r.cpu, t0) \cup Slots(row, "cpu", i)
  BY <1>1, <1>4, PlacedIs DEF u
<1> HIDE DEF row
<1>10. Backed(next.rows, "cpu", next.cpu, t0)
  <2>1. Backed(Append(r.rows, row), "cpu",
               PoolTick(r.cpu, row.t0) \cup Slots(row, "cpu", Len(r.rows) + 1), row.t0)
    BY <1>1, <1>6, <1>8, BackedAdded
  <2> QED
    BY <1>8, <1>9, <2>1
<1>11. Refused(next.rows)
  <2> SUFFICES ASSUME NEW j \in 1 .. i, EndTier(next.rows[j]) = "discard"
               PROVE  Occupancy(SubSeq(next.rows, 1, j - 1), "cpu", next.rows[j].t0) = C_CPU
    <3>1. DOMAIN next.rows = 1 .. i
      BY <1>1, <1>8, <1>9
    <3> QED
      BY <3>1 DEF Refused
  <2>1. CASE j = i
    <3>1. next.rows[j] = row /\ SubSeq(next.rows, 1, j - 1) = r.rows
      BY <1>1, <1>8, <1>9, <2>1, RowsStay
    <3>2. ~PoolFree(PoolTick(r.cpu, t0), C_CPU)
      BY <1>2, <1>5, <1>6, <1>8, <3>1 DEF EndTier
    <3>3. Occupancy(r.rows, "cpu", t0) = C_CPU
      BY <1>1, <3>2, FullIsFull
    <3>4. next.rows[j].t0 = t0
      BY <1>8, <3>1
    <3> QED
      BY <3>1, <3>3, <3>4, Zenon
  <2>2. CASE j # i
    <3>1. j \in 1 .. Len(r.rows) /\ j \in DOMAIN r.rows
      BY <1>1, <2>2
    <3>2. next.rows[j] = r.rows[j] /\ SubSeq(next.rows, 1, j - 1) = SubSeq(r.rows, 1, j - 1)
      BY <1>1, <1>8, <1>9, <3>1, RowsStay
    <3>3. Occupancy(SubSeq(r.rows, 1, j - 1), "cpu", r.rows[j].t0) = C_CPU
      BY <3>1, <3>2 DEF Refused
    <3> QED
      BY <3>2, <3>3, Zenon
  <2> QED
    BY <2>1, <2>2
<1> QED
  BY <1>10, <1>11 DEF next

-----------------------------------------------------------------------------
(* Who is kept out of DRAM by MORI.                                        *)

\* The others that are in DRAM at a time
InDram(info, i, time) == {j \in DOMAIN info \ {i} : InTier(info[j], "cpu", time)}

\* The slots of DRAM are contexts in it, and whoever was evicted and discarded found
\* no fewer than its capacity there.
DramInv ==
  /\ ~drained => Backed(rows, "cpu", cpu, now)
  /\ \A i \in DOMAIN evicted :
       /\ i \in DOMAIN rows /\ rows[i].segs # << >>
       /\ EndTier(rows[i]) = "discard" => Cardinality(InDram(rows, i, evicted[i])) >= C_CPU

\* The rows of MORI are rows of natural times.
LEMMA MoriRowsDated ==
  ASSUME NEW info \in Seq(MoriRows)
  PROVE  IsFiniteSet(DOMAIN info) /\ \A i \in DOMAIN info : Dated(info[i])
<1>1. Len(info) \in Nat /\ DOMAIN info = 1 .. Len(info)
      /\ \A i \in DOMAIN info : info[i] \in MoriRows
  OBVIOUS
<1>2. IsFiniteSet(1 .. Len(info))
  BY <1>1, FS_Interval
<1>3. ASSUME NEW row \in MoriRows PROVE Dated(row)
  <2>1. row.t0 \in Nat /\ row.wait \in Nat /\ row.segs \in Seq(Segs)
    BY DEF MoriRows
  <2>2. \A k \in DOMAIN row.segs : row.segs[k] \in Segs
    BY <2>1
  <2> QED
    BY <2>1, <2>2 DEF Segs, Dated
<1> QED
  BY <1>1, <1>2, <1>3

\* Where a row that leaves HBM goes, and when it is there.
LEMMA ResolvedRow ==
  ASSUME NEW row \in MoriRows, NEW time \in Nat, row.t0 <= time,
         NEW tier \in {"cpu", "discard"}
  PROVE  LET new == Resolve(row, time, tier)
         IN /\ new.segs # << >> /\ End(new) = End(row)
            /\ EndTier(new) \in {"hbm", tier}
            /\ EndTier(new) = "cpu" =>
                 \E k \in DOMAIN new.segs :
                   /\ new.segs[k].tier = "cpu"
                   /\ new.t0 + new.segs[k].at <= time
                   /\ Leaves(new, new.segs[k]) = End(new)
<1> DEFINE new == Resolve(row, time, tier)
           dur == IF time - row.t0 <= row.wait THEN time - row.t0 ELSE row.wait
           rest == row.wait - dur
<1>1. row.t0 \in Nat /\ row.wait \in Nat
  BY DEF MoriRows
<1>2. dur \in Nat /\ rest \in Nat /\ row.t0 + dur <= time /\ dur + rest = row.wait
  BY <1>1
<1>3. new = [row EXCEPT !.segs = IF rest <= 0 THEN <<Seg("hbm", 0, dur)>>
                                 ELSE <<Seg("hbm", 0, dur), Seg(tier, dur, rest)>>]
  BY DEF Resolve
<1> HIDE DEF new, dur, rest
<1>4. new.t0 = row.t0 /\ new.wait = row.wait /\ End(new) = End(row)
  BY <1>3 DEF MoriRows, End
<1>5. CASE rest <= 0
  <2>1. new.segs = <<Seg("hbm", 0, dur)>>
    BY <1>3, <1>5 DEF MoriRows
  <2>2. Len(new.segs) = 1 /\ new.segs[1].tier = "hbm" /\ new.segs # << >>
    BY <2>1 DEF Seg
  <2>3. EndTier(new) = "hbm"
    BY <2>2 DEF EndTier, Last
  <2> QED
    BY <1>4, <2>2, <2>3 DEF new
<1>6. CASE ~(rest <= 0)
  <2>1. new.segs = <<Seg("hbm", 0, dur), Seg(tier, dur, rest)>>
    BY <1>3, <1>6 DEF MoriRows
  <2>2. /\ DOMAIN new.segs = 1 .. 2 /\ Len(new.segs) = 2 /\ new.segs # << >>
        /\ new.segs[2].tier = tier /\ new.segs[2].at = dur /\ new.segs[2].dur = rest
    BY <2>1 DEF Seg
  <2>3. EndTier(new) = tier
    BY <2>2 DEF EndTier, Last
  <2>4. new.t0 + new.segs[2].at <= time /\ Leaves(new, new.segs[2]) = End(new)
    BY <1>1, <1>2, <1>4, <2>2 DEF Leaves, End
  <2>5. EndTier(new) = "cpu" => new.segs[2].tier = "cpu" /\ 2 \in DOMAIN new.segs
    BY <2>2, <2>3
  <2> QED
    BY <1>4, <2>2, <2>3, <2>4, <2>5 DEF new
<1> QED
  BY <1>5, <1>6

\* Resolved rows stay as they are
Settled(old, new) ==
  DOMAIN old \subseteq DOMAIN new /\ \A j \in DOMAIN old : old[j].segs # << >> => new[j] = old[j]

\* Hence nobody who was in DRAM at some time is taken out of it afterwards.
LEMMA DramStays ==
  ASSUME NEW old \in Seq(MoriRows), NEW new \in Seq(MoriRows), Settled(old, new),
         NEW i, NEW time
  PROVE  /\ InDram(old, i, time) \subseteq InDram(new, i, time)
         /\ IsFiniteSet(InDram(new, i, time))
         /\ Cardinality(InDram(old, i, time)) \in Nat
         /\ Cardinality(InDram(new, i, time)) \in Nat
         /\ Cardinality(InDram(old, i, time)) <= Cardinality(InDram(new, i, time))
<1>1. InDram(old, i, time) \subseteq InDram(new, i, time)
  <2> SUFFICES ASSUME NEW j \in DOMAIN old, j # i, InTier(old[j], "cpu", time)
               PROVE  j \in DOMAIN new /\ InTier(new[j], "cpu", time)
    BY DEF InDram
  <2>1. old[j].segs # << >>
    BY DEF InTier
  <2> QED
    BY <2>1 DEF Settled
<1>2. IsFiniteSet(InDram(new, i, time))
  <2>1. InDram(new, i, time) \subseteq DOMAIN new
    BY DEF InDram
  <2> QED
    BY <2>1, MoriRowsDated, FS_Subset
<1> QED
  BY <1>1, <1>2, FS_Subset, FS_CardinalityType

\* What is backed stays backed.
LEMMA BackedStays ==
  ASSUME NEW old \in Seq(MoriRows), NEW new \in Seq(MoriRows), Settled(old, new),
         NEW heap, NEW from \in Nat, NEW time \in Nat, from <= time,
         Backed(old, "cpu", heap, from)
  PROVE  Backed(new, "cpu", PoolTick(heap, time), time)
<1>1. PoolTick(heap, time) \subseteq heap
  BY DEF PoolTick
<1>2. ASSUME NEW e \in heap
      PROVE  /\ e[2] \in DOMAIN new
             /\ \E k \in DOMAIN new[e[2]].segs :
                  /\ new[e[2]].segs[k].tier = "cpu"
                  /\ new[e[2]].t0 + new[e[2]].segs[k].at <= time
                  /\ Leaves(new[e[2]], new[e[2]].segs[k]) = e[1]
  <2>1. e[2] \in DOMAIN old
    BY DEF Backed
  <2>2. PICK k \in DOMAIN old[e[2]].segs :
          /\ old[e[2]].segs[k].tier = "cpu"
          /\ old[e[2]].t0 + old[e[2]].segs[k].at <= from
          /\ Leaves(old[e[2]], old[e[2]].segs[k]) = e[1]
    BY DEF Backed
  <2>3. old[e[2]].segs # << >>
    BY <2>2
  <2>4. new[e[2]] = old[e[2]] /\ e[2] \in DOMAIN new
    BY <2>1, <2>3 DEF Settled
  <2>5. old[e[2]].t0 \in Nat /\ old[e[2]].segs[k].at \in Nat
    BY <2>1, <2>2, MoriRowsDated DEF Dated
  <2>6. old[e[2]].t0 + old[e[2]].segs[k].at <= time
    BY <2>2, <2>5
  <2> QED
    BY <2>2, <2>4, <2>6
<1>3. \A e, f \in heap : e[2] = f[2] => e = f
  BY DEF Backed
<1> QED
  BY <1>1, <1>2, <1>3 DEF Backed

\* One arrival at MORI: it discards only where DRAM is full of others.
LEMMA DramArrive ==
  ASSUME MoriInv, MoriInv', DramInv, NEW gap \in Gaps, NEW wait \in Waits, Arrive(gap, wait)
  PROVE  DramInv'
<1> DEFINE t0 == now + gap
           fresh == [t0 |-> t0, wait |-> wait, segs |-> << >>]
           all == Append(rows, fresh)
           i == Len(all)
           gone == Resumed(hbm, all, t0)
           popped == Popped(hbm, gone)
           queue == AfterPop(hbm, gone, i)
           resumed == RowsAfter(all, popped)
           heap == PoolTick(cpu, t0)
           tier == IF PoolFree(heap, C_CPU) THEN "cpu" ELSE "discard"
           victim == queue[1]
           row == Resolve(all[victim], t0, tier)
<1>1. /\ gap \in Nat /\ wait \in Nat /\ now \in Nat /\ rows \in Seq(MoriRows)
      /\ rows' \in Seq(MoriRows) /\ C_CPU \in Nat
      /\ \A j \in DOMAIN rows : rows[j].t0 <= now
  BY MoriAssumption, TierPoolAssumption DEF MoriInv
<1>2. t0 \in Nat /\ now <= t0
  BY <1>1
<1>3. /\ ~drained /\ now' = t0
      /\ \/ /\ hbm' = queue /\ cpu' = heap /\ rows' = resumed /\ evicted' = evicted
         \/ /\ Len(queue) > C_HBM
            /\ hbm' = RemoveAt(queue, 1)
            /\ cpu' = IF EndTier(row) = "cpu" THEN PoolHold(heap, End(row), victim) ELSE heap
            /\ rows' = [resumed EXCEPT ![victim] = row]
            /\ evicted' = Noted(victim, t0)
  BY <1>1, ArriveIs
<1>4. fresh \in MoriRows /\ fresh.segs = << >> /\ fresh.t0 = t0
  BY <1>1, <1>2 DEF MoriRows
<1> HIDE DEF fresh
<1>5. /\ QueueInv(rows, hbm, now) /\ IsFiniteSet(cpu)
      /\ Backed(rows, "cpu", cpu, now)
  BY <1>3 DEF MoriInv, DramInv, Fits
<1>6. Moved(rows, all, hbm, queue, popped, resumed, t0)
  BY <1>1, <1>2, <1>4, <1>5, QueueMoves
<1>7. /\ Len(rows) \in Nat /\ i = Len(rows) + 1 /\ DOMAIN rows = 1 .. Len(rows)
      /\ all \in Seq(MoriRows) /\ DOMAIN all = 1 .. i
      /\ \A j \in DOMAIN rows : all[j] = rows[j]
      /\ all[i] = fresh
  BY <1>1, <1>4
<1>8. hbm \in Seq(DOMAIN rows) /\ hbm \in Seq(DOMAIN all)
  <2>1. hbm \in Seq(DOMAIN rows) /\ DOMAIN rows \subseteq DOMAIN all
    BY <1>5, <1>7 DEF QueueInv
  <2> QED
    BY <1>7, <2>1
<1>9. \A j \in DOMAIN all : all[j] \in MoriRows /\ all[j].t0 <= t0
  <2> SUFFICES ASSUME NEW j \in 1 .. i PROVE all[j] \in MoriRows /\ all[j].t0 <= t0
    BY <1>7
  <2>1. all[j] \in MoriRows
    BY <1>7
  <2>2. CASE j = i
    BY <1>2, <1>4, <1>7, <2>1, <2>2
  <2>3. CASE j # i
    <3>1. j \in DOMAIN rows /\ rows[j] \in MoriRows
      BY <1>1, <1>7, <2>3
    <3>2. rows[j].t0 \in Nat /\ rows[j].t0 <= now
      BY <1>1, <3>1 DEF MoriRows
    <3> QED
      BY <1>1, <1>2, <1>7, <2>1, <3>1, <3>2
  <2> QED
    BY <2>2, <2>3
<1> HIDE DEF all
<1>10. gone \in 0 .. Len(hbm)
  BY <1>2, <1>7, <1>8, ResumedIsPrefix DEF gone
<1> HIDE DEF t0, i, gone, popped, queue, resumed, heap, tier, victim, row
<1>11. /\ resumed \in Seq(MoriRows) /\ DOMAIN resumed = 1 .. i
       /\ \A j \in DOMAIN all : j \notin popped => resumed[j] = all[j]
       /\ QueueInv(resumed, queue, t0) /\ Len(queue) >= 1
       /\ \A k \in DOMAIN queue : queue[k] \notin popped
  BY <1>6, <1>7 DEF Moved
<1>12. Settled(rows, resumed)
  <2> SUFFICES ASSUME NEW j \in DOMAIN rows, rows[j].segs # << >>
               PROVE  resumed[j] = rows[j]
    BY <1>7, <1>11 DEF Settled
  <2>1. j \notin popped
    <3> SUFFICES ASSUME NEW k \in 1 .. gone, j = hbm[k] PROVE FALSE
      BY DEF popped, Popped
    <3>1. k \in DOMAIN hbm
      BY <1>8, <1>10
    <3> QED
      BY <1>5, <3>1 DEF QueueInv
  <2>2. j \in DOMAIN all
    BY <1>7
  <2> QED
    BY <1>7, <1>11, <2>1, <2>2
<1>13. ASSUME Settled(rows, rows'), NEW x \in DOMAIN evicted
       PROVE  /\ x \in DOMAIN rows' /\ rows'[x].segs # << >>
              /\ EndTier(rows'[x]) = "discard"
                   => Cardinality(InDram(rows', x, evicted[x])) >= C_CPU
  <2>1. /\ x \in DOMAIN rows /\ rows[x].segs # << >>
        /\ EndTier(rows[x]) = "discard" => Cardinality(InDram(rows, x, evicted[x])) >= C_CPU
    BY DEF DramInv
  <2>2. rows'[x] = rows[x] /\ x \in DOMAIN rows'
    BY <1>13, <2>1 DEF Settled
  <2>3. /\ Cardinality(InDram(rows, x, evicted[x])) \in Nat
        /\ Cardinality(InDram(rows', x, evicted[x])) \in Nat
        /\ Cardinality(InDram(rows, x, evicted[x])) <= Cardinality(InDram(rows', x, evicted[x]))
    BY <1>1, <1>13, DramStays
  <2> QED
    BY <1>1, <2>1, <2>2, <2>3
<1>14. ASSUME hbm' = queue, cpu' = heap, rows' = resumed, evicted' = evicted
       PROVE  DramInv'
  <2>1. Settled(rows, rows')
    BY <1>12, <1>14
  <2>2. Backed(rows', "cpu", cpu', now')
    BY <1>1, <1>2, <1>3, <1>5, <1>14, <2>1, BackedStays DEF heap
  <2> QED
    BY <1>13, <1>14, <2>1, <2>2 DEF DramInv
<1>15. ASSUME cpu' = IF EndTier(row) = "cpu" THEN PoolHold(heap, End(row), victim) ELSE heap,
              rows' = [resumed EXCEPT ![victim] = row],
              evicted' = Noted(victim, t0)
       PROVE  DramInv'
  <2>1. /\ 1 \in DOMAIN queue /\ victim \in DOMAIN resumed /\ victim \notin popped
        /\ resumed[victim].segs = << >>
    <3>1. queue \in Seq(DOMAIN resumed) /\ Len(queue) >= 1
      BY <1>11 DEF QueueInv
    <3>2. 1 \in DOMAIN queue /\ queue[1] \in DOMAIN resumed
      BY <3>1
    <3>3. resumed[queue[1]].segs = << >>
      BY <1>11, <3>2 DEF QueueInv
    <3> QED
      BY <1>11, <3>2, <3>3 DEF victim
  <2>2. victim \in DOMAIN all /\ all[victim] \in MoriRows /\ all[victim].t0 <= t0
    BY <1>7, <1>9, <1>11, <2>1
  <2>3. tier \in {"cpu", "discard"}
    BY DEF tier
  <2>4. /\ row.segs # << >> /\ EndTier(row) \in {"hbm", tier}
        /\ EndTier(row) = "cpu" =>
             \E k \in DOMAIN row.segs :
               /\ row.segs[k].tier = "cpu"
               /\ row.t0 + row.segs[k].at <= t0
               /\ Leaves(row, row.segs[k]) = End(row)
    BY <1>2, <2>2, <2>3, ResolvedRow DEF row
  <2>5. /\ DOMAIN rows' = DOMAIN resumed /\ rows'[victim] = row
        /\ \A j \in DOMAIN resumed : j # victim => rows'[j] = resumed[j]
    BY <1>15, <2>1
  <2>6. \A j \in DOMAIN rows : rows[j].segs # << >> => j # victim
    BY <1>12, <2>1 DEF Settled
  <2>7. Settled(rows, rows')
    BY <1>12, <2>5, <2>6 DEF Settled
  <2>8. Backed(rows', "cpu", heap, t0)
    BY <1>1, <1>2, <1>5, <2>7, BackedStays DEF heap
  <2>9. \A e \in heap : e[2] # victim
    <3> SUFFICES ASSUME NEW e \in heap PROVE e[2] # victim
      OBVIOUS
    <3>1. e \in cpu
      BY DEF heap, PoolTick
    <3>2. e[2] \in DOMAIN rows /\ rows[e[2]].segs # << >>
      BY <1>5, <3>1 DEF Backed
    <3> QED
      BY <2>6, <3>2
  <2>10. Backed(rows', "cpu", cpu', now')
    <3>1. CASE EndTier(row) = "cpu"
      <4> DEFINE slot == <<End(row), victim>>
      <4>1. cpu' = heap \cup {slot}
        BY <1>15, <3>1 DEF PoolHold
      <4>2. slot[1] = End(row) /\ slot[2] = victim
        OBVIOUS
      <4>3. /\ slot[2] \in DOMAIN rows'
            /\ \E k \in DOMAIN rows'[slot[2]].segs :
                 /\ rows'[slot[2]].segs[k].tier = "cpu"
                 /\ rows'[slot[2]].t0 + rows'[slot[2]].segs[k].at <= t0
                 /\ Leaves(rows'[slot[2]], rows'[slot[2]].segs[k]) = slot[1]
        BY <2>1, <2>4, <2>5, <3>1, <4>2
      <4> HIDE DEF slot
      <4> QED
        BY <1>3, <2>8, <2>9, <4>1, <4>2, <4>3 DEF Backed
    <3>2. CASE EndTier(row) # "cpu"
      BY <1>3, <1>15, <2>8, <3>2
    <3> QED
      BY <3>1, <3>2
  <2>11. ASSUME EndTier(row) = "discard"
         PROVE  Cardinality(InDram(rows', victim, t0)) >= C_CPU
    <3>1. ~PoolFree(heap, C_CPU)
      BY <2>4, <2>11 DEF tier
    <3>2. /\ Occupancy(rows, "cpu", t0) \in Nat
          /\ Cardinality(heap) <= Occupancy(rows, "cpu", t0)
      BY <1>1, <1>2, <1>5, MoriRowsDated, BackedIsPresent DEF heap
    <3>3. {j \in DOMAIN rows : InTier(rows[j], "cpu", t0)} \subseteq InDram(rows, victim, t0)
      BY <2>6 DEF InDram, InTier
    <3>4. {j \in DOMAIN rows : InTier(rows[j], "cpu", t0)} = InDram(rows, victim, t0)
      BY <3>3 DEF InDram
    <3>5. Occupancy(rows, "cpu", t0) = Cardinality(InDram(rows, victim, t0))
      BY <3>4, Zenon DEF Occupancy
    <3>6. /\ Cardinality(InDram(rows', victim, t0)) \in Nat
          /\ Cardinality(InDram(rows, victim, t0)) <= Cardinality(InDram(rows', victim, t0))
      BY <1>1, <2>7, DramStays
    <3>7. Cardinality(heap) \in Nat
      BY <1>5, TickedHeap, FS_CardinalityType DEF heap
    <3> QED
      BY <1>1, <3>1, <3>2, <3>5, <3>6, <3>7 DEF PoolFree
  <2>12. ASSUME NEW x \in DOMAIN evicted'
         PROVE  /\ x \in DOMAIN rows' /\ rows'[x].segs # << >>
                /\ EndTier(rows'[x]) = "discard"
                     => Cardinality(InDram(rows', x, evicted'[x])) >= C_CPU
    <3>1. x = victim \/ x \in DOMAIN evicted
      BY <1>15, <2>12 DEF Noted
    <3>2. evicted'[x] = IF x = victim THEN t0 ELSE evicted[x]
      BY <1>15, <2>12, <3>1 DEF Noted
    <3>3. CASE x = victim
      BY <2>1, <2>4, <2>5, <2>11, <3>2, <3>3
    <3>4. CASE x # victim
      <4>1. x \in DOMAIN evicted /\ evicted'[x] = evicted[x]
        BY <3>1, <3>2, <3>4
      <4> QED
        BY <1>13, <2>7, <4>1
    <3> QED
      BY <3>3, <3>4
  <2> QED
    BY <2>10, <2>12 DEF DramInv
<1> QED
  BY <1>3, <1>14, <1>15

\* The end of the trace leaves everyone where they are.
LEMMA DramDrain ==
  ASSUME MoriInv, MoriInv', DramInv, Drain
  PROVE  DramInv'
<1>1. /\ ~drained /\ drained' /\ evicted' = evicted
      /\ rows' = [j \in DOMAIN rows |->
                   IF j \in ToSet(hbm) THEN Resolve(rows[j], End(rows[j]), "hbm") ELSE rows[j]]
  BY DEF Drain
<1>2. /\ rows \in Seq(MoriRows) /\ rows' \in Seq(MoriRows) /\ QueueInv(rows, hbm, now)
      /\ C_CPU \in Nat
  BY <1>1, TierPoolAssumption DEF MoriInv
<1>3. Settled(rows, rows')
  <2> SUFFICES ASSUME NEW j \in DOMAIN rows, rows[j].segs # << >> PROVE rows'[j] = rows[j]
    BY <1>1 DEF Settled
  <2>1. j \notin ToSet(hbm)
    BY <1>2 DEF QueueInv, ToSet
  <2> QED
    BY <1>1, <2>1
<1>4. ASSUME NEW x \in DOMAIN evicted
      PROVE  /\ x \in DOMAIN rows' /\ rows'[x].segs # << >>
             /\ EndTier(rows'[x]) = "discard"
                  => Cardinality(InDram(rows', x, evicted[x])) >= C_CPU
  <2>1. /\ x \in DOMAIN rows /\ rows[x].segs # << >>
        /\ EndTier(rows[x]) = "discard" => Cardinality(InDram(rows, x, evicted[x])) >= C_CPU
    BY DEF DramInv
  <2>2. rows'[x] = rows[x] /\ x \in DOMAIN rows'
    BY <1>3, <2>1 DEF Settled
  <2>3. /\ Cardinality(InDram(rows, x, evicted[x])) \in Nat
        /\ Cardinality(InDram(rows', x, evicted[x])) \in Nat
        /\ Cardinality(InDram(rows, x, evicted[x])) <= Cardinality(InDram(rows', x, evicted[x]))
    BY <1>2, <1>3, DramStays
  <2> QED
    BY <1>2, <2>1, <2>2, <2>3
<1> QED
  BY <1>1, <1>4 DEF DramInv

\* What the admission layer and MORI know of the tiers is what is in them
FullInv ==
  /\ DramInv
  /\ \A policy \in Policies :
       /\ Backed(replays[policy].rows, "hbm", replays[policy].hbm, now)
       /\ KeptOut(replays[policy])
  /\ LET r == replays["always_cpu"] IN Backed(r.rows, "cpu", r.cpu, now) /\ Refused(r.rows)

\* An arrival keeps out only whom there is no room for.
LEMMA FullStep ==
  /\ PoliciesInv /\ MoriInv /\ MoriInv' /\ NeverFullInv /\ FullInv
  /\ [EvaluationNext]_<<vars, replays>>
  => FullInv'
<1> SUFFICES ASSUME PoliciesInv, MoriInv, MoriInv', NeverFullInv, FullInv,
                    [EvaluationNext]_<<vars, replays>>
             PROVE  FullInv'
  OBVIOUS
<1>1. CASE TraceEnds
  <2>1. DramInv'
    BY <1>1, DramDrain DEF TraceEnds, FullInv
  <2>2. replays' = replays /\ now' = now
    BY <1>1 DEF TraceEnds, Drain
  <2> QED
    BY <2>1, <2>2, Zenon DEF FullInv
<1>2. ASSUME NEW gap \in Gaps, NEW wait \in Waits, NEW c \in Chances, Replayed(gap, wait, c)
      PROVE  FullInv'
  <2>1. gap \in Nat /\ wait \in Nat /\ now \in Nat
    BY MoriAssumption DEF PoliciesInv
  <2>2. now' = now + gap
    BY <1>2 DEF Replayed, Arrive
  <2>3. now' \in Nat /\ now <= now'
    BY <2>1, <2>2
  <2>4. DramInv'
    BY <1>2, DramArrive DEF Replayed, FullInv
  <2>5. ASSUME NEW policy \in Policies
        PROVE  /\ Backed(replays'[policy].rows, "hbm", replays'[policy].hbm, now')
               /\ KeptOut(replays'[policy])
    <3> DEFINE fn == [ts \in Offers |-> Switches(policy, ts, wait, c)]
    <3>1. replays'[policy] = Turn(replays[policy], fn, now', wait)
      BY <1>2, <2>2 DEF Replayed
    <3>2. \A ts \in Offers : fn[ts] \in Seq(Nat) /\ Len(fn[ts]) <= ts.n
      BY <2>1, SwitchesTyped
    <3>3. /\ ReplayFits(replays[policy], now)
          /\ Backed(replays[policy].rows, "hbm", replays[policy].hbm, now)
          /\ KeptOut(replays[policy])
      BY DEF PoliciesInv, FullInv
    <3> HIDE DEF fn
    <3> QED
      BY <2>1, <2>3, <3>1, <3>2, <3>3, TurnKeepsOut
  <2>6. LET r == replays'["always_cpu"] IN Backed(r.rows, "cpu", r.cpu, now') /\ Refused(r.rows)
    <3> DEFINE policy == "always_cpu"
               fn == [ts \in Offers |-> Switches(policy, ts, wait, c)]
    <3>1. policy \in Policies /\ policy \in Immediate
      BY DEF Policies, Immediate
    <3>2. replays'[policy] = Turn(replays[policy], fn, now', wait)
      BY <1>2, <2>2, <3>1 DEF Replayed
    <3>3. \A ts \in Offers : fn[ts] = <<0>>
      BY DEF Switches
    <3>4. /\ ReplayFits(replays[policy], now) /\ replays[policy].hbm = {}
          /\ Backed(replays[policy].rows, "cpu", replays[policy].cpu, now)
          /\ Refused(replays[policy].rows)
      BY <3>1 DEF PoliciesInv, FullInv, NeverFullInv
    <3> HIDE DEF fn
    <3> QED
      BY <2>1, <2>3, <3>2, <3>3, <3>4, AlwaysCpuTurn
  <2> QED
    BY <2>4, <2>5, <2>6, Zenon DEF FullInv
<1>3. CASE UNCHANGED <<vars, replays>>
  <2>1. /\ replays' = replays /\ now' = now /\ drained' = drained /\ rows' = rows /\ cpu' = cpu
        /\ evicted' = evicted
    BY <1>3 DEF vars
  <2> QED
    BY <2>1, Zenon DEF FullInv, DramInv
<1> QED
  BY <1>1, <1>2, <1>3 DEF EvaluationNext

\* Nobody is kept out before anybody came.
LEMMA FullInit == EvaluationInit => FullInv
<1> SUFFICES ASSUME EvaluationInit PROVE FullInv
  OBVIOUS
<1>1. /\ NewReplay.rows = << >> /\ NewReplay.hbm = {} /\ NewReplay.cpu = {}
      /\ NewReplay.forced = {}
  BY DEF NewReplay
<1>2. \A policy \in Policies : replays[policy] = NewReplay
  BY DEF EvaluationInit
<1>3. "always_cpu" \in Policies
  BY DEF Policies
<1>4. \A info, tier : Backed(info, tier, {}, now)
  BY DEF Backed
<1>5. Refused(<< >>)
  BY DEF Refused
<1>6. KeptOut(NewReplay)
  BY <1>1 DEF KeptOut
<1>7. DramInv
  BY <1>4 DEF EvaluationInit, Init, DramInv
<1> QED
  BY <1>1, <1>2, <1>3, <1>4, <1>5, <1>6, <1>7 DEF FullInv

\* Every policy's replay keeps a request out of HBM only when HBM is physically full
\* at its arrival; always_cpu's and MORI discard one only when DRAM is
\* (replay.py:88-93, 112, 119-123, 170): the heaps of departures forget a context as
\* soon as it leaves.  Of MORI's HBM it says nothing.
THEOREM ForcedOnlyWhenFullCorrect == EvaluationSpec => []ForcedOnlyWhenFull
<1>1. MoriInv /\ FullInv => ForcedOnlyWhenFull
  <2> SUFFICES ASSUME MoriInv, FullInv PROVE ForcedOnlyWhenFull
    OBVIOUS
  <2>1. DiscardedOnlyWhenFull
    <3> SUFFICES ASSUME NEW i \in DOMAIN evicted, EndTier(rows[i]) = "discard"
                 PROVE  Occupancy([j \in DOMAIN rows \ {i} |-> Timeline[j]], "cpu", evicted[i])
                          >= C_CPU
      BY DEF DiscardedOnlyWhenFull
    <3> DEFINE time == evicted[i]
               others == [j \in DOMAIN rows \ {i} |-> Timeline[j]]
    <3>1. Cardinality(InDram(rows, i, time)) >= C_CPU
      BY DEF FullInv, DramInv
    <3>2. ASSUME NEW j \in DOMAIN rows
          PROVE  InTier(Timeline[j], "cpu", time) <=> InTier(rows[j], "cpu", time)
      <4>1. rows[j] \in MoriRows /\ Timeline[j] = Believed(rows[j])
        BY DEF MoriInv, Timeline
      <4>2. CASE rows[j].segs # << >>
        BY <4>1, <4>2, BelievedRow
      <4>3. CASE rows[j].segs = << >>
        <5>1. ~InTier(rows[j], "cpu", time)
          BY <4>3 DEF InTier
        <5>2. /\ Timeline[j] = StaysIn(rows[j]) /\ DOMAIN StaysIn(rows[j]).segs = {1}
              /\ StaysIn(rows[j]).segs[1].tier = "hbm"
          BY <4>1, <4>3, BelievedRow
        <5> QED
          BY <5>1, <5>2 DEF InTier
      <4> QED
        BY <4>2, <4>3
    <3>3. {j \in DOMAIN others : InTier(others[j], "cpu", time)} = InDram(rows, i, time)
      BY <3>2 DEF InDram
    <3>4. Occupancy(others, "cpu", time) = Cardinality(InDram(rows, i, time))
      BY <3>3, Zenon DEF Occupancy
    <3> QED
      BY <3>1, <3>4
  <2>2. ASSUME NEW policy \in Policies, NEW i \in replays[policy].forced
        PROVE  Occupancy(SubSeq(replays[policy].rows, 1, i - 1), "hbm",
                         replays[policy].rows[i].t0) = C_HBM
    BY DEF FullInv, KeptOut
  <2>3. ASSUME NEW i \in DOMAIN replays["always_cpu"].rows,
               EndTier(replays["always_cpu"].rows[i]) = "discard"
        PROVE  Occupancy(SubSeq(replays["always_cpu"].rows, 1, i - 1), "cpu",
                         replays["always_cpu"].rows[i].t0) = C_CPU
    BY <2>3 DEF FullInv, Refused
  <2> QED
    BY <2>1, <2>2, <2>3 DEF ForcedOnlyWhenFull
<1> QED
  BY <1>1, FullInit, FullStep, NeverFullInvariant, CapacityInvariant, PTL DEF EvaluationSpec

-----------------------------------------------------------------------------
(* What the policies pay.                                                  *)

\* sum() of a list, as price folds it
Total(s) == FoldLeft(+, 0, s)

\* A sum over a sequence of at most three numbers, written out.
LEMMA SumOfThree ==
  ASSUME NEW s \in Seq(Int), Len(s) \in 1 .. 3
  PROVE  Total(s) = s[1] + (IF Len(s) >= 2 THEN s[2] ELSE 0)
                         + (IF Len(s) >= 3 THEN s[3] ELSE 0)
<1> DEFINE n == Len(s)
           Part(k, P) == IF k \in P THEN s[k] ELSE 0
           g == [P \in SUBSET DOMAIN s |-> Part(1, P) + Part(2, P) + Part(3, P)]
           Rec(t) == t = [P \in SUBSET DOMAIN s |->
                            IF P = {} THEN 0 ELSE t[P \ {Max(P)}] + s[Max(P)]]
           table == CHOOSE t : Rec(t)
<1>1. /\ DOMAIN s = 1 .. n /\ n \in {1, 2, 3}
      /\ \A k \in 1 .. n : s[k] \in Int
  OBVIOUS
<1>2. ASSUME NEW P \in SUBSET DOMAIN s, P # {}
      PROVE  Max(P) \in P /\ \A k \in P : k <= Max(P)
  <2>1. \E m \in P : \A k \in P : m >= k
    <3>1. P \subseteq {1, 2, 3}
      BY <1>1
    <3>2. CASE 3 \in P
      BY <3>1, <3>2
    <3>3. CASE 3 \notin P /\ 2 \in P
      BY <3>1, <3>3
    <3>4. CASE 3 \notin P /\ 2 \notin P
      <4>1. \A k \in P : k = 1
        BY <3>1, <3>4
      <4>2. 1 \in P
        BY <1>2, <4>1
      <4> QED
        BY <4>1, <4>2
    <3> QED
      BY <3>2, <3>3, <3>4
  <2>2. Max(P) \in P /\ \A k \in P : Max(P) >= k
    BY <2>1 DEF Max
  <2>3. \A k \in P : k \in Int
    BY <1>1
  <2> QED
    BY <2>2, <2>3
<1>3. Rec(g)
  <2>1. ASSUME NEW P \in SUBSET DOMAIN s
        PROVE  g[P] = IF P = {} THEN 0 ELSE g[P \ {Max(P)}] + s[Max(P)]
    <3>1. g[P] = Part(1, P) + Part(2, P) + Part(3, P)
      OBVIOUS
    <3>2. CASE P = {}
      BY <3>1, <3>2
    <3>3. CASE P # {}
      <4> DEFINE m == Max(P)
      <4>1. m \in P /\ m \in {1, 2, 3} /\ s[m] \in Int
        BY <1>1, <1>2, <3>3
      <4>2. P \ {m} \in SUBSET DOMAIN s
        OBVIOUS
      <4> HIDE DEF m
      <4>3. g[P \ {m}] = Part(1, P \ {m}) + Part(2, P \ {m}) + Part(3, P \ {m})
        BY <4>2
      <4>4. \A k \in {1, 2, 3} : Part(k, P) \in Int
        BY <1>1
      <4>5. \A k \in {1, 2, 3} : Part(k, P \ {m}) = IF k = m THEN 0 ELSE Part(k, P)
        OBVIOUS
      <4>6. Part(m, P) = s[m]
        BY <4>1
      <4> HIDE DEF Part, g
      <4>7. g[P] = g[P \ {m}] + s[m]
        <5>1. CASE m = 1
          BY <3>1, <4>3, <4>4, <4>5, <4>6, <5>1
        <5>2. CASE m = 2
          BY <3>1, <4>3, <4>4, <4>5, <4>6, <5>2
        <5>3. CASE m = 3
          BY <3>1, <4>3, <4>4, <4>5, <4>6, <5>3
        <5> QED
          BY <4>1, <5>1, <5>2, <5>3
      <4> QED
        BY <3>3, <4>7 DEF m
    <3> QED
      BY <3>2, <3>3
  <2>2. g = [P \in SUBSET DOMAIN s |-> g[P]]
    OBVIOUS
  <2> HIDE DEF g
  <2> QED
    BY <2>1, <2>2
<1>4. Rec(table)
  <2> HIDE DEF Rec
  <2> QED
    BY <1>3
<1>5. Total(s) = table[DOMAIN s]
  BY DEF Total, FoldLeft, MapThenFoldSet
<1>6. \A P \in SUBSET DOMAIN s : table[P] = IF P = {} THEN 0 ELSE table[P \ {Max(P)}] + s[Max(P)]
  BY <1>4
<1> HIDE DEF table, Rec, g
<1>7. table[{}] = 0
  BY <1>6
<1>8. ASSUME NEW k \in 1 .. n PROVE table[1 .. k] = table[(1 .. k) \ {k}] + s[k]
  <2>1. 1 .. k \in SUBSET DOMAIN s /\ 1 .. k # {} /\ k \in 1 .. k
    BY <1>1
  <2>2. Max(1 .. k) \in 1 .. k /\ k <= Max(1 .. k)
    BY <1>2, <2>1
  <2>3. Max(1 .. k) = k
    BY <1>1, <2>2
  <2> QED
    BY <1>6, <2>1, <2>3
<1>9. (1 .. 1) \ {1} = {} /\ (1 .. 2) \ {2} = 1 .. 1 /\ (1 .. 3) \ {3} = 1 .. 2
  OBVIOUS
<1> HIDE DEF n
<1>n. (n = 1 \/ n = 2 \/ n = 3) /\ 1 \in 1 .. n
  BY <1>1
<1>10. table[1 .. 1] = s[1]
  <2>1. table[1 .. 1] = table[{}] + s[1]
    BY <1>n, <1>8, <1>9, Zenon
  <2>2. s[1] \in Int
    BY <1>1, <1>n
  <2> QED
    BY <1>7, <2>1, <2>2
<1>11. n >= 2 => table[1 .. 2] = s[1] + s[2]
  <2> SUFFICES ASSUME n >= 2 PROVE table[1 .. 2] = s[1] + s[2]
    OBVIOUS
  <2>1. 2 \in 1 .. n
    BY <1>n
  <2>2. table[1 .. 2] = table[1 .. 1] + s[2]
    BY <1>8, <1>9, <2>1, Zenon
  <2> QED
    BY <1>10, <2>2
<1>12. n >= 3 => table[1 .. 3] = s[1] + s[2] + s[3]
  <2> SUFFICES ASSUME n >= 3 PROVE table[1 .. 3] = s[1] + s[2] + s[3]
    OBVIOUS
  <2>1. 3 \in 1 .. n
    BY <1>n
  <2>2. table[1 .. 3] = table[1 .. 2] + s[3]
    BY <1>8, <1>9, <2>1, Zenon
  <2> QED
    BY <1>n, <1>11, <2>2
<1>13. table[1 .. n] = s[1] + (IF n >= 2 THEN s[2] ELSE 0) + (IF n >= 3 THEN s[3] ELSE 0)
  <2>1. CASE n = 1
    BY <1>1, <1>10, <2>1
  <2>2. CASE n = 2
    BY <1>1, <1>11, <2>2
  <2>3. CASE n = 3
    BY <1>1, <1>12, <2>3
  <2> QED
    BY <1>n, <2>1, <2>2, <2>3
<1> QED
  BY <1>1, <1>5, <1>13 DEF n

\* Rents and prices are natural, and only HBM has a rent.
LEMMA PricesTyped ==
  ASSUME NEW tier \in Tiers
  PROVE  /\ ALPHA_B(tier) \in Nat /\ BETA_B(tier) \in Nat
         /\ tier # "hbm" => ALPHA_B(tier) = 0
         /\ tier = "hbm" => ALPHA_B(tier) = ALPHA_HBM_B /\ BETA_B(tier) = 0
         /\ ALPHA_HBM_B \in Nat
BY TierPoolAssumption DEF Tiers, ALPHA_B, BETA_B

\* The price of a trajectory that is in HBM at the start only: the rent of its first
\* segment, and the price of waking up from its last.
LEMMA PriceIs ==
  ASSUME NEW row, row.segs \in Seq(Segs), Len(row.segs) \in 1 .. 3,
         \A k \in 2 .. Len(row.segs) : row.segs[k].tier # "hbm"
  PROVE  /\ price(row) = ALPHA_B(row.segs[1].tier) * row.segs[1].dur + BETA_B(EndTier(row))
         /\ EndTier(row) = row.segs[Len(row.segs)].tier
         /\ EndTier(row) \in Tiers
<1> DEFINE segs == row.segs
           n == Len(segs)
           rents == Rents(row)
<1>1. n \in {1, 2, 3} /\ DOMAIN segs = 1 .. n /\ \A k \in 1 .. n : segs[k] \in Segs
  OBVIOUS
<1>2. \A k \in 1 .. n : segs[k].tier \in Tiers /\ segs[k].dur \in Int
  BY <1>1 DEF Segs
<1> HIDE DEF segs, n
<1>3. rents = [k \in 1 .. n |-> ALPHA_B(segs[k].tier) * segs[k].dur]
  BY <1>1 DEF Rents, segs
<1>4. \A k \in 1 .. n : rents[k] = ALPHA_B(segs[k].tier) * segs[k].dur
  BY <1>3
<1>5. \A k \in 1 .. n : ALPHA_B(segs[k].tier) * segs[k].dur \in Int
  <2> SUFFICES ASSUME NEW k \in 1 .. n PROVE ALPHA_B(segs[k].tier) * segs[k].dur \in Int
    OBVIOUS
  <2>1. ALPHA_B(segs[k].tier) \in Nat /\ segs[k].dur \in Int
    BY <1>2, PricesTyped
  <2> QED
    BY <2>1
<1>6. rents \in [1 .. n -> Int]
  BY <1>3, <1>5
<1>7. rents \in Seq(Int) /\ Len(rents) = n
  <2>1. n \in Nat
    BY <1>1
  <2> QED
    BY <1>6, <2>1, SeqDef
<1>8. \A k \in 2 .. n : k \in 1 .. n /\ segs[k].tier # "hbm"
  BY <1>1 DEF segs, n
<1>9. \A k \in 2 .. n : rents[k] = 0
  <2> SUFFICES ASSUME NEW k \in 2 .. n PROVE rents[k] = 0
    OBVIOUS
  <2>1. k \in 1 .. n /\ segs[k].tier \in Tiers /\ segs[k].dur \in Int /\ segs[k].tier # "hbm"
    BY <1>2, <1>8
  <2>2. ALPHA_B(segs[k].tier) = 0
    BY <2>1, PricesTyped
  <2> QED
    BY <1>4, <2>1, <2>2
<1>10. 1 \in 1 .. n /\ n \in 1 .. n /\ n \in 1 .. 3
  BY <1>1
<1> HIDE DEF rents
<1> DEFINE sum == rents[1] + (IF n >= 2 THEN rents[2] ELSE 0)
                           + (IF n >= 3 THEN rents[3] ELSE 0)
<1>11. Total(rents) = sum
  BY <1>7, <1>10, SumOfThree
<1>12. sum = rents[1]
  <2>1. n >= 2 => rents[2] = 0
    BY <1>1, <1>9
  <2>2. n >= 3 => rents[3] = 0
    BY <1>1, <1>9
  <2>3. rents[1] \in Int
    BY <1>6, <1>10
  <2>4. CASE n = 1
    BY <2>3, <2>4
  <2>5. CASE n = 2
    BY <2>1, <2>3, <2>5
  <2>6. CASE n = 3
    BY <2>1, <2>2, <2>3, <2>6
  <2> QED
    BY <1>1, <2>4, <2>5, <2>6
<1> HIDE DEF sum
<1>13. EndTier(row) = segs[n].tier
  BY DEF EndTier, Last, segs, n
<1>14. price(row) = rents[1] + BETA_B(EndTier(row))
  <2>1. price(row) = Total(rents) + BETA_B(EndTier(row))
    BY DEF price, Total, rents
  <2> QED
    BY <1>11, <1>12, <2>1
<1>15. price(row) = ALPHA_B(segs[1].tier) * segs[1].dur + BETA_B(EndTier(row))
  BY <1>4, <1>10, <1>14
<1>16. EndTier(row) \in Tiers
  BY <1>2, <1>10, <1>13
<1> QED
  BY <1>13, <1>15, <1>16 DEF segs, n

\* Best is the price of the cheapest of some tiers.
LEMMA BestIs ==
  ASSUME NEW tiers \in SUBSET Tiers, tiers # {}, NEW w \in Nat
  PROVE  /\ \A tier \in tiers : ALPHA_B(tier) * w + BETA_B(tier) \in Nat
         /\ \A tier \in tiers : Best(tiers, w) <= ALPHA_B(tier) * w + BETA_B(tier)
         /\ \E tier \in tiers : Best(tiers, w) = ALPHA_B(tier) * w + BETA_B(tier)
<1> DEFINE Pay(tier) == ALPHA_B(tier) * w + BETA_B(tier)
           bills == {Pay(tier) : tier \in tiers}
<1>1. \A tier \in tiers : Pay(tier) \in Nat
  <2> SUFFICES ASSUME NEW tier \in tiers PROVE Pay(tier) \in Nat
    OBVIOUS
  <2>1. ALPHA_B(tier) \in Nat /\ BETA_B(tier) \in Nat
    BY PricesTyped
  <2>2. ALPHA_B(tier) * w \in Nat
    BY <2>1
  <2> QED
    BY <2>1, <2>2
<1>2. bills \subseteq Nat /\ bills # {}
  BY <1>1
<1>3. PICK m \in bills : \A b \in bills : m <= b
  <2> HIDE DEF bills
  <2> QED
    BY <1>2, NatHasMin
<1>4. Min(bills) \in bills /\ \A b \in bills : Min(bills) <= b
  BY <1>3 DEF Min
<1>5. Best(tiers, w) = Min(bills)
  BY DEF Best
<1> QED
  BY <1>1, <1>4, <1>5

\* What an offer costs in each of its states is what its tiers cost.
LEMMA OfferLines ==
  ASSUME NEW ts \in Offers, NEW k \in 0 .. ts.n, NEW w \in Nat
  PROVE  Line(ts, k, w) = ALPHA_B(ts.names[k]) * w + BETA_B(ts.names[k])
<1>1. CASE ts = TS_FULL
  <2>1. /\ ts.n = 2
        /\ ts.alpha[0] = ALPHA_HBM_B /\ ts.alpha[1] = 0 /\ ts.alpha[2] = 0
        /\ ts.beta[0] = 0 /\ ts.beta[1] = BETA_CPU_B /\ ts.beta[2] = BETA_DISCARD_B
        /\ ts.names[0] = "hbm" /\ ts.names[1] = "cpu" /\ ts.names[2] = "discard"
    BY <1>1 DEF TS_FULL, NewTierSystem, FromZero
  <2>2. k = 0 \/ k = 1 \/ k = 2
    BY <2>1
  <2> QED
    BY <2>1, <2>2 DEF Line, ALPHA_B, BETA_B
<1>2. CASE ts = TS_HBM_DISCARD
  <2>1. /\ ts.n = 1
        /\ ts.alpha[0] = ALPHA_HBM_B /\ ts.alpha[1] = 0
        /\ ts.beta[0] = 0 /\ ts.beta[1] = BETA_DISCARD_B
        /\ ts.names[0] = "hbm" /\ ts.names[1] = "discard"
    BY <1>2 DEF TS_HBM_DISCARD, NewTierSystem, FromZero
  <2>2. k = 0 \/ k = 1
    BY <2>1
  <2> QED
    BY <2>1, <2>2 DEF Line, ALPHA_B, BETA_B
<1> QED
  BY <1>1, <1>2 DEF Offers

\* What an admitted request pays: rent until the first switch that is made, and the
\* price of the tier it has got to by then.
LEMMA AdmittedPays ==
  ASSUME NEW ts \in Offers, NEW s \in Seq(Nat), Len(s) <= ts.n, NEW w \in Nat,
         NEW row, row.segs = Segments(ts, s, w)
  PROVE  LET m == Made(s, w)
         IN /\ m \in 0 .. ts.n
            /\ m = 0 => price(row) = ALPHA_HBM_B * w
            /\ m > 0 => /\ s[1] \in Nat
                        /\ price(row) = ALPHA_HBM_B * s[1] + BETA_B(ts.names[m])
<1> DEFINE m == Made(s, w)
           segs == Segments(ts, s, w)
<1>1. /\ ts.n \in {1, 2} /\ ts.names[0] = "hbm"
      /\ \A k \in 0 .. ts.n : ts.names[k] \in Tiers
      /\ \A k, l \in 0 .. ts.n : ts.names[k] = ts.names[l] => k = l
  <2>1. ts.names[0] = "hbm"
    BY DEF Offers, TS_FULL, TS_HBM_DISCARD, NewTierSystem, FromZero
  <2> QED
    BY <2>1, OffersTyped, OffersValid
<1>2. m \in 0 .. Len(s) /\ Len(s) \in Nat
  BY MadeIsPrefix
<1>3. m \in 0 .. ts.n /\ m \in {0, 1, 2}
  BY <1>1, <1>2
<1>4. segs \in Seq(Segs) /\ \A k \in DOMAIN segs : segs[k].tier = ts.names[k - 1]
  BY SegmentsTyped
<1>5. segs = [k \in 1 .. m + 1 |-> Seg(ts.names[k - 1], Bound(s, w, k),
                                       Bound(s, w, k + 1) - Bound(s, w, k))]
  BY DEF Segments
<1>6. /\ Bound(s, w, 1) = 0
      /\ m = 0 => Bound(s, w, 2) = w
      /\ m > 0 => Bound(s, w, 2) = s[1]
  BY <1>3 DEF Bound
<1>7. m > 0 => s[1] \in Nat
  BY <1>2
<1> HIDE DEF m, segs
<1>8. Len(segs) = m + 1 /\ DOMAIN segs = 1 .. m + 1
  BY <1>3, <1>5
<1>9. segs[1].dur = Bound(s, w, 2) /\ segs[1].tier = "hbm"
  <2>1. 1 \in 1 .. m + 1
    BY <1>3
  <2>2. segs[1] = Seg(ts.names[1 - 1], Bound(s, w, 1), Bound(s, w, 1 + 1) - Bound(s, w, 1))
    BY <1>5, <2>1
  <2>3. segs[1].dur = Bound(s, w, 2) - 0 /\ segs[1].tier = ts.names[0]
    BY <1>6, <2>2 DEF Seg
  <2>4. Bound(s, w, 2) \in Int
    BY <1>3, <1>6, <1>7
  <2> QED
    BY <1>1, <2>3, <2>4
<1>10. \A k \in 2 .. m + 1 : segs[k].tier # "hbm"
  <2> SUFFICES ASSUME NEW k \in 2 .. m + 1 PROVE segs[k].tier # "hbm"
    OBVIOUS
  <2>1. k \in DOMAIN segs /\ k - 1 \in 0 .. ts.n /\ 0 \in 0 .. ts.n /\ k - 1 # 0
    BY <1>1, <1>3, <1>8
  <2> QED
    BY <1>1, <1>4, <2>1
<1>11. segs[m + 1].tier = ts.names[m]
  <2> DEFINE l == m + 1
  <2>1. l \in DOMAIN segs /\ l - 1 = m
    BY <1>3, <1>8
  <2> HIDE DEF l
  <2>2. segs[l].tier = ts.names[l - 1]
    BY <1>4, <2>1
  <2> QED
    BY <2>1, <2>2 DEF l
<1>12. row.segs = segs /\ Len(row.segs) \in 1 .. 3
  BY <1>3, <1>8 DEF segs
<1>13. /\ price(row) = ALPHA_B(segs[1].tier) * segs[1].dur + BETA_B(EndTier(row))
       /\ EndTier(row) = segs[m + 1].tier
  BY <1>4, <1>8, <1>10, <1>12, PriceIs
<1>14. price(row) = ALPHA_B("hbm") * Bound(s, w, 2) + BETA_B(ts.names[m])
  BY <1>9, <1>11, <1>13
<1>15. ALPHA_B("hbm") = ALPHA_HBM_B /\ BETA_B("hbm") = 0 /\ ALPHA_HBM_B \in Nat
  BY PricesTyped DEF Tiers
<1>16. m = 0 => price(row) = ALPHA_HBM_B * w
  <2> SUFFICES ASSUME m = 0 PROVE price(row) = ALPHA_HBM_B * w
    OBVIOUS
  <2>1. ALPHA_HBM_B * w \in Int
    BY <1>15
  <2>2. Bound(s, w, 2) = w /\ BETA_B(ts.names[m]) = 0
    BY <1>1, <1>6, <1>15
  <2>3. price(row) = ALPHA_HBM_B * w + 0
    BY <1>14, <1>15, <2>2
  <2> QED
    BY <2>1, <2>3
<1>17. m > 0 => price(row) = ALPHA_HBM_B * s[1] + BETA_B(ts.names[m])
  BY <1>6, <1>14, <1>15
<1> QED
  BY <1>3, <1>7, <1>16, <1>17 DEF m

\* Nobody pays less than the best of what was offered.
LEMMA AdmittedFair ==
  ASSUME NEW ts \in Offers, NEW s \in Seq(Nat), Len(s) <= ts.n, NEW w \in Nat,
         NEW row, row.segs = Segments(ts, s, w), row.wait = w,
         row.offered = {ts.names[k] : k \in 0 .. ts.n}
  PROVE  price(row) >= Best(row.offered, row.wait)
<1> DEFINE m == Made(s, w)
<1>1. /\ ts.n \in Nat /\ ts.names[0] = "hbm"
      /\ \A k \in 0 .. ts.n : ts.names[k] \in Tiers
      /\ \A k, l \in 0 .. ts.n : ts.names[k] = ts.names[l] => k = l
  <2>1. ts.names[0] = "hbm"
    BY DEF Offers, TS_FULL, TS_HBM_DISCARD, NewTierSystem, FromZero
  <2> QED
    BY <2>1, OffersTyped
<1>2. /\ m \in 0 .. ts.n
      /\ m = 0 => price(row) = ALPHA_HBM_B * w
      /\ m > 0 => /\ s[1] \in Nat
                  /\ price(row) = ALPHA_HBM_B * s[1] + BETA_B(ts.names[m])
  BY AdmittedPays
<1> HIDE DEF m
<1>3. row.offered \in SUBSET Tiers /\ 0 \in 0 .. ts.n
  BY <1>1
<1>4. "hbm" \in row.offered /\ ts.names[m] \in row.offered
  BY <1>1, <1>2, <1>3
<1>5. /\ \A tier \in row.offered : ALPHA_B(tier) * w + BETA_B(tier) \in Nat
      /\ \A tier \in row.offered : Best(row.offered, w) <= ALPHA_B(tier) * w + BETA_B(tier)
      /\ Best(row.offered, w) \in Nat
  BY <1>3, <1>4, BestIs
<1>6. ALPHA_B("hbm") = ALPHA_HBM_B /\ BETA_B("hbm") = 0 /\ ALPHA_HBM_B \in Nat
  BY PricesTyped DEF Tiers
<1>7. CASE m = 0
  <2>1. Best(row.offered, w) <= ALPHA_HBM_B * w + 0
    BY <1>4, <1>5, <1>6
  <2>2. ALPHA_HBM_B * w \in Nat
    BY <1>6
  <2> QED
    BY <1>2, <1>5, <1>7, <2>1, <2>2
<1>8. CASE m > 0
  <2>1. ts.names[m] # "hbm" /\ ts.names[m] \in Tiers
    BY <1>1, <1>2, <1>3, <1>8
  <2>2. ALPHA_B(ts.names[m]) = 0 /\ BETA_B(ts.names[m]) \in Nat
    BY <2>1, PricesTyped
  <2>3. Best(row.offered, w) <= 0 * w + BETA_B(ts.names[m])
    BY <1>4, <1>5, <2>2
  <2>4. ALPHA_HBM_B * s[1] \in Nat
    BY <1>2, <1>6, <1>8
  <2> QED
    BY <1>2, <1>5, <1>8, <2>2, <2>3, <2>4
<1> QED
  BY <1>2, <1>7, <1>8

\* When every switch comes before the end of the wait all of them are made.
LEMMA MadeAll ==
  ASSUME NEW s \in Seq(Nat), NEW w \in Nat, \A k \in 1 .. Len(s) : s[k] < w
  PROVE  Made(s, w) = Len(s)
<1> DEFINE Stops == {k \in DOMAIN s : s[k] >= w} \cup {Len(s) + 1}
<1>1. Stops = {Len(s) + 1} /\ Len(s) \in Nat
  OBVIOUS
<1>2. Min(Stops) = Len(s) + 1
  BY <1>1 DEF Min
<1> HIDE DEF Stops
<1>3. Made(s, w) = Min(Stops) - 1
  BY DEF Made, Stops
<1> QED
  BY <1>1, <1>2, <1>3

\* opt pays the best of what it was offered.
LEMMA OptPays ==
  ASSUME NEW ts \in Offers, NEW w \in Nat,
         NEW row, row.segs = Segments(ts, AtOnce(opt_state(ts, w)), w), row.wait = w,
         row.offered = {ts.names[k] : k \in 0 .. ts.n}
  PROVE  price(row) = Best(row.offered, row.wait)
<1> DEFINE k == opt_state(ts, w)
           s == AtOnce(k)
           m == Made(s, w)
<1>1. /\ ts.n \in Nat /\ ts.names[0] = "hbm" /\ Valid(ts)
      /\ \A j \in 0 .. ts.n : ts.names[j] \in Tiers
      /\ \A j, l \in 0 .. ts.n : ts.names[j] = ts.names[l] => j = l
      /\ 0 \in 0 .. ts.n
  <2>1. ts.names[0] = "hbm"
    BY DEF Offers, TS_FULL, TS_HBM_DISCARD, NewTierSystem, FromZero
  <2> QED
    BY <2>1, OffersTyped, OffersValid
<1>2. k \in 0 .. ts.n /\ \A j \in 0 .. ts.n : Line(ts, k, w) <= Line(ts, j, w)
  BY <1>1, OptStateIsBest DEF opt_cost
<1> HIDE DEF k
<1>3. s \in Seq(Nat) /\ Len(s) = k /\ \A l \in 1 .. k : s[l] = 0
  <2>1. s \in [1 .. k -> Nat] /\ k \in Nat
    BY <1>2 DEF AtOnce
  <2>2. s \in Seq(Nat) /\ Len(s) = k
    BY <2>1, SeqDef
  <2> QED
    BY <2>2 DEF AtOnce
<1> HIDE DEF s
<1>4. Len(s) <= ts.n /\ row.segs = Segments(ts, s, w)
  BY <1>1, <1>2, <1>3 DEF s, k
<1>5. /\ m \in 0 .. ts.n
      /\ m = 0 => price(row) = ALPHA_HBM_B * w
      /\ m > 0 => /\ s[1] \in Nat
                  /\ price(row) = ALPHA_HBM_B * s[1] + BETA_B(ts.names[m])
  BY <1>3, <1>4, AdmittedPays
<1>6. m \in 0 .. k /\ \A l \in 1 .. m : s[l] < w
  BY <1>3, MadeIsPrefix
<1>7. w > 0 => m = k
  BY <1>3, MadeAll
<1>8. ALPHA_B("hbm") = ALPHA_HBM_B /\ BETA_B("hbm") = 0 /\ ALPHA_HBM_B \in Nat
  BY PricesTyped DEF Tiers
<1> HIDE DEF m
<1>9. \A j \in 0 .. ts.n : Line(ts, j, w) = ALPHA_B(ts.names[j]) * w + BETA_B(ts.names[j])
  BY OfferLines
<1>10. row.offered \in SUBSET Tiers /\ row.offered # {}
  BY <1>1
<1>11. \A j \in 0 .. ts.n : Line(ts, j, w) \in Nat
  <2>1. \A j \in 0 .. ts.n : ts.names[j] \in row.offered
    OBVIOUS
  <2>2. \A tier \in row.offered : ALPHA_B(tier) * w + BETA_B(tier) \in Nat
    BY <1>10, BestIs
  <2> QED
    BY <1>9, <2>1, <2>2
<1>12. price(row) = Line(ts, k, w)
  <2>0. Line(ts, 0, w) = ALPHA_HBM_B * w
    <3>1. Line(ts, 0, w) = ALPHA_HBM_B * w + 0
      BY <1>1, <1>8, <1>9
    <3>2. ALPHA_HBM_B * w \in Int
      BY <1>8
    <3> QED
      BY <3>1, <3>2
  <2>1. CASE w = 0
    <3>1. m = 0
      <4> SUFFICES ASSUME m # 0 PROVE FALSE
        OBVIOUS
      <4>1. 1 \in 1 .. m /\ 1 \in 1 .. k
        BY <1>2, <1>6
      <4> QED
        BY <1>3, <1>6, <2>1, <4>1
    <3>2. Line(ts, 0, w) = 0
      BY <1>8, <2>0, <2>1
    <3>3. Line(ts, k, w) = 0
      BY <1>1, <1>2, <1>11, <3>2
    <3> QED
      BY <1>5, <2>0, <3>1, <3>2, <3>3
  <2>2. CASE w > 0 /\ k = 0
    BY <1>5, <1>7, <2>0, <2>2
  <2>3. CASE w > 0 /\ k > 0
    <3>1. m = k /\ s[1] = 0 /\ 1 \in 1 .. k
      BY <1>2, <1>3, <1>7, <2>3
    <3>2. ts.names[k] # "hbm" /\ ts.names[k] \in Tiers
      BY <1>1, <1>2, <2>3
    <3>3. ALPHA_B(ts.names[k]) = 0 /\ BETA_B(ts.names[k]) \in Nat
      BY <3>2, PricesTyped
    <3>4. price(row) = ALPHA_HBM_B * 0 + BETA_B(ts.names[k])
      BY <1>5, <2>3, <3>1
    <3>5. Line(ts, k, w) = 0 * w + BETA_B(ts.names[k])
      BY <1>2, <1>9, <3>3
    <3> QED
      BY <1>8, <3>3, <3>4, <3>5
  <2> QED
    BY <1>2, <2>1, <2>2, <2>3
<1>13. Best(row.offered, w) = Line(ts, k, w)
  <2>1. Best(row.offered, w) <= Line(ts, k, w)
    <3>1. ts.names[k] \in row.offered
      BY <1>2
    <3> QED
      BY <1>2, <1>9, <1>10, <3>1, BestIs
  <2>2. PICK tier \in row.offered : Best(row.offered, w) = ALPHA_B(tier) * w + BETA_B(tier)
    BY <1>10, BestIs
  <2>3. PICK j \in 0 .. ts.n : tier = ts.names[j]
    OBVIOUS
  <2>4. Best(row.offered, w) = Line(ts, j, w)
    BY <1>9, <2>2, <2>3
  <2>5. Line(ts, k, w) <= Line(ts, j, w) /\ Line(ts, k, w) \in Nat /\ Line(ts, j, w) \in Nat
    BY <1>2, <1>11
  <2> QED
    BY <2>1, <2>4, <2>5
<1> QED
  BY <1>12, <1>13

\* A demoted request pays the price of the one tier it was offered.
LEMMA DemotedPays ==
  ASSUME NEW tier \in {"cpu", "discard"}, NEW w \in Nat,
         NEW row, row.segs = <<Seg(tier, 0, w)>>, row.wait = w, row.offered = {tier}
  PROVE  price(row) \in Nat /\ price(row) = Best(row.offered, row.wait)
<1>1. tier \in Tiers /\ tier # "hbm"
  BY DEF Tiers
<1>2. Seg(tier, 0, w) \in Segs /\ Seg(tier, 0, w).tier = tier /\ Seg(tier, 0, w).dur = w
  BY <1>1 DEF Seg, Segs
<1>3. /\ row.segs \in Seq(Segs) /\ Len(row.segs) = 1
      /\ row.segs[1].tier = tier /\ row.segs[1].dur = w
  BY <1>2
<1>4. price(row) = ALPHA_B(tier) * w + BETA_B(tier)
  <2>1. Len(row.segs) \in 1 .. 3 /\ \A k \in 2 .. Len(row.segs) : row.segs[k].tier # "hbm"
    BY <1>3
  <2>2. /\ price(row) = ALPHA_B(row.segs[1].tier) * row.segs[1].dur + BETA_B(EndTier(row))
        /\ EndTier(row) = row.segs[Len(row.segs)].tier
    BY <1>3, <2>1, PriceIs
  <2> QED
    BY <1>3, <2>2
<1>5. row.offered \in SUBSET Tiers /\ row.offered # {} /\ tier \in row.offered
  BY <1>1
<1>6. /\ ALPHA_B(tier) * w + BETA_B(tier) \in Nat
      /\ \E any \in row.offered : Best(row.offered, w) = ALPHA_B(any) * w + BETA_B(any)
  BY <1>5, BestIs
<1> QED
  BY <1>4, <1>6

\* A row of a replay that pays no less than the best tier it was offered, and one
\* that pays no more either
Fair(row) == price(row) >= Best(row.offered, row.wait)
Exact(row) == price(row) = Best(row.offered, row.wait)

\* One row more, and a fair one; an exact one under a condition
Paid(old, new, exactly) ==
  \E row \in Decisions : new = Append(old, row) /\ Fair(row) /\ (exactly => Exact(row))

\* opt's answer to the offers
OptAnswers(fn, wait) == \A ts \in Offers : fn[ts] = AtOnce(opt_state(ts, wait))

\* The row that a turn adds.
LEMMA TurnPays ==
  ASSUME NEW r, DOMAIN r = Fields, r.rows \in Seq(Decisions),
         NEW t0 \in Nat, NEW wait \in Nat, NEW fn,
         \A ts \in Offers : fn[ts] \in Seq(Nat) /\ Len(fn[ts]) <= ts.n
  PROVE  Paid(r.rows, Turn(r, fn, t0, wait).rows, OptAnswers(fn, wait))
<1> DEFINE u == Ticked(r, t0)
           next == Turn(r, fn, t0, wait)
           Exacting == OptAnswers(fn, wait)
<1> HIDE DEF u
<1>1. CASE PoolFree(u.hbm, C_HBM)
  <2> DEFINE ts == IF PoolFree(u.cpu, C_CPU) THEN TS_FULL ELSE TS_HBM_DISCARD
             segs == Segments(ts, fn[ts], wait)
             offered == {ts.names[k] : k \in 0 .. ts.n}
             row == [t0 |-> t0, wait |-> wait, segs |-> segs, offered |-> offered]
  <2>1. ts \in Offers
    BY DEF Offers
  <2>2. next = Placed(u, t0, wait, segs, offered)
    BY <1>1 DEF Turn, u, Admitted
  <2> HIDE DEF ts, next
  <2>3. segs \in Seq(Segs) /\ offered \in SUBSET Tiers
    <3>1. segs \in Seq(Segs)
      BY <2>1, SegmentsTyped
    <3>2. offered \in SUBSET Tiers
      BY <2>1, OffersTyped
    <3> QED
      BY <3>1, <3>2
  <2>4. segs = Segments(ts, fn[ts], wait) /\ offered = {ts.names[k] : k \in 0 .. ts.n}
    OBVIOUS
  <2>5. Exacting => segs = Segments(ts, AtOnce(opt_state(ts, wait)), wait)
    <3> SUFFICES ASSUME Exacting
                 PROVE  segs = Segments(ts, AtOnce(opt_state(ts, wait)), wait)
      OBVIOUS
    <3>1. fn[ts] = AtOnce(opt_state(ts, wait))
      BY <2>1 DEF OptAnswers
    <3> QED
      BY <2>4, <3>1, Zenon
  <2> HIDE DEF segs, offered
  <2>r. row.segs = segs /\ row.wait = wait /\ row.offered = offered
    OBVIOUS
  <2>6. row \in Decisions
    BY <2>3 DEF Decisions
  <2>7. next.rows = Append(r.rows, row)
    BY <2>2, PlacedIs DEF u
  <2> HIDE DEF row, Exacting
  <2>8. Fair(row)
    <3>1. row.segs = Segments(ts, fn[ts], wait) /\ row.offered = {ts.names[k] : k \in 0 .. ts.n}
      BY <2>4, <2>r, Zenon
    <3> QED
      BY <2>1, <2>r, <3>1, AdmittedFair DEF Fair
  <2>9. Exacting => Exact(row)
    <3> SUFFICES ASSUME Exacting PROVE Exact(row)
      OBVIOUS
    <3>1. /\ row.segs = Segments(ts, AtOnce(opt_state(ts, wait)), wait)
          /\ row.offered = {ts.names[k] : k \in 0 .. ts.n}
      BY <2>4, <2>5, <2>r, Zenon
    <3> QED
      BY <2>1, <2>r, <3>1, OptPays DEF Exact
  <2> QED
    BY <2>6, <2>7, <2>8, <2>9 DEF next, Exacting, Paid
<1>2. CASE ~PoolFree(u.hbm, C_HBM)
  <2> DEFINE tier == IF PoolFree(u.cpu, C_CPU) THEN "cpu" ELSE "discard"
             segs == <<Seg(tier, 0, wait)>>
             offered == {tier}
             row == [t0 |-> t0, wait |-> wait, segs |-> segs, offered |-> offered]
             placed == Placed(u, t0, wait, segs, offered)
  <2>1. tier \in {"cpu", "discard"}
    OBVIOUS
  <2>2. next.rows = placed.rows
    <3>1. next = [placed EXCEPT !.forced = @ \cup {Len(u.rows) + 1}]
      BY <1>2 DEF Turn, u, Demoted
    <3>2. DOMAIN placed = Fields
      <4> HIDE DEF segs, offered
      <4>1. DOMAIN Placed(Ticked(r, t0), t0, wait, segs, offered) = Fields
        BY PlacedIs
      <4> QED
        BY <4>1 DEF u
    <3> HIDE DEF placed, next
    <3> QED
      BY <3>1, <3>2 DEF Fields
  <2> HIDE DEF tier, next
  <2>3. tier \in Tiers /\ Seg(tier, 0, wait) \in Segs
    BY <2>1, SegTyped DEF Tiers
  <2>4. segs \in Seq(Segs) /\ offered \in SUBSET Tiers
    BY <2>3
  <2>5. row.segs = <<Seg(tier, 0, wait)>> /\ row.wait = wait /\ row.offered = {tier}
    OBVIOUS
  <2> HIDE DEF segs, offered
  <2>6. row \in Decisions
    BY <2>4 DEF Decisions
  <2>7. next.rows = Append(r.rows, row)
    BY <2>2, PlacedIs DEF u
  <2> HIDE DEF row, placed
  <2>8. price(row) \in Nat /\ price(row) = Best(row.offered, row.wait)
    BY <2>1, <2>5, DemotedPays
  <2>9. Fair(row) /\ Exact(row)
    BY <2>8 DEF Fair, Exact
  <2> QED
    BY <2>6, <2>7, <2>9 DEF next, Paid
<1> QED
  BY <1>1, <1>2

\* A row of MORI that is resolved pays no less than the best of all tiers
Earned(row) == row.segs # << >> => price(row) >= Best(Tiers, row.wait)

\* A context that stays in HBM for its wait, or leaves it for good before.
LEMMA LeavingPays ==
  ASSUME NEW row, row.wait \in Nat, NEW d \in Nat, NEW rest \in Int,
         NEW tier \in {"cpu", "discard"},
         \/ row.segs = <<Seg("hbm", 0, row.wait)>>
         \/ row.segs = <<Seg("hbm", 0, d), Seg(tier, d, rest)>>
  PROVE  Earned(row)
<1> DEFINE w == row.wait
<1>1. /\ \A any \in Tiers : ALPHA_B(any) * w + BETA_B(any) \in Nat
      /\ \A any \in Tiers : Best(Tiers, w) <= ALPHA_B(any) * w + BETA_B(any)
      /\ Best(Tiers, w) \in Nat
  <2>1. Tiers \in SUBSET Tiers /\ Tiers # {}
    BY DEF Tiers
  <2> QED
    BY <2>1, BestIs
<1>2. /\ "hbm" \in Tiers /\ tier \in Tiers /\ tier # "hbm"
      /\ ALPHA_B("hbm") = ALPHA_HBM_B /\ BETA_B("hbm") = 0 /\ ALPHA_HBM_B \in Nat
      /\ ALPHA_B(tier) = 0 /\ BETA_B(tier) \in Nat
  BY PricesTyped DEF Tiers
<1>3. CASE row.segs = <<Seg("hbm", 0, w)>>
  <2>1. Seg("hbm", 0, w) \in Segs /\ Seg("hbm", 0, w).tier = "hbm" /\ Seg("hbm", 0, w).dur = w
    BY <1>2 DEF Seg, Segs
  <2>2. /\ row.segs \in Seq(Segs) /\ Len(row.segs) = 1
        /\ row.segs[1].tier = "hbm" /\ row.segs[1].dur = w
    BY <1>3, <2>1
  <2>3. Len(row.segs) \in 1 .. 3 /\ \A k \in 2 .. Len(row.segs) : row.segs[k].tier # "hbm"
    BY <2>2
  <2>4. /\ price(row) = ALPHA_B(row.segs[1].tier) * row.segs[1].dur + BETA_B(EndTier(row))
        /\ EndTier(row) = row.segs[Len(row.segs)].tier
    BY <2>2, <2>3, PriceIs
  <2>5. price(row) = ALPHA_B("hbm") * w + BETA_B("hbm")
    BY <2>2, <2>4
  <2> QED
    BY <1>1, <1>2, <2>5 DEF Earned
<1>4. CASE row.segs = <<Seg("hbm", 0, d), Seg(tier, d, rest)>>
  <2>1. /\ Seg("hbm", 0, d) \in Segs /\ Seg(tier, d, rest) \in Segs
        /\ Seg("hbm", 0, d).tier = "hbm" /\ Seg("hbm", 0, d).dur = d
        /\ Seg(tier, d, rest).tier = tier
    BY <1>2 DEF Seg, Segs
  <2>2. /\ row.segs \in Seq(Segs) /\ Len(row.segs) = 2
        /\ row.segs[1].tier = "hbm" /\ row.segs[1].dur = d /\ row.segs[2].tier = tier
    BY <1>4, <2>1
  <2>3. Len(row.segs) \in 1 .. 3 /\ \A k \in 2 .. Len(row.segs) : row.segs[k].tier # "hbm"
    BY <1>2, <2>2
  <2>4. /\ price(row) = ALPHA_B(row.segs[1].tier) * row.segs[1].dur + BETA_B(EndTier(row))
        /\ EndTier(row) = row.segs[Len(row.segs)].tier
    BY <2>2, <2>3, PriceIs
  <2>5. price(row) = ALPHA_HBM_B * d + BETA_B(tier)
    BY <1>2, <2>2, <2>4
  <2>6. ALPHA_HBM_B * d \in Nat
    BY <1>2
  <2>7. Best(Tiers, w) <= BETA_B(tier)
    <3>1. Best(Tiers, w) <= 0 * w + BETA_B(tier)
      BY <1>1, <1>2
    <3> QED
      BY <1>2, <3>1
  <2> QED
    BY <1>1, <1>2, <2>5, <2>6, <2>7 DEF Earned
<1> QED
  BY <1>3, <1>4

\* A context that resumes pays for its wait in HBM.
LEMMA StayingPays ==
  ASSUME NEW row \in MoriRows
  PROVE  Earned(StaysIn(row))
<1>1. row.wait \in Nat
  BY DEF MoriRows
<1>2. StaysIn(row).wait = row.wait /\ StaysIn(row).segs = <<Seg("hbm", 0, row.wait)>>
  BY DEF StaysIn, MoriRows
<1> HIDE DEF StaysIn
<1>3. 0 \in Nat /\ 0 \in Int /\ "cpu" \in {"cpu", "discard"}
  OBVIOUS
<1> QED
  BY <1>1, <1>2, <1>3, LeavingPays

\* So does a context that is taken out of HBM.
LEMMA ResolvedPays ==
  ASSUME NEW row \in MoriRows, NEW time \in Nat, row.t0 <= time,
         NEW tier \in {"cpu", "discard"}
  PROVE  Earned(Resolve(row, time, tier))
<1> DEFINE new == Resolve(row, time, tier)
           dur == IF time - row.t0 <= row.wait THEN time - row.t0 ELSE row.wait
           rest == row.wait - dur
<1>1. row.t0 \in Nat /\ row.wait \in Nat
  BY DEF MoriRows
<1>2. dur \in Nat /\ rest \in Nat /\ (rest <= 0 => dur = row.wait)
  BY <1>1
<1>3. new = [row EXCEPT !.segs = IF rest <= 0 THEN <<Seg("hbm", 0, dur)>>
                                 ELSE <<Seg("hbm", 0, dur), Seg(tier, dur, rest)>>]
  BY DEF Resolve
<1> HIDE DEF new, dur, rest
<1>4. /\ new.wait = row.wait
      /\ \/ new.segs = <<Seg("hbm", 0, row.wait)>>
         \/ new.segs = <<Seg("hbm", 0, dur), Seg(tier, dur, rest)>>
  BY <1>2, <1>3 DEF MoriRows
<1>5. Earned(new)
  BY <1>1, <1>2, <1>4, LeavingPays
<1> QED
  BY <1>5 DEF new

\* An arrival at MORI resolves contexts at no less than they have to pay.
LEMMA MoriPays ==
  ASSUME MoriInv, \A j \in DOMAIN rows : Earned(rows[j]),
         NEW gap \in Gaps, NEW wait \in Waits, Arrive(gap, wait)
  PROVE  \A j \in DOMAIN rows' : Earned(rows'[j])
<1> DEFINE t0 == now + gap
           fresh == [t0 |-> t0, wait |-> wait, segs |-> << >>]
           all == Append(rows, fresh)
           gone == Resumed(hbm, all, t0)
           popped == Popped(hbm, gone)
           queue == AfterPop(hbm, gone, Len(all))
           resumed == RowsAfter(all, popped)
           heap == PoolTick(cpu, t0)
           tier == IF PoolFree(heap, C_CPU) THEN "cpu" ELSE "discard"
           victim == queue[1]
           row == Resolve(all[victim], t0, tier)
<1>1. /\ gap \in Nat /\ wait \in Nat /\ now \in Nat /\ rows \in Seq(MoriRows)
      /\ \A j \in DOMAIN rows : rows[j].t0 <= now
  BY MoriAssumption DEF MoriInv
<1>2. t0 \in Nat /\ now <= t0
  BY <1>1
<1>3. rows' = resumed \/ rows' = [resumed EXCEPT ![victim] = row]
  BY <1>1, ArriveIs
<1>4. fresh \in MoriRows /\ fresh.segs = << >> /\ fresh.t0 = t0
  BY <1>1, <1>2 DEF MoriRows
<1>5. tier \in {"cpu", "discard"}
  OBVIOUS
<1> HIDE DEF fresh, gone, popped, queue, heap, tier, victim, row
<1>6. resumed = [j \in DOMAIN all |->
                   IF j \in popped THEN Resolve(all[j], End(all[j]), "hbm") ELSE all[j]]
  BY DEF RowsAfter
<1> HIDE DEF resumed
<1>7. ASSUME NEW j \in DOMAIN all
      PROVE  all[j] \in MoriRows /\ all[j].t0 <= t0 /\ Earned(all[j])
  <2>1. Len(rows) \in Nat /\ DOMAIN all = 1 .. Len(rows) + 1 /\ DOMAIN rows = 1 .. Len(rows)
    BY <1>1, <1>4
  <2>2. CASE j = Len(rows) + 1
    <3>1. all[j] = fresh
      BY <1>1, <1>4, <2>2
    <3> QED
      BY <1>2, <1>4, <3>1 DEF Earned
  <2>3. CASE j # Len(rows) + 1
    <3>1. j \in DOMAIN rows /\ all[j] = rows[j] /\ rows[j] \in MoriRows
      BY <1>1, <1>4, <2>1, <2>3
    <3>2. rows[j].t0 \in Nat /\ rows[j].t0 <= now
      BY <1>1, <3>1 DEF MoriRows
    <3>3. rows[j].t0 <= t0
      BY <1>1, <1>2, <3>2
    <3>4. Earned(rows[j])
      BY <3>1
    <3> QED
      BY <3>1, <3>3, <3>4, Zenon
  <2> QED
    BY <2>2, <2>3
<1> HIDE DEF all
<1>8. ASSUME NEW j \in DOMAIN all PROVE Earned(resumed[j])
  <2>1. CASE j \in popped
    <3>1. resumed[j] = StaysIn(all[j])
      BY <1>6, <1>7, <2>1, ResumedRow
    <3> QED
      BY <1>7, <3>1, StayingPays
  <2>2. CASE j \notin popped
    <3>1. resumed[j] = all[j]
      BY <1>6, <2>2
    <3> QED
      BY <1>7, <3>1
  <2> QED
    BY <2>1, <2>2
<1>9. victim \in DOMAIN all => Earned(row)
  BY <1>2, <1>5, <1>7, ResolvedPays DEF row
<1>10. DOMAIN resumed = DOMAIN all
  BY <1>6
<1> QED
  BY <1>3, <1>8, <1>9, <1>10

\* Everybody pays what is asked of them, and opt no more
PaidInv ==
  /\ \A j \in DOMAIN rows : Earned(rows[j])
  /\ \A policy \in Policies : \A j \in DOMAIN replays[policy].rows :
       /\ Fair(replays[policy].rows[j])
       /\ policy = "opt" => Exact(replays[policy].rows[j])

\* One more arrival is paid for as the others were.
LEMMA PaidStep ==
  PoliciesInv /\ MoriInv /\ PaidInv /\ [EvaluationNext]_<<vars, replays>> => PaidInv'
<1> SUFFICES ASSUME PoliciesInv, MoriInv, PaidInv, [EvaluationNext]_<<vars, replays>>
             PROVE  PaidInv'
  OBVIOUS
<1>1. CASE TraceEnds
  <2>1. /\ replays' = replays
        /\ rows' = [j \in DOMAIN rows |->
                     IF j \in ToSet(hbm) THEN Resolve(rows[j], End(rows[j]), "hbm") ELSE rows[j]]
    BY <1>1 DEF TraceEnds, Drain
  <2>2. ASSUME NEW j \in DOMAIN rows' PROVE Earned(rows'[j])
    <3>1. j \in DOMAIN rows /\ rows[j] \in MoriRows /\ Earned(rows[j])
      BY <2>1, <2>2 DEF MoriInv, PaidInv
    <3>2. rows'[j] = IF j \in ToSet(hbm) THEN StaysIn(rows[j]) ELSE rows[j]
      BY <2>1, <3>1, ResumedRow
    <3> QED
      BY <3>1, <3>2, StayingPays
  <2> QED
    BY <2>1, <2>2, Zenon DEF PaidInv
<1>2. ASSUME NEW gap \in Gaps, NEW wait \in Waits, NEW c \in Chances, Replayed(gap, wait, c)
      PROVE  PaidInv'
  <2>1. gap \in Nat /\ wait \in Nat /\ now \in Nat
    BY MoriAssumption DEF PoliciesInv
  <2>2. now + gap \in Nat
    BY <2>1
  <2>3. \A j \in DOMAIN rows' : Earned(rows'[j])
    BY <1>2, MoriPays DEF Replayed, PaidInv
  <2>4. ASSUME NEW policy \in Policies, NEW j \in DOMAIN replays'[policy].rows
        PROVE  /\ Fair(replays'[policy].rows[j])
               /\ policy = "opt" => Exact(replays'[policy].rows[j])
    <3> DEFINE fn == [ts \in Offers |-> Switches(policy, ts, wait, c)]
               r == replays[policy]
               t0 == now + gap
    <3>1. replays'[policy] = Turn(r, fn, t0, wait)
      BY <1>2 DEF Replayed
    <3>2. \A ts \in Offers : fn[ts] \in Seq(Nat) /\ Len(fn[ts]) <= ts.n
      BY <2>1, SwitchesTyped
    <3>3. policy = "opt" => OptAnswers(fn, wait)
      BY DEF Switches, OptAnswers
    <3>4. /\ DOMAIN r = Fields /\ r.rows \in Seq(Decisions)
          /\ \A l \in DOMAIN r.rows :
               Fair(r.rows[l]) /\ (policy = "opt" => Exact(r.rows[l]))
      BY DEF PoliciesInv, ReplayFits, PaidInv
    <3>t. t0 \in Nat
      BY <2>2
    <3> HIDE DEF fn, r, t0
    <3>a. DOMAIN r = Fields /\ r.rows \in Seq(Decisions) /\ wait \in Nat
      BY <2>1, <3>4
    <3>p. Paid(r.rows, Turn(r, fn, t0, wait).rows, OptAnswers(fn, wait))
      BY <3>t, <3>2, <3>a, TurnPays
    <3>5. PICK row \in Decisions :
            /\ Turn(r, fn, t0, wait).rows = Append(r.rows, row)
            /\ Fair(row)
            /\ OptAnswers(fn, wait) => Exact(row)
      BY <3>p DEF Paid
    <3>6. replays'[policy].rows = Append(r.rows, row)
      BY <3>1, <3>5
    <3>7. Len(r.rows) \in Nat /\ j \in 1 .. Len(r.rows) + 1 /\ DOMAIN r.rows = 1 .. Len(r.rows)
      BY <2>4, <3>4, <3>6
    <3>8. CASE j = Len(r.rows) + 1
      <4>1. replays'[policy].rows[j] = row
        BY <3>4, <3>6, <3>8
      <4> QED
        BY <3>3, <3>5, <4>1
    <3>9. CASE j # Len(r.rows) + 1
      <4>1. j \in DOMAIN r.rows /\ replays'[policy].rows[j] = r.rows[j]
        BY <3>4, <3>6, <3>7, <3>9
      <4> QED
        BY <3>4, <4>1
    <3> QED
      BY <3>8, <3>9
  <2> QED
    BY <2>3, <2>4, Zenon DEF PaidInv
<1>3. CASE UNCHANGED <<vars, replays>>
  <2>1. replays' = replays /\ rows' = rows
    BY <1>3 DEF vars
  <2> QED
    BY <2>1, Zenon DEF PaidInv
<1> QED
  BY <1>1, <1>2, <1>3 DEF EvaluationNext

\* No policy, and MORI neither, ever pays less for a request than the cheapest tier it
\* was offered, and opt pays exactly that (policy.py:58, replay.py:64): what a replay
\* charges is what the policies decide by.
THEOREM NobodyBeatsTheOracleCorrect == EvaluationSpec => []NobodyBeatsTheOracle
<1>1. EvaluationInit => PaidInv
  <2> SUFFICES ASSUME EvaluationInit PROVE PaidInv
    OBVIOUS
  <2>1. rows = << >> /\ \A policy \in Policies : replays[policy].rows = << >>
    BY DEF EvaluationInit, Init, NewReplay
  <2> QED
    BY <2>1 DEF PaidInv
<1>2. PaidInv => NobodyBeatsTheOracle
  <2> SUFFICES ASSUME PaidInv PROVE NobodyBeatsTheOracle
    OBVIOUS
  <2>1. ASSUME NEW policy \in Policies, NEW row \in ToSet(replays[policy].rows)
        PROVE  Fair(row) /\ (policy = "opt" => Exact(row))
    BY <2>1 DEF PaidInv, ToSet
  <2>2. ASSUME NEW row \in ToSet(rows) PROVE Earned(row)
    BY <2>2 DEF PaidInv, ToSet
  <2>3. {"hbm", "cpu", "discard"} = Tiers
    BY DEF Tiers
  <2> QED
    BY <2>1, <2>2, <2>3, Zenon DEF NobodyBeatsTheOracle, Fair, Exact, Earned
<1> QED
  BY <1>1, <1>2, PaidStep, CapacityInvariant, PTL DEF EvaluationSpec
=============================================================================
