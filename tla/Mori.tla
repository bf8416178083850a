-------------------------------- MODULE Mori ---------------------------------
(***************************************************************************)
(* The MORI baseline of harness/replay.py (run_mori): suspended contexts   *)
(* stay in HBM, in order of arrival, until an arrival makes them too many. *)
(* One step replays one arrival: resumed contexts at the head of the queue *)
(* leave, the new one joins, and the oldest are evicted while there are    *)
(* more than C_HBM.  Drain resolves what is left when the trace ends.      *)
(***************************************************************************)
EXTENDS TierPool

CONSTANTS
  Gaps,          \* times between two arrivals
  Waits,         \* how long a request may wait for its approval
  MaxArrivals    \* bound on the requests replayed

ASSUME MoriAssumption ==
  /\ Gaps \subseteq Nat /\ Waits \subseteq Nat
  /\ MaxArrivals \in Nat

VARIABLES
  now,       \* t0 of the last arrival
  cpu,       \* the heap of the DRAM pool
  hbm,       \* the deque of contexts not resolved yet, oldest first
  rows,      \* info: one row per request; segs is << >> until it is resolved
  evicted,   \* request -> when it was taken out of HBM by an arrival
  drained

vars == <<now, cpu, hbm, rows, evicted, drained>>

Init ==
  /\ now = 0 /\ cpu = {} /\ hbm = << >> /\ rows = << >>
  /\ evicted = << >> /\ drained = FALSE

-----------------------------------------------------------------------------
End(row) == row.t0 + row.wait

\* resolve(): the row of a context that leaves HBM at a time, for a tier unless
\* its wait was over by then
Resolve(row, time, tier) ==
  LET hbm_dur == IF time - row.t0 <= row.wait THEN time - row.t0 ELSE row.wait
      rest == row.wait - hbm_dur
  IN [row EXCEPT !.segs = IF rest <= 0 THEN <<Seg("hbm", 0, hbm_dur)>>
                          ELSE <<Seg("hbm", 0, hbm_dur), Seg(tier, hbm_dur, rest)>>]

\* How many contexts at the head of the deque have resumed by a time
Resumed(queue, info, time) ==
  Min({k \in 1 .. Len(queue) : End(info[queue[k]]) > time} \cup {Len(queue) + 1}) - 1

\* Variant: the newest goes first
NewestVictim(queue) == Len(queue)

\* The place in the deque of the context that has to leave
Victim(queue) == 1

Arrive(gap, wait) ==
  LET t0 == now + gap
      i == Len(rows) + 1
      info == Append(rows, [t0 |-> t0, wait |-> wait, segs |-> << >>])
      gone == Resumed(hbm, info, t0)
      queue == Append(SubSeq(hbm, gone + 1, Len(hbm)), i)
      heap == PoolTick(cpu, t0)
      tier == IF PoolFree(heap, C_CPU) THEN "cpu" ELSE "discard"
      popped == {hbm[k] : k \in 1 .. gone}
      resumed == [j \in 1 .. i |-> IF j \in popped THEN Resolve(info[j], End(info[j]), "hbm")
                                  ELSE info[j]]
  IN /\ ~drained
     /\ Len(rows) < MaxArrivals
     /\ now' = t0
     /\ \/ /\ Len(queue) <= C_HBM
           /\ hbm' = queue
           /\ cpu' = heap
           /\ rows' = resumed
           /\ UNCHANGED evicted
        \/ /\ Len(queue) > C_HBM    \* by one: the deque was within C_HBM
           /\ LET victim == queue[Victim(queue)]
                  row == Resolve(info[victim], t0, tier)
              IN /\ hbm' = RemoveAt(queue, Victim(queue))
                 /\ cpu' = IF EndTier(row) = "cpu"
                           THEN PoolHold(heap, End(row), victim) ELSE heap
                 /\ rows' = [resumed EXCEPT ![victim] = row]
                 /\ evicted' = [j \in DOMAIN evicted \cup {victim} |->
                                IF j = victim THEN t0 ELSE evicted[j]]
     /\ UNCHANGED drained

Drain ==
  /\ ~drained
  /\ drained' = TRUE
  /\ hbm' = << >>
  /\ rows' = [j \in DOMAIN rows |->
                IF j \in ToSet(hbm) THEN Resolve(rows[j], End(rows[j]), "hbm") ELSE rows[j]]
  /\ UNCHANGED <<now, cpu, evicted>>

Next == Drain \/ \E gap \in Gaps, wait \in Waits : Arrive(gap, wait)

Spec == Init /\ [][Next]_vars

-----------------------------------------------------------------------------
(* A context that is not resolved yet is in HBM until its wait ends.       *)

Believed(row) == IF row.segs = << >> THEN [row EXCEPT !.segs = <<Seg("hbm", 0, row.wait)>>]
                 ELSE row
Timeline == [i \in DOMAIN rows |-> Believed(rows[i])]

\* HBM holds at most C_HBM suspended contexts and DRAM at most C_CPU, for MORI
\* as for every policy (replay.py:8-13), at any time past or still to come.
MoriWithinCapacity ==
  FitsInto(Timeline, "hbm", C_HBM) /\ FitsInto(Timeline, "cpu", C_CPU)

\* An evicted context is discarded only when DRAM is physically full: the slots
\* of the DRAM pool are taken by contexts that are in DRAM now.
DiscardedOnlyWhenFull ==
  \A i \in DOMAIN evicted :
    EndTier(rows[i]) = "discard"
      => Occupancy([j \in DOMAIN rows \ {i} |-> Timeline[j]], "cpu", evicted[i]) >= C_CPU

\* Eviction is FIFO among ties (replay.py:15-16): when a context is evicted from
\* its wait, no older one is left in HBM.
EvictsOldestFirst ==
  \A i \in DOMAIN evicted :
    \A j \in 1 .. i - 1 : ~InTier(Timeline[j], "hbm", evicted[i])

\* "demotes under capacity pressure" (replay.py:13-14), "contexts whose wait
\* ended leave HBM untouched" (replay.py:169): a context that still waits is
\* taken out of HBM only when the contexts that still wait, the new one
\* included, are more than HBM holds.
EvictsUnderPressure ==
  [][\A i \in DOMAIN evicted' \ DOMAIN evicted :
       LET waiting == {j \in ToSet(hbm) : End(rows[j]) > now'}
       IN i \in waiting => Cardinality(waiting) + 1 > C_HBM]_vars
=============================================================================
