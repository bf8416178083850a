------------------------------- MODULE Replay --------------------------------
(***************************************************************************)
(* The admission layer of harness/replay.py (run_generic): a placement     *)
(* policy under a capacity of C_HBM contexts in HBM and C_CPU in DRAM.     *)
(*                                                                         *)
(* A replay is a record [hbm, cpu, rows, forced]: the heaps of the two     *)
(* pools, one row per request in order of arrival, and the requests the    *)
(* admission layer kept out of HBM.  Turn is one turn of the loop: the     *)
(* pools drop the departures up to the arrival, the policy is asked for    *)
(* its switch times when HBM has room, the request is demoted at once      *)
(* otherwise, and the slots of the whole trajectory are held from the      *)
(* arrival on.                                                             *)
(***************************************************************************)
EXTENDS TierPool, TierSystem

NewReplay == [hbm |-> {}, cpu |-> {}, rows |-> << >>, forced |-> {}]

\* TierSystem(alphas, betas, names), the states counted from zero
FromZero(s) == [k \in 0 .. Len(s) - 1 |-> s[k + 1]]

NewTierSystem(alphas, betas, names) ==
  [n |-> Len(alphas) - 1, alpha |-> FromZero(alphas), beta |-> FromZero(betas),
   names |-> FromZero(names)]

TS_FULL == NewTierSystem(<<ALPHA_HBM_B, 0, 0>>, <<0, BETA_CPU_B, BETA_DISCARD_B>>,
                         <<"hbm", "cpu", "discard">>)

TS_HBM_DISCARD == NewTierSystem(<<ALPHA_HBM_B, 0>>, <<0, BETA_DISCARD_B>>,
                                <<"hbm", "discard">>)

\* What the admission layer may ask a policy to place on
Offers == {TS_FULL, TS_HBM_DISCARD}

\* How many switches are made: those before the first that is not before the end
\* of the wait
Made(switches, wait) ==
  Min({k \in DOMAIN switches : switches[k] >= wait} \cup {Len(switches) + 1}) - 1

\* When segment k begins, and segment k - 1 ends
Bound(switches, wait, k) ==
  CASE k = 1 -> 0
    [] k \in 2 .. Made(switches, wait) + 1 -> switches[k - 1]
    [] OTHER -> wait

\* The trajectory as segments
Segments(ts, switches, wait) ==
  [k \in 1 .. Made(switches, wait) + 1 |->
     Seg(ts.names[k - 1], Bound(switches, wait, k),
         Bound(switches, wait, k + 1) - Bound(switches, wait, k))]

\* Variant: held until the request wakes up, whatever its duration in the tier
SlotsUntilWake(row, tier, i) ==
  {<<row.t0 + row.wait, i>> : k \in {k \in DOMAIN row.segs : row.segs[k].tier = tier}}

\* The slots a row takes in the heap of a tier, from its arrival until the
\* trajectory leaves the tier
Slots(row, tier, i) ==
  {<<Leaves(row, row.segs[k]), i>> :
     k \in {k \in DOMAIN row.segs : row.segs[k].tier = tier /\ row.segs[k].dur > 0}}

Ticked(r, t0) == [r EXCEPT !.hbm = PoolTick(@, t0), !.cpu = PoolTick(@, t0)]

Placed(r, t0, wait, segs, offered) ==
  LET i == Len(r.rows) + 1
      row == [t0 |-> t0, wait |-> wait, segs |-> segs, offered |-> offered]
  IN [r EXCEPT !.hbm = @ \cup Slots(row, "hbm", i),
               !.cpu = @ \cup Slots(row, "cpu", i),
               !.rows = Append(@, row)]

\* fn is the policy's answer to either offer
Admitted(r, fn, t0, wait) ==
  LET ts == IF PoolFree(r.cpu, C_CPU) THEN TS_FULL ELSE TS_HBM_DISCARD
  IN Placed(r, t0, wait, Segments(ts, fn[ts], wait), {ts.names[k] : k \in 0 .. ts.n})

Demoted(r, t0, wait) ==
  LET tier == IF PoolFree(r.cpu, C_CPU) THEN "cpu" ELSE "discard"
  IN [Placed(r, t0, wait, <<Seg(tier, 0, wait)>>, {tier})
        EXCEPT !.forced = @ \cup {Len(r.rows) + 1}]

Turn(replay, fn, t0, wait) ==
  LET r == Ticked(replay, t0)
  IN IF PoolFree(r.hbm, C_HBM) THEN Admitted(r, fn, t0, wait) ELSE Demoted(r, t0, wait)
=============================================================================
