-------------------------- MODULE PinControlProofs ---------------------------
(***************************************************************************)
(* Proof that a calm call of _ss_control returns the value written last,   *)
(* for every set of values and every length of the run.                    *)
(*                                                                         *)
(* What makes it work is that the sleep separates the mtimes of two        *)
(* set_ctrl calls, and that the engine stores an mtime only after it       *)
(* loaded a whole value: the argument is about the one tick a truncation   *)
(* and its write may share.                                                *)
(***************************************************************************)
EXTENDS PinControl, TLAPS

\* The file: torn exactly while a write is under way, and older than the clock
\* once the harness has slept.
FileInv ==
  /\ mtime <= clock
  /\ body = Torn <=> hpc = "truncated"
  /\ hpc = "sleeping" => body = target
  /\ hpc = "idle" /\ body # Absent => mtime < clock

\* The engine: what it stored or is about to store with the file's mtime is the
\* file's content, and nothing is stored with the mtime of a torn file.
EngineInv ==
  /\ _ss_ctrl_mtime <= mtime
  /\ body = Absent => _ss_ctrl_mtime = -1 /\ epc = "idle"
  /\ epc # "idle" => stat_mtime <= mtime
  /\ hpc = "truncated" => _ss_ctrl_mtime < mtime
  /\ epc = "loaded" /\ loaded # Torn /\ stat_mtime = mtime => body = loaded

\* A calm call has the file as it is.
CalmInv ==
  calm => /\ epc = "statted" => stat_mtime = mtime /\ body \in Bodies
          /\ epc = "loaded" => loaded = body /\ stat_mtime = mtime
          /\ hpc # "truncated"

IInv == TypeOK /\ FileInv /\ EngineInv /\ CalmInv /\ MtimeVouches /\ FreshWhenCalm

\* The engine starts from off before there is a file.
LEMMA InitInv == Init => IInv
BY ControlAssumption
DEF Init, IInv, TypeOK, FileInv, EngineInv, CalmInv, MtimeVouches, FreshWhenCalm,
    Absent, Torn

\* Every file system call of either side keeps the invariant.
LEMMA NextInv == IInv /\ [Next]_vars => IInv'
<1> SUFFICES ASSUME IInv, [Next]_vars PROVE IInv'
  OBVIOUS
<1>0. Torn # Absent
  BY DEF Torn, Absent
<1> USE <1>0, ControlAssumption
    DEF IInv, TypeOK, FileInv, EngineInv, CalmInv, MtimeVouches, FreshWhenCalm,
        fileVars, harnessVars, engineVars
<1>1. CASE Tick
  BY <1>1 DEF Tick
<1>2. ASSUME NEW v \in Bodies, Truncate(v) PROVE IInv'
  <2>1. mtime < clock \/ body = Absent
    BY <1>2 DEF Truncate
  <2>2. TypeOK'
    BY <1>2 DEF Truncate
  <2>3. FileInv'
    BY <1>2, <2>1 DEF Truncate
  <2>4. EngineInv'
    BY <1>2, <2>1 DEF Truncate
  <2>5. CalmInv' /\ MtimeVouches' /\ FreshWhenCalm'
    BY <1>2 DEF Truncate
  <2> QED
    BY <2>2, <2>3, <2>4, <2>5
<1>3. CASE Write
  <2>1. body = Torn /\ _ss_ctrl_mtime < clock
    BY <1>3 DEF Write
  <2>2. TypeOK'
    BY <1>3 DEF Write
  <2>3. FileInv'
    BY <1>3, <2>1 DEF Write
  <2>4. EngineInv'
    BY <1>3, <2>1 DEF Write
  <2>5. CalmInv' /\ MtimeVouches' /\ FreshWhenCalm'
    BY <1>3, <2>1 DEF Write
  <2> QED
    BY <2>2, <2>3, <2>4, <2>5
<1>4. CASE Wake
  BY <1>4 DEF Wake
<1>5. CASE Stat
  BY <1>5 DEF Stat
<1>6. CASE Load
  BY <1>6 DEF Load
<1>7. CASE Return
  BY <1>7 DEF Return
<1>8. CASE UNCHANGED vars
  BY <1>8 DEF vars
<1> QED
  BY <1>1, <1>2, <1>3, <1>4, <1>5, <1>6, <1>7, <1>8 DEF Next

\* A call of _ss_control that overlaps no write returns the value set_ctrl
\* wrote last.
THEOREM FreshWhenCalmCorrect == Spec => []FreshWhenCalm
BY InitInv, NextInv, PTL DEF Spec, IInv

\* The mtime the engine stores never vouches for a value it does not have.
THEOREM MtimeVouchesCorrect == Spec => []MtimeVouches
BY InitInv, NextInv, PTL DEF Spec, IInv
=============================================================================
