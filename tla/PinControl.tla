----------------------------- MODULE PinControl ------------------------------
(***************************************************************************)
(* The control file between the harness and the engine.  set_ctrl rewrites *)
(* the file in place (truncate, then write) and sleeps; _ss_control, called*)
(* once per freed request, compares the file's mtime with the one it read  *)
(* last and reloads only when they differ, keeping what it has when the    *)
(* load fails.  The two run in different processes and their file system   *)
(* calls interleave; mtimes have the resolution of one clock tick.         *)
(*                                                                         *)
(* An operator introduced as a variant is no part of the specification: it *)
(* is a mistake one could make in the definition that follows it, kept to  *)
(* show that a property notices.                                           *)
(***************************************************************************)
EXTENDS Integers

CONSTANTS
  Bodies,     \* the control values the harness writes
  Off,        \* the value the engine starts with
  MaxClock    \* bound on the clock: the harness writes no more once it is reached

Absent == "absent"   \* no file: getmtime raises
Torn == "torn"       \* truncated and not written yet: json.load raises

ASSUME ControlAssumption ==
  /\ Off \in Bodies
  /\ Absent \notin Bodies /\ Torn \notin Bodies
  /\ MaxClock \in Nat

VARIABLES
  clock,          \* file system time in ticks
  mtime, body,    \* the control file
  hpc,            \* harness: idle, truncated (mid write), sleeping
  target,         \* the value set_ctrl is writing or wrote last
  epc,            \* engine: idle, statted, loaded (between its calls)
  stat_mtime,     \* m of _ss_control
  loaded,         \* what json.load saw
  _ss_ctrl, _ss_ctrl_mtime,
  calm            \* no write has run since the call of _ss_control in progress
                  \* (or the last one) began

fileVars == <<mtime, body>>
harnessVars == <<hpc, target>>
engineVars == <<epc, stat_mtime, loaded, _ss_ctrl, _ss_ctrl_mtime>>
vars == <<clock, fileVars, harnessVars, engineVars, calm>>

TypeOK ==
  /\ clock \in 0 .. MaxClock
  /\ mtime \in 0 .. MaxClock /\ body \in Bodies \cup {Absent, Torn}
  /\ hpc \in {"idle", "truncated", "sleeping"} /\ target \in Bodies
  /\ epc \in {"idle", "statted", "loaded"}
  /\ stat_mtime \in 0 .. MaxClock
  /\ loaded \in Bodies \cup {Torn}
  /\ _ss_ctrl \in Bodies
  /\ _ss_ctrl_mtime \in -1 .. MaxClock
  /\ calm \in BOOLEAN

Init ==
  /\ clock = 0
  /\ mtime = 0 /\ body = Absent
  /\ hpc = "idle" /\ target = Off
  /\ epc = "idle" /\ stat_mtime = 0 /\ loaded = Torn
  /\ _ss_ctrl = Off /\ _ss_ctrl_mtime = -1
  /\ calm = TRUE

Tick ==
  /\ clock < MaxClock
  /\ clock' = clock + 1
  /\ UNCHANGED <<fileVars, harnessVars, engineVars, calm>>

-----------------------------------------------------------------------------
(* The harness: Path.write_text, then time.sleep(0.2).                     *)

Truncate(v) ==
  /\ hpc = "idle" /\ clock < MaxClock
  /\ mtime' = clock /\ body' = Torn
  /\ hpc' = "truncated" /\ target' = v
  /\ calm' = FALSE
  /\ UNCHANGED <<clock, engineVars>>

Write ==
  /\ hpc = "truncated"
  /\ mtime' = clock /\ body' = target
  /\ hpc' = "sleeping"
  /\ calm' = FALSE
  /\ UNCHANGED <<clock, target, engineVars>>

\* Variant: no sleep
WakeAtOnce ==
  /\ hpc = "sleeping"
  /\ hpc' = "idle"
  /\ UNCHANGED <<clock, fileVars, target, engineVars, calm>>

\* 0.2 s is longer than a tick: the next write gets a later mtime
Wake ==
  /\ hpc = "sleeping" /\ clock > mtime
  /\ hpc' = "idle"
  /\ UNCHANGED <<clock, fileVars, target, engineVars, calm>>

-----------------------------------------------------------------------------
(* The engine: getmtime, open and load, assign and return.                 *)

Stat ==
  /\ epc = "idle"
  /\ calm' = (hpc # "truncated")
  /\ \/ /\ body # Absent /\ mtime # _ss_ctrl_mtime
        /\ epc' = "statted" /\ stat_mtime' = mtime
     \/ /\ body = Absent \/ mtime = _ss_ctrl_mtime    \* raised, or nothing new
        /\ UNCHANGED <<epc, stat_mtime>>
  /\ UNCHANGED <<clock, fileVars, harnessVars, loaded, _ss_ctrl, _ss_ctrl_mtime>>

Load ==
  /\ epc = "statted"
  /\ epc' = "loaded" /\ loaded' = body
  /\ UNCHANGED <<clock, fileVars, harnessVars, stat_mtime, _ss_ctrl,
                 _ss_ctrl_mtime, calm>>

\* Variant: the mtime is read once more
ReturnLaterMtime ==
  /\ epc = "loaded"
  /\ epc' = "idle"
  /\ IF loaded = Torn
     THEN UNCHANGED <<_ss_ctrl, _ss_ctrl_mtime>>
     ELSE _ss_ctrl' = loaded /\ _ss_ctrl_mtime' = mtime
  /\ UNCHANGED <<clock, fileVars, harnessVars, stat_mtime, loaded, calm>>

Return ==
  /\ epc = "loaded"
  /\ epc' = "idle"
  /\ IF loaded = Torn
     THEN UNCHANGED <<_ss_ctrl, _ss_ctrl_mtime>>    \* except Exception: pass
     ELSE _ss_ctrl' = loaded /\ _ss_ctrl_mtime' = stat_mtime
  /\ UNCHANGED <<clock, fileVars, harnessVars, stat_mtime, loaded, calm>>

Next ==
  \/ Tick
  \/ \E v \in Bodies : Truncate(v)
  \/ Write
  \/ Wake
  \/ Stat
  \/ Load
  \/ Return

Spec == Init /\ [][Next]_vars

-----------------------------------------------------------------------------
\* A call of _ss_control that overlaps no write returns what set_ctrl wrote
\* last, however the earlier calls were interleaved with earlier writes, torn
\* ones included.
FreshWhenCalm ==
  calm /\ epc = "idle" /\ body \in Bodies => _ss_ctrl = body

\* The engine takes the mtime it stores for a proof that it has the content:
\* it may hold the mtime of the present file only along with its content.
MtimeVouches ==
  body \in Bodies /\ _ss_ctrl_mtime = mtime => _ss_ctrl = body
=============================================================================
