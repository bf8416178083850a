------------------------------- MODULE Scripts -------------------------------
(***************************************************************************)
(* The measurements that send one request after the other:                 *)
(* harness/bench_prefill.py and harness/suspend_resume.py.                 *)
(*                                                                         *)
(* A process is a record [client, prompts, arms]: the prompts of its file  *)
(* and the tiers that suspend_resume compares, or <<"prefill">> for        *)
(* bench_prefill.  main() is the sequence of its steps, trial after trial: *)
(* resets, requests and the row that a trial leaves.  Waits are left out,  *)
(* as nothing happens to the cache of an idle server.  An exception ends   *)
(* the process, and rows are written by its last statement only.           *)
(***************************************************************************)
EXTENDS Server

CONSTANTS
  Reps,      \* repeats of a trial
  Sampled    \* how many prompts a process measures

ASSUME ScriptAssumption == Reps \in Nat /\ Sampled \in Nat

VARIABLES
  todo,       \* the steps of main() that are left
  measured,   \* label -> hit, of the requests of the present trial
  rows,       \* the rows in memory
  file        \* the rows that the last script wrote

scriptVars == <<todo, measured, rows, file>>

ScriptInit == todo = << >> /\ measured = << >> /\ rows = {} /\ file = {}

Me == 1        \* the only request a script has open

-----------------------------------------------------------------------------
ResetStep == [does |-> "reset"]
Send(label, parts) == [does |-> "send", label |-> label, parts |-> parts]
Row(arm, t, rep) == [does |-> "row", arm |-> arm, task |-> t, rep |-> rep]

prefill_trial(t, rep) ==
  <<ResetStep, Send("warm", System), Send("suffix", Gate(t)),
    ResetStep, Send("full", Gate(t)), Row("prefill", t, rep)>>

\* Variant: the arm of the NVMe tier is forgotten
run_tier_trial_kept(arm, t, rep) ==
  <<ResetStep, Send("warm", Gate(t))>>
    \o (IF arm \in {"discard", "cpu"} THEN <<ResetStep>> ELSE << >>)
    \o <<Send("resume", Resumed(t)), ResetStep, Send("cold", Resumed(t)), Row(arm, t, rep)>>

run_tier_trial(arm, t, rep) ==
  <<ResetStep, Send("warm", Gate(t))>>
    \o (IF arm \in {"discard", "cpu", "nvme"} THEN <<ResetStep>> ELSE << >>)
    \o <<Send("resume", Resumed(t)), ResetStep, Send("cold", Resumed(t)), Row(arm, t, rep)>>

Arms == {"prefill", "pin", "cpu", "nvme", "discard"}

Trial(arm, t, rep) ==
  IF arm = "prefill" THEN prefill_trial(t, rep) ELSE run_tier_trial(arm, t, rep)

\* arm by arm, prompt by prompt, repeat by repeat
Steps(arms, sample) ==
  FlattenSeq([a \in DOMAIN arms |->
    FlattenSeq([p \in DOMAIN sample |->
      FlattenSeq([rep \in 1 .. Reps |-> Trial(arms[a], sample[p], rep)])])])

\* The prompts measured: shuffled by bench_prefill, in file order otherwise
Samples(prompts) == {s \in [1 .. Sampled -> prompts] : IsInjective(s)}

StartScript(p) ==
  /\ process' = p
  /\ \E sample \in Samples(p.prompts) : todo' = Steps(p.arms, sample)
  /\ measured' = << >> /\ rows' = {} /\ file' = {}

-----------------------------------------------------------------------------
IsScript == process.client \in {"bench_prefill", "suspend_resume"}

NextIs(what) == IsScript /\ todo # << >> /\ Head(todo).does = what

Advance == todo' = Tail(todo) /\ UNCHANGED process

Mine == {r \in open : r.id = Me}

Raise ==
  /\ process' = Idle /\ todo' = << >> /\ measured' = << >> /\ rows' = {}
  /\ UNCHANGED file

ScriptReset ==
  /\ NextIs("reset")
  /\ reset_prefix_cache
  /\ Advance /\ UNCHANGED <<measured, rows, file>>

\* The server may have reset the cache all the same
ScriptResetFails ==
  /\ NextIs("reset") /\ Raise
  /\ reset_prefix_cache \/ UNCHANGED serverVars

ScriptPost ==
  /\ NextIs("send") /\ Mine = {}
  /\ Post(Me, Head(todo).parts)
  /\ UNCHANGED <<process, scriptVars>>

\* A token without text leaves the time of the first one unknown
NoTtft == NotYet

Measure(label, hit) ==
  [x \in DOMAIN measured \cup {label} |-> IF x = label THEN hit ELSE measured[x]]

\* What the warming request finds is not recorded
stream_ttft ==
  /\ NextIs("send")
  /\ \E r \in Mine :
       /\ Answered(r)
       /\ IF Head(todo).label = "warm"
          THEN UNCHANGED measured
          ELSE \E hit \in {r.hit, NoTtft} : measured' = Measure(Head(todo).label, hit)
  /\ Advance /\ UNCHANGED <<rows, file>>

ScriptSendFails ==
  /\ NextIs("send")
  /\ \E r \in Mine : Failed(r)
  /\ Raise

\* The line printed for the trial formats its two times: an unknown one raises
Printable == \A label \in DOMAIN measured : measured[label] # NoTtft

ScriptRow ==
  /\ NextIs("row") /\ Printable
  /\ rows' = rows \cup {[arm |-> Head(todo).arm, task |-> Head(todo).task,
                         rep |-> Head(todo).rep, tier |-> tier, hits |-> measured]}
  /\ measured' = << >>
  /\ Advance /\ UNCHANGED <<file, serverVars>>

ScriptRowFails == NextIs("row") /\ ~Printable /\ Raise /\ UNCHANGED serverVars

ScriptEnds ==
  /\ IsScript /\ todo = << >>
  /\ file' = rows
  /\ process' = Idle /\ rows' = {}
  /\ UNCHANGED <<todo, measured, serverVars>>

ScriptNext ==
  \/ ScriptReset \/ ScriptResetFails \/ ScriptPost \/ stream_ttft \/ ScriptSendFails
  \/ ScriptRow \/ ScriptRowFails \/ ScriptEnds
=============================================================================
