----------------------------- MODULE PinnedBench -----------------------------
(***************************************************************************)
(* The measurement of harness/bench_occupancy_pinned.py against the        *)
(* patched pool: main() walks its points, run_point() drives the server    *)
(* through one of them, and the engine admits, grows, preempts and frees   *)
(* the requests it was sent, at its own pace.                              *)
(*                                                                         *)
(* A request the client gives up, at an error or at its timeout, may stay  *)
(* in the engine for as long as the server takes to notice.  It then runs, *)
(* grows and frees its blocks beside what the harness sends next, and the  *)
(* reset of the next point may find it there and be refused with status    *)
(* 200.  The variable disturbed says that this has happened; it is the     *)
(* condition under which a point is none of what it claims.                *)
(*                                                                         *)
(* The pool is BlockPool.  A control that set_ctrl has written is in force *)
(* at once: run_point writes it while no request is in the engine, and     *)
(* PinControl shows that the next free() then reads it.                    *)
(***************************************************************************)
EXTENDS BlockPool

CONSTANTS
  Points,  \* what main() measures, in order: records [arm, N]
  Sends,   \* the requests that suspend the contexts of sus_pool, in order
  Probes,  \* the requests that resume them: Probes[k] resumes Sends[k]
  Load,    \* the background requests a point may start, drawn from bg_pool
  MaxLingering  \* bound on the given-up requests the server has at a time

ASSUME BenchAssumption ==
  /\ Points \in Seq(ToSet(Points)) /\ Len(Points) > 0
  /\ \A p \in ToSet(Points) : p.arm \in {"stock", "pinned"} /\ p.N \in 0 .. Len(Sends)
  /\ Sends \in Seq(Requests) /\ Probes \in Seq(Requests)
  /\ Len(Sends) = Len(Probes) /\ Len(Sends) <= MaxPins
  /\ Requests = ToSet(Sends) \cup ToSet(Probes) \cup Load
  /\ IsInjective(Sends \o Probes)  \* each call is a request of its own
  /\ ToSet(Sends \o Probes) \cap Load = {}
  /\ \A i \in DOMAIN Sends : PromptOf[Sends[i]] = PromptOf[Probes[i]]
  /\ Preemptible = Requests
  /\ MaxLingering \in Nat
  /\ Load # {}  \* rng.choice raises at an empty bg_pool, before any result

VARIABLES
  point,       \* index of the present point
  stage,       \* where run_point() is
  k,           \* the element of sus[:N] its loop is at
  client,      \* request -> what its task or its await sees of it
  resident,    \* requests whose whole reusable prompt was cached at admission
  results,     \* background request -> rows appended for it
  probe_ttfts, \* one entry per answered probe: its context, and whether its
               \* time is below --hit-thresh
  lingering,   \* requests the client gave up that the server still has
  disturbed    \* history: one of them was there at the last reset or since

benchVars == <<point, stage, k, client, resident, results, probe_ttfts,
               lingering, disturbed>>
given == <<lingering, disturbed>>
allVars == <<vars, benchVars>>

Unsent == [r \in Requests |-> "new"]
NoRows == [q \in Load |-> 0]

BenchInit ==
  /\ Init
  /\ point = 1 /\ stage = "off" /\ k = 1
  /\ client = Unsent /\ resident = {} /\ results = NoRows /\ probe_ttfts = << >>
  /\ lingering = {} /\ disturbed = FALSE

arm == Points[point].arm
N == Points[point].N

-----------------------------------------------------------------------------
(* The engine.  A request is gone from the engine once it is finished; its *)
(* blocks are freed before its last output is sent.                        *)

InEngine(r) == r \notin finished /\ (client[r] = "open" \/ r \in lingering)

EngineAdmit(r) ==
  /\ InEngine(r)
  /\ Admit(r)
  /\ resident' = IF client[r] = "open" /\ HitLength(r) = HitLimit(r)
                 THEN resident \cup {r} ELSE resident
  /\ UNCHANGED <<point, stage, k, client, results, probe_ttfts, given>>

\* max_tokens is 1 for the sends and the probes: only the load decodes
EngineGrow(q) == q \in Load /\ InEngine(q) /\ Grow(q) /\ UNCHANGED benchVars

EngineFinish(r) ==
  /\ client[r] = "open" /\ r \notin finished
  /\ Finish(r)
  /\ UNCHANGED benchVars

\* Any running request may be the victim; a decoding one asked for the block
EnginePreempt(r) ==
  /\ InEngine(r)
  /\ \E q \in Load : req_to_blocks[q] # << >>
  /\ Preempt(r)
  /\ UNCHANGED benchVars

\* The server drops r, or finishes it for nobody
Vacate(r) ==
  /\ lingering' = lingering \ {r}
  /\ IF r \in lingering /\ req_to_blocks[r] # << >>
     THEN Release(r) /\ UNCHANGED finished
     ELSE UNCHANGED vars

EngineLetsGo(r) ==
  /\ r \in lingering
  /\ Vacate(r)
  /\ UNCHANGED <<point, stage, k, client, resident, results, probe_ttfts, disturbed>>

-----------------------------------------------------------------------------
(* A request of the client.  Its answer is complete once the engine has    *)
(* finished it.  It may also fail at any time: an error of the connection, *)
(* a status, or the timeout of 600 s.  The server has then dropped it, or  *)
(* drops it later.                                                         *)

Answered(r) == client[r] = "open" /\ r \in finished

Drop(r) ==
  \/ r \in finished /\ UNCHANGED vars
  \/ r \notin finished /\ Finish(r)
  \/ /\ r \notin finished /\ req_to_blocks[r] = << >>
     /\ finished' = finished \cup {r} /\ UNCHANGED <<poolVars, ctrl>>

Linger(r) ==
  /\ r \notin finished
  /\ Cardinality(lingering) < MaxLingering
  /\ lingering' = lingering \cup {r} /\ disturbed' = TRUE
  /\ UNCHANGED vars

Fail(r) ==
  /\ client[r] = "open"
  /\ client' = [client EXCEPT ![r] = "failed"]
  /\ Linger(r) \/ (Drop(r) /\ UNCHANGED given)

\* one_request appends one row on every path: an error, an exception, an answer
AppendRow(q) == results' = [results EXCEPT ![q] = @ + 1]

one_request(q) ==
  /\ stage \in {"load", "gather"} /\ q \in Load
  /\ AppendRow(q)
  /\ UNCHANGED <<point, stage, k, resident, probe_ttfts>>

TaskAnswered(q) ==
  /\ Answered(q)
  /\ client' = [client EXCEPT ![q] = "answered"]
  /\ one_request(q)
  /\ UNCHANGED <<vars, given>>

\* Variant: no timeout for a request the engine has not admitted
TaskFailsAdmitted(q) == req_to_blocks[q] # << >> /\ Fail(q) /\ one_request(q)

TaskFails(q) == Fail(q) /\ one_request(q)

-----------------------------------------------------------------------------
(* run_point                                                               *)

Goto(from, to) == stage = from /\ stage' = to

CtrlOff ==
  /\ Goto("off", "reset")
  /\ SetControl([mode |-> "off", n |-> 0])
  /\ UNCHANGED <<point, k, client, resident, results, probe_ttfts, given>>

Reset ==
  /\ Goto("reset", "arm")
  /\ ResetPrefixCache
  /\ disturbed' = (lingering # {})
  /\ UNCHANGED <<point, k, client, resident, results, probe_ttfts, lingering>>

\* An error of the post or its status ends main(), which writes no rows
ResetFails ==
  /\ Goto("reset", "crashed")
  /\ ResetPrefixCache \/ UNCHANGED vars
  /\ UNCHANGED <<point, k, client, resident, results, probe_ttfts, given>>

Arm ==
  /\ Goto("arm", "send")
  /\ IF arm = "pinned" THEN SetControl([mode |-> "first_n", n |-> N]) ELSE UNCHANGED vars
  /\ UNCHANGED <<point, k, client, resident, results, probe_ttfts, given>>

\* The k-th turn of a loop over sus[:N] posts its request.  The requests of two
\* points go by the same names: the server has let go of the older one by then.
Post(at, reqs) ==
  /\ stage = at /\ k <= N
  /\ client[reqs[k]] = "new"
  /\ client' = [client EXCEPT ![reqs[k]] = "open"]
  /\ Vacate(reqs[k])
  /\ UNCHANGED <<point, stage, k, resident, results, probe_ttfts, disturbed>>

PostSend == Post("send", Sends)

SendAnswered ==
  /\ stage = "send" /\ k <= N /\ Answered(Sends[k])
  /\ client' = [client EXCEPT ![Sends[k]] = "answered"]
  /\ k' = k + 1
  /\ UNCHANGED <<vars, point, stage, resident, results, probe_ttfts, given>>

\* The exception of a send ends main(), which writes no rows
SendFails ==
  /\ k <= N /\ Goto("send", "crashed")
  /\ Fail(Sends[k])
  /\ UNCHANGED <<point, k, resident, results, probe_ttfts>>

AllSent ==
  /\ Goto("send", "disarm") /\ k > N
  /\ k' = 1
  /\ UNCHANGED <<vars, point, client, resident, results, probe_ttfts, given>>

Disarm ==
  /\ Goto("disarm", "load")
  /\ SetControl([mode |-> "off", n |-> 0])
  /\ UNCHANGED <<point, k, client, resident, results, probe_ttfts, given>>

StartTask(q) ==
  /\ stage = "load" /\ client[q] = "new"
  /\ client' = [client EXCEPT ![q] = "open"]
  /\ Vacate(q)
  /\ UNCHANGED <<point, stage, k, resident, results, probe_ttfts, disturbed>>

\* The first turn of the load loop always starts a task
LoadEnds ==
  /\ Goto("load", "gather")
  /\ \E q \in Load : client[q] # "new"
  /\ UNCHANGED <<vars, point, k, client, resident, results, probe_ttfts, given>>

\* Variant: awaits one task only
GatherAny ==
  /\ Goto("gather", "probe")
  /\ \E q \in Load : client[q] \in {"answered", "failed"}
  /\ UNCHANGED <<vars, point, k, client, resident, results, probe_ttfts, given>>

Gather ==
  /\ Goto("gather", "probe")
  /\ \A q \in Load : client[q] # "open"
  /\ UNCHANGED <<vars, point, k, client, resident, results, probe_ttfts, given>>

PostProbe == Post("probe", Probes)

\* ttft is None when the one token has no text: such a probe leaves no entry
ProbeAnswered ==
  /\ stage = "probe" /\ k <= N /\ Answered(Probes[k])
  /\ client' = [client EXCEPT ![Probes[k]] = "answered"]
  /\ \/ probe_ttfts' = Append(probe_ttfts,
                              [context |-> k, hit |-> Probes[k] \in resident])
     \/ UNCHANGED probe_ttfts
  /\ k' = k + 1
  /\ UNCHANGED <<vars, point, stage, resident, results, given>>

\* except Exception: pass
ProbeFails ==
  /\ stage = "probe" /\ k <= N
  /\ Fail(Probes[k])
  /\ k' = k + 1
  /\ UNCHANGED <<point, stage, resident, results, probe_ttfts>>

\* The print of the row formats the median of the background with :.3f: that
\* needs an answered request that was sent after the warm-up, with some text.
NextPoint ==
  /\ stage = "probe" /\ k > N
  /\ \E q \in Load : client[q] = "answered"
  /\ IF point < Len(Points)
     THEN /\ point' = point + 1 /\ stage' = "off" /\ k' = 1
          /\ client' = Unsent /\ resident' = {} /\ results' = NoRows /\ probe_ttfts' = << >>
          /\ finished' = {} /\ UNCHANGED <<poolVars, ctrl, given>>
     ELSE /\ stage' = "done"
          /\ UNCHANGED <<vars, point, k, client, resident, results, probe_ttfts, given>>

\* Without one, the TypeError of the print ends main(); the answered ones may all
\* be of the warm-up
RowFails ==
  /\ k > N /\ Goto("probe", "crashed")
  /\ UNCHANGED <<vars, point, k, client, resident, results, probe_ttfts, given>>

RunPoint ==
  \/ CtrlOff \/ Reset \/ Arm \/ PostSend \/ SendAnswered \/ AllSent \/ Disarm
  \/ \E q \in Load : StartTask(q)
  \/ LoadEnds \/ Gather \/ PostProbe \/ ProbeAnswered \/ NextPoint \/ RowFails

Engine ==
  \E r \in Requests :
    EngineAdmit(r) \/ EngineFinish(r) \/ EnginePreempt(r) \/ EngineLetsGo(r)

BenchNext ==
  \/ RunPoint \/ Engine \/ ResetFails \/ SendFails \/ ProbeFails
  \/ \E q \in Load : EngineGrow(q) \/ TaskAnswered(q) \/ TaskFails(q)

\* The harness and the tasks run on; a request that is never answered runs into
\* its timeout.  Nothing is assumed of the engine, which may refuse a request
\* for ever when the pins leave it too few blocks, nor of how soon the server
\* lets go of a request that was given up.
Fairness ==
  /\ WF_allVars(RunPoint)
  /\ WF_allVars(SendFails) /\ WF_allVars(ProbeFails)
  /\ \A q \in Load : WF_allVars(TaskAnswered(q)) /\ WF_allVars(TaskFails(q))

BenchSpec == BenchInit /\ [][BenchNext]_allVars /\ Fairness

-----------------------------------------------------------------------------
(* Properties.                                                             *)

Measuring == stage \in {"load", "gather"}

\* No request that was given up has met the reset of this point or what came
\* after it, and no request was pinned twice (see ResetRestoresPool).
Undisturbed == ~disturbed /\ repinned = {}

\* "The engine pins the first N finished requests" (:6): during the load the
\* entries are the suspended contexts in the order they were sent, and in the
\* stock arm there are none, whatever the points before have left behind.
PinsAreTheSuspended ==
  Measuring /\ Undisturbed =>
    [j \in DOMAIN pinned_by_request |-> pinned_by_request[j].req]
      = IF arm = "pinned" THEN SubSeq(Sends, 1, N) ELSE << >>

\* The load started like the i-th context: bg_pool is disjoint from sus_pool in
\* its tasks only (:126), and prompts of one domain share the system prompt.
TouchedByLoad(i) ==
  \E q \in Load : client[q] # "new" /\ PromptOf[q][1] = PromptOf[Sends[i]][1]

\* Between a probe that starts like the i-th and the i-th itself came one that
\* does not start so
Interrupted(i) ==
  \E a, b \in 1 .. i - 1 : a < b /\
    \E j \in 1 .. Len(PromptOf[Sends[i]]) :
      LET key == SubSeq(PromptOf[Sends[i]], 1, j)
      IN IsPrefix(key, PromptOf[Sends[a]]) /\ ~IsPrefix(key, PromptOf[Sends[b]])

\* "With the patch this should be ~100 %" (:14), said exactly: however hard the
\* load presses on the pool, a probe of the pinned arm misses only if a touch has
\* unpinned a block of its context, by the load or by an earlier probe.
MissesExplained ==
  arm = "pinned" /\ Undisturbed =>
    \A j \in DOMAIN probe_ttfts :
      ~probe_ttfts[j].hit =>
        TouchedByLoad(probe_ttfts[j].context) \/ Interrupted(probe_ttfts[j].context)

\* gather() waits for every task and one_request leaves exactly one row on each
\* of its paths: the point counts each request it started once.
OneRowPerTask ==
  stage = "probe" => \A q \in Load : results[q] = IF client[q] = "new" THEN 0 ELSE 1

\* What a point measures starts from nothing, whatever was pinned before: no
\* context is resident when the first prompt is sent.  A request that was given up
\* can spoil it, and spoils no later point than those whose reset it meets.
StartsCold ==
  Undisturbed /\ stage = "send" /\ k = 1 /\ (\A r \in Requests : client[r] = "new") =>
    /\ \A b \in Blocks : Idle(b) /\ ~Reusable(b)
    /\ Len(free_block_queue) = Cardinality(Blocks)

\* The measurement ends, also when the pins leave the load no room at all.
BenchEnds == <>(stage \in {"done", "crashed"})
=============================================================================
