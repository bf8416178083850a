-------------------------------- MODULE Jobs ---------------------------------
(***************************************************************************)
(* A job of harness/*.slurm: servers started one after the other, and on   *)
(* each of them client processes one after the other, whatever became of   *)
(* the process before.                                                     *)
(*                                                                         *)
(* A job is a sequence of parts, records [tier, processes].  A part whose  *)
(* tier is "none" needs no server: the transfer benchmark before it, and   *)
(* the builder of the prompts, which is run by hand.                       *)
(***************************************************************************)
EXTENDS Scripts, OpenLoop, Transfer, GatePrompts

CONSTANT JobScripts    \* the jobs

\* A part has a server with its tiers, or none; the prompts of a file are finitely
\* many; the arms are those that the command line takes
ASSUME JobAssumption ==
  \A j \in JobScripts :
    /\ j \in Seq(ToSet(j))
    /\ \A part \in ToSet(j) :
         /\ part.tier \in {"none", "hbm", "cpu", "nvme"}
         /\ part.processes \in Seq(ToSet(part.processes))
         /\ \A p \in ToSet(part.processes) :
              /\ p.client = "bench_q" => IsFiniteSet(p.prompts)
              /\ p.client \in {"bench_prefill", "suspend_resume"} => p.arms \in Seq(Arms)

VARIABLES
  job,         \* the parts left, the present one first
  processes,   \* the processes left of the present one
  stopping     \* whether its server has been sent the signal to end

jobVars == <<job, processes, stopping>>
localVars == <<transfer, build>>
allVars == <<serverVars, process, scriptVars, run, localVars, jobVars>>

JobInit ==
  /\ job \in JobScripts
  /\ processes = << >> /\ stopping = FALSE
  /\ ServerInit /\ ScriptInit /\ process = Idle /\ run = Off
  /\ transfer = TransferOff /\ build = BuildOff

-----------------------------------------------------------------------------
\* Healthy within the tries of the loop; two of the scripts go on without it when
\* the tries run out, and what they run finds a server that fails its requests
ServerStarts ==
  /\ tier = "down" /\ job # << >>
  /\ tier' = Head(job).tier
  /\ processes' = Head(job).processes
  /\ UNCHANGED <<gpu, store, open, seen, abandoned, process, scriptVars, run, localVars,
                 job, stopping>>

\* Not healthy in time, or dead: what was to run on it is skipped
ServerStartFails ==
  /\ tier = "down" /\ job # << >> /\ Head(job).tier # "none"
  /\ \/ tier' = Head(job).tier /\ UNCHANGED job
     \/ job' = Tail(job) /\ UNCHANGED tier
  /\ UNCHANGED <<gpu, store, open, seen, abandoned, process, scriptVars, run, localVars,
                 processes, stopping>>

NextProcess ==
  /\ process = Idle /\ processes # << >>
  /\ processes' = Tail(processes)
  /\ LET p == Head(processes)
     IN \/ /\ p.client \in {"bench_prefill", "suspend_resume"}
           /\ StartScript(p) /\ UNCHANGED <<run, localVars>>
        \/ /\ p.client \in {"loadgen", "bench_q", "real"}
           /\ StartLoad(p) /\ UNCHANGED <<scriptVars, localVars>>
        \/ /\ p.client = "bench_transfer" /\ process' = p
           /\ StartTransfer /\ UNCHANGED <<scriptVars, run, build>>
        \/ /\ p.client = "build_gate_prompts" /\ process' = p
           /\ StartBuild /\ UNCHANGED <<scriptVars, run, transfer>>
  /\ UNCHANGED <<serverVars, job, stopping>>

PartOver == tier # "down" /\ process = Idle /\ processes = << >>

PartCloses ==
  /\ PartOver
  /\ tier' = "down" /\ gpu' = {} /\ store' = {} /\ open' = {} /\ seen' = {}
  /\ abandoned' = FALSE
  /\ job' = Tail(job)
  /\ UNCHANGED <<process, scriptVars, run, localVars, processes>>

\* The shell sends the signal, and waits however long it takes
Kill ==
  /\ PartOver /\ tier # "none" /\ ~stopping
  /\ stopping' = TRUE
  /\ UNCHANGED <<serverVars, process, scriptVars, run, localVars, job, processes>>

ServerExits == stopping /\ PartCloses /\ stopping' = FALSE

\* A part without a server
PartEnds == tier = "none" /\ PartCloses /\ UNCHANGED stopping

JobRuns == ServerStarts \/ NextProcess \/ Kill \/ PartEnds

Script == ScriptNext /\ UNCHANGED <<run, localVars, jobVars>>

\* A step of a coroutine
Of(step) == step /\ UNCHANGED <<scriptVars, localVars, jobVars>>

bench_m2 ==
  /\ \/ JoinAll /\ UNCHANGED process
     \/ \E i \in Workers : WorkerRuns(i) /\ UNCHANGED process
     \/ TransferEnds /\ process' = Idle
  /\ UNCHANGED <<serverVars, scriptVars, run, build, jobVars>>

Builder ==
  /\ \/ BuildNext /\ UNCHANGED process
     \/ BuildEnds /\ process' = Idle
  /\ UNCHANGED <<serverVars, scriptVars, run, transfer, jobVars>>

Engine ==
  /\ \/ \E r \in open : Schedule(r) \/ Abort(r)
     \/ IsLoad /\ \E part \in gpu : Evict(part)
  /\ UNCHANGED <<scriptVars, run, localVars, jobVars>>

JobNext ==
  \/ JobRuns \/ ServerStartFails \/ ServerExits
  \/ Script \/ Of(LoadNext) \/ bench_m2 \/ Builder
  \/ Engine

\* The scripts and threads run on, the clock does, the event loop gives every
\* coroutine its turn, and a request that is never answered runs into its timeout.
\* Of the server one thing is assumed: killed, it exits some time.  The shell's wait
\* for it has no bound (smoke_all_tiers.slurm:64, bench_m4q.slurm:53).
Fairness ==
  /\ WF_allVars(JobRuns) /\ WF_allVars(ServerExits)
  /\ WF_allVars(Script) /\ WF_allVars(bench_m2) /\ WF_allVars(Builder)
  /\ WF_allVars(Of(Elapse)) /\ WF_allVars(Of(MainRuns))
  /\ WF_allVars(Of(InjectorTurn)) /\ WF_allVars(Of(KeepRuns))
  /\ \A id \in 1 .. MaxTasks : WF_allVars(Of(one_request(id)))

JobSpec == JobInit /\ [][JobNext]_allVars /\ Fairness

-----------------------------------------------------------------------------
(* What the results may be used for.                                       *)

\* The hits a trial of bench_prefill or of an arm of suspend_resume measures, of
\* the prompt parts system, gate and approval, by the label of the request
AsLabelled(label, hit) ==
  CASE label = "suffix" -> hit.gpu = 1 /\ (tier = "hbm" => hit.all = 1)
    [] label \in {"full", "cold"} -> hit.gpu = 0 /\ (tier = "hbm" => hit.all = 0)
    [] OTHER -> TRUE

ResumedFrom(arm, hit) ==
  CASE arm = "pin" -> hit.gpu = 2
    [] arm \in {"cpu", "nvme"} -> hit.gpu = 0 /\ (tier # "hbm" => hit.all >= 2)
    [] OTHER -> hit.gpu = 0 /\ (tier = "hbm" => hit.all = 0)

\* Unless a client of this server has given up a request, each time in a row is the
\* time of what its name says: bench_prefill times the prompt behind the system
\* message alone and the whole prompt, on an hbm server; the pin arm of suspend_resume
\* finds the conversation on the GPU, the cpu and nvme arms find none of it there and
\* all of it in the second tier, if the server has one, and discard and cold find
\* nothing on an hbm server (bench_prefill.py:112-117, suspend_resume.py:98-116).
TrialsAsLabelled ==
  ~abandoned =>
    \A r \in rows :
      /\ \A label \in DOMAIN r.hits : AsLabelled(label, r.hits[label])
      /\ "resume" \in DOMAIN r.hits => ResumedFrom(r.arm, r.hits["resume"])

\* When the rows of a load are written every request it started, an injected one
\* included, has exactly one (bench_q.py:120-131, loadgen.py:112-118).
OneRowPerTask ==
  run.main = "write" => \A id \in DOMAIN run.tasks : Len(run.results[id]) = 1

\* What an injection finds cached beyond the system message a process before it on
\* this server has sent: within a process the load never sends an injected prompt and
\* the injector does so once (bench_q.py:11-13, 40, 95-102).
ColdWithinProcess ==
  \A id \in DOMAIN run.tasks :
    run.tasks[id].kind = "inject" =>
      \A hit \in ToSet(run.results[id]) :
        hit.all >= 2 => Gate(run.tasks[id].task)[2] \in run.inherited

\* A point of the occupancy benchmark starts from an empty cache, with nothing in a
\* second tier on an hbm server, unless a client of this server has given up a
\* request: the reset is refused while a request runs, and by then those of the point
\* before and its keepalive have been awaited (bench_occupancy_real.py:61-63, 103-105).
PointsStartFresh ==
  process.client = "real" /\ ~abandoned /\ run.first # NotYet =>
    run.first.gpu = 0 /\ (tier = "hbm" => run.first.all = 0)

\* Unless a call of a thread fell short or failed, a time that bench_m2 records is
\* the time of all its threads' bytes, whoever ended first: no call is refused for
\* its alignment, and no reader ends before its file (bench_transfer.py:80-83,
\* 94-101, 105-119).
TransfersWhole ==
  ~transfer.faulted => transfer.acc \subseteq {per_thread * nthreads}

\* A prompt of the builder can be rendered and stops before the approval: a message
\* asks for one call at most, its own result follows, no call is one that waits for
\* an approval, and no other prompt is of the same gate
\* (build_gate_prompts.py:95-102, 133, 195-199).
PromptsWellFormed ==
  \A x \in DOMAIN build.written :
    LET msgs == build.written[x].messages
    IN /\ \A k \in DOMAIN msgs :
            msgs[k].role = "assistant" /\ msgs[k].calls # << >> =>
              /\ Len(msgs[k].calls) = 1
              /\ msgs[k].calls[1].tool \notin WriteTools
              /\ k < Len(msgs) /\ msgs[k + 1].answers = msgs[k].calls[1].id
       /\ \A y \in DOMAIN build.written :
            build.written[y].key = build.written[x].key => y = x

\* Every job ends if every server that is killed exits, whether or not the servers
\* start, answer or notice that nobody waits: all processes run or are skipped, each
\* of them gathers its tasks, and the keepalive sees the event
\* (bench_occupancy_real.py:74, 104-105, bench_m4q.slurm:55-82).
JobEnds == <>(job = << >>)

\* What suspend_resume.py:18-19 says of the last request of a trial: "cold : reset
\* everything, send the same resume prompt -> full-prefill TTFT baseline".
ColdBaseline ==
  ~abandoned => \A r \in rows : "cold" \in DOMAIN r.hits => r.hits["cold"].all = 0

\* What bench_q.py:5-7 says of an injection: "a gate prompt never seen by the server,
\* so no prefix-cache hit beyond the shared system prefix", and lines 11-13: "so every
\* injection pays a real suffix prefill"; even if no request is given up.
InjectionsCold ==
  ~abandoned =>
    \A id \in DOMAIN run.tasks :
      run.tasks[id].kind = "inject" => \A hit \in ToSet(run.results[id]) : hit.all < 2
=============================================================================
