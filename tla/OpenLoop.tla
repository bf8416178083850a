------------------------------ MODULE OpenLoop -------------------------------
(***************************************************************************)
(* The measurements that start requests by a clock and not by the answers: *)
(* harness/loadgen.py, harness/bench_q.py and                              *)
(* harness/bench_occupancy_real.py.                                        *)
(*                                                                         *)
(* The coroutines of one process interleave where they await: the load     *)
(* loop of run() or run_point(), the injector of bench_q, the keepalive of *)
(* the occupancy benchmark, and one task per request of the load.  A       *)
(* process is a record [client, prompts, Ns, load]: the prompts that its   *)
(* file and --domains give it, the points of the occupancy benchmark, each *)
(* a number of suspended contexts, and a bound on the requests that its    *)
(* load loop starts at a point.                                            *)
(***************************************************************************)
EXTENDS Server

CONSTANT MaxTasks    \* bound on the requests of the load and of the injector

VARIABLE run    \* the locals of the process, a record:
                \*   points     the points left, the present one first
                \*   bg, other  the prompts of the load; those injected or suspended
                \*   main, k    where run() or run_point() is; the prompt it sends
                \*   over       whether the duration has elapsed
                \*   inj, i     where the injector is; how many prompts it has used
                \*   keep, j    where the keepalive is; how many turns it has made
                \*   stop       the event that ends it
                \*   tasks      the tasks started, records [kind, task]
                \*   results    for each task, the hits of the rows it appended
                \*   first      what the first request after the reset found
                \*   inherited  the parts the server had been sent before

Off == [points |-> << >>, bg |-> {}, other |-> << >>, main |-> "off", k |-> 1,
        over |-> FALSE, inj |-> "off", i |-> 0, keep |-> "off", j |-> 0, stop |-> FALSE,
        tasks |-> << >>, results |-> << >>, first |-> NotYet, inherited |-> {}]

\* The names of the requests that main() and the keepalive await themselves;
\* the request of a task goes by its place in tasks
Main == -1
Keep == -2

IsLoad == process.client \in {"loadgen", "bench_q", "real"}

OpenAs(id) == {r \in open : r.id = id}

Stays == UNCHANGED process

-----------------------------------------------------------------------------
(* Start and end.                                                          *)

\* Variant: the load draws from all prompts
PoolsOverlap(prompts) == {[bg |-> prompts, other |-> s] : s \in SetToSeqs(prompts)}

\* Two halves by a hash that differs from process to process, the second in some
\* order
Pools(prompts) ==
  UNION {{[bg |-> half, other |-> s] : s \in SetToSeqs(prompts \ half)} :
           half \in SUBSET prompts}

\* bench_q exits on an empty pool, the occupancy benchmark only when fewer prompts
\* may sleep than a point wants
Usable(p, pools) ==
  IF p.client = "real" THEN \A x \in DOMAIN p.Ns : p.Ns[x] <= Len(pools.other)
  ELSE pools.bg # {} /\ pools.other # << >>

StartLoad(p) ==
  \/ /\ p.client = "loadgen"
     /\ IF p.prompts # {}
        THEN /\ process' = p
             /\ run' = [Off EXCEPT !.bg = p.prompts, !.main = "pace"]
        ELSE UNCHANGED <<process, run>>
  \/ /\ p.client # "loadgen"
     /\ \E pools \in Pools(p.prompts) :
          IF Usable(p, pools)
          THEN /\ process' = p
               /\ run' = [Off EXCEPT !.points = p.Ns, !.bg = pools.bg, !.other = pools.other,
                                     !.main = IF p.client = "real" THEN "reset" ELSE "pace",
                                     !.inj = IF p.client = "bench_q" THEN "asleep" ELSE "off",
                                     !.inherited = seen]
          ELSE UNCHANGED <<process, run>>

EndLoad == process' = Idle /\ run' = Off

-----------------------------------------------------------------------------
(* The tasks.                                                              *)

\* create_task: the place of the task names its request
StartTask(kind, t, then) ==
  /\ Post(Len(run.tasks) + 1, Gate(t))
  /\ run' = [then EXCEPT !.tasks = Append(@, [kind |-> kind, task |-> t]),
                         !.results = Append(@, << >>)]
  /\ Stays

AppendRow(id, hit) == run' = [run EXCEPT !.results[id] = Append(@, hit)]

TaskAnswered(id) ==
  /\ IsLoad
  /\ \E r \in OpenAs(id) : Answered(r) /\ AppendRow(id, r.hit)
  /\ Stays

\* The row of an error; an answer without text leaves one that counts as little
TaskFails(id) ==
  /\ IsLoad
  /\ \E r \in OpenAs(id) : Failed(r) /\ AppendRow(id, NotYet)
  /\ Stays

-----------------------------------------------------------------------------
(* The load loop.                                                          *)

Started == Cardinality({id \in DOMAIN run.tasks : run.tasks[id].kind = "bg"})

\* The duration is over; the first turn of the loop starts before it is
Elapse ==
  /\ run.main \in {"pace", "load"} /\ ~run.over
  /\ run' = [run EXCEPT !.over = TRUE]
  /\ UNCHANGED serverVars /\ Stays

\* The head of the loop; what it starts after its sleep may be late
LoadTurn ==
  /\ run.main = "load" /\ ~run.over /\ Started < process.load
  /\ run' = [run EXCEPT !.main = "pace"]
  /\ UNCHANGED serverVars /\ Stays

LoadStarts ==
  /\ run.main = "pace"
  /\ \E t \in run.bg : StartTask("bg", t, [run EXCEPT !.main = "load"])

\* bench_q awaits the injector before it collects the tasks
LoadEnds ==
  /\ run.main = "load" /\ run.over
  /\ run.inj # "asleep"
  /\ run' = [run EXCEPT !.main = "gather"]
  /\ UNCHANGED serverVars /\ Stays

\* Variant: the injected requests are not gathered
GatherLoad ==
  /\ run.main = "gather"
  /\ \A id \in DOMAIN run.tasks : run.tasks[id].kind = "bg" => run.results[id] # << >>
  /\ run' = [run EXCEPT !.main = IF process.client = "real" THEN "join" ELSE "write",
                        !.stop = TRUE]
  /\ UNCHANGED serverVars /\ Stays

Gather ==
  /\ run.main = "gather"
  /\ \A id \in DOMAIN run.tasks : run.results[id] # << >>
  /\ run' = [run EXCEPT !.main = IF process.client = "real" THEN "join" ELSE "write",
                        !.stop = TRUE]
  /\ UNCHANGED serverVars /\ Stays

\* The rows are written and the process ends
Write == run.main = "write" /\ EndLoad /\ UNCHANGED serverVars

\* The injector sleeps before each turn
InjectorTurn ==
  /\ run.inj = "asleep"
  /\ IF ~run.over /\ run.i < Len(run.other)
     THEN StartTask("inject", run.other[run.i + 1], [run EXCEPT !.i = @ + 1])
     ELSE run' = [run EXCEPT !.inj = "ended"] /\ UNCHANGED serverVars /\ Stays

-----------------------------------------------------------------------------
(* The occupancy benchmark: run_point.                                     *)

N == Head(run.points)

PointReset ==
  /\ run.main = "reset"
  /\ reset_prefix_cache
  /\ run' = [run EXCEPT !.main = "send"]
  /\ Stays

\* The server may have reset the cache all the same
PointResetFails ==
  /\ run.main = "reset"
  /\ reset_prefix_cache \/ UNCHANGED serverVars
  /\ EndLoad

PostSuspended ==
  /\ run.main = "send" /\ run.k <= N /\ OpenAs(Main) = {}
  /\ Post(Main, Gate(run.other[run.k]))
  /\ UNCHANGED <<run, process>>

SuspendedAnswered ==
  /\ run.main = "send"
  /\ \E r \in OpenAs(Main) :
       /\ Answered(r)
       /\ run' = [run EXCEPT !.k = @ + 1, !.first = IF run.k = 1 THEN r.hit ELSE @]
  /\ Stays

SuspendFails ==
  /\ run.main = "send"
  /\ \E r \in OpenAs(Main) : Failed(r)
  /\ EndLoad

AllSuspended ==
  /\ run.main = "send" /\ ~(run.k <= N) /\ run.bg # {}
  /\ run' = [run EXCEPT !.main = "pace", !.keep = IF N = 0 THEN "ended" ELSE "awake"]
  /\ UNCHANGED serverVars /\ Stays

\* Nothing to draw the load from: the choice raises before the keepalive's first turn
LoadRaises ==
  /\ run.main = "send" /\ ~(run.k <= N) /\ run.bg = {}
  /\ EndLoad
  /\ UNCHANGED serverVars

KeepPost ==
  /\ run.keep = "awake" /\ ~run.stop
  /\ Post(Keep, Gate(run.other[run.j + 1]))
  /\ run' = [run EXCEPT !.keep = "sending", !.j = (@ + 1) % N]
  /\ Stays

KeepAnswered ==
  /\ run.keep = "sending"
  /\ \E r \in OpenAs(Keep) : Answered(r)
  /\ run' = [run EXCEPT !.keep = "awake"]
  /\ Stays

\* except Exception: pass
KeepFails ==
  /\ run.keep = "sending"
  /\ \E r \in OpenAs(Keep) : Failed(r)
  /\ run' = [run EXCEPT !.keep = "awake"]
  /\ Stays

\* Variant: the loop does not look at the event
KeepNeverEnds == FALSE

KeepEnds ==
  /\ run.keep = "awake" /\ run.stop
  /\ run' = [run EXCEPT !.keep = "ended"]
  /\ UNCHANGED serverVars /\ Stays

NextPoint ==
  run' = IF Len(run.points) > 1
         THEN [Off EXCEPT !.points = Tail(run.points), !.bg = run.bg, !.other = run.other,
                          !.main = "reset"]
         ELSE [run EXCEPT !.main = "write"]

\* The line printed for a point formats a median: without a request of the load
\* that came back it raises
MedianKnown == \E id \in DOMAIN run.tasks : NotYet \notin ToSet(run.results[id])

\* Variant: the next point does not wait for the keepalive
JoinAtOnce ==
  /\ run.main = "join" /\ MedianKnown
  /\ NextPoint
  /\ UNCHANGED serverVars /\ Stays

\* await ka_task, the end of run_point and the row of the point
Join ==
  /\ run.main = "join" /\ run.keep = "ended" /\ MedianKnown
  /\ NextPoint
  /\ UNCHANGED serverVars /\ Stays

PointRowFails ==
  /\ run.main = "join" /\ run.keep = "ended" /\ ~MedianKnown
  /\ EndLoad
  /\ UNCHANGED serverVars

-----------------------------------------------------------------------------
(* The coroutines: main(), the injector, the keepalive and the tasks.      *)

MainRuns ==
  \/ LoadTurn \/ LoadStarts \/ LoadEnds \/ Gather \/ Write
  \/ PointReset \/ PostSuspended \/ SuspendedAnswered \/ AllSuspended
  \/ Join \/ PointRowFails \/ SuspendFails \/ LoadRaises

KeepRuns == KeepPost \/ KeepAnswered \/ KeepFails \/ KeepEnds

one_request(id) == TaskAnswered(id) \/ TaskFails(id)

LoadNext ==
  \/ Elapse \/ MainRuns \/ PointResetFails \/ InjectorTurn \/ KeepRuns
  \/ \E id \in DOMAIN run.tasks : one_request(id)
=============================================================================
