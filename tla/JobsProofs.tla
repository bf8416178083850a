----------------------------- MODULE JobsProofs ------------------------------
(***************************************************************************)
(* Proofs about Jobs for every batch of jobs, every number of prompts,     *)
(* requests and repeats: a load writes one row for each request it         *)
(* started, an injection finds nothing that its own process sent, a point  *)
(* starts from an empty cache, a script times what its columns say,        *)
(* bench_transfer times all the bytes, and the prompts can be rendered.    *)
(*                                                                         *)
(* The rows of a task are counted against the requests the server has open *)
(* under its name.  That name is a number, and the scripts use a number,   *)
(* too: what matters besides the coroutines is therefore that no process   *)
(* leaves a request under a name that the next one uses.                   *)
(*                                                                         *)
(* What a request finds is decided when the server schedules it, any time  *)
(* after it was posted.  The prompt of an injection must therefore stay    *)
(* out of the caches meanwhile, and it does because no other request of    *)
(* the server asks for it: the same request, given up and served all the   *)
(* same, does so after its row was written.                                *)
(*                                                                         *)
(* In a script, a request waits for the answer to the one before.  What    *)
(* it finds therefore follows from the stage of the trial (TrialInv), and  *)
(* the stage can be read off the next step, since the list of steps is a   *)
(* concatenation of trials (IsPlan).                                       *)
(***************************************************************************)
EXTENDS Jobs, FiniteSetTheorems, WellFoundedInduction, TLAPS

\* A sequence of whatever values
IsSeq(s) == \E S : s \in Seq(S)

\* The names under which the server has a request
Ids == {r.id : r \in open}

\* The names of tasks and scripts are given once
AskedOnce ==
  /\ \A r \in open : "id" \in DOMAIN r /\ r.id \in Int
  /\ \A r, q \in open : r.id = q.id /\ r.id > 0 => r = q

\* A task has no row yet, or one and no request
TasksInv ==
  /\ {"main", "inj", "tasks", "results"} \subseteq DOMAIN run
  /\ IsSeq(run.tasks) /\ IsSeq(run.results) /\ Len(run.results) = Len(run.tasks)
  /\ \A id \in 1 .. Len(run.tasks) :
       run.results[id] = << >> \/ (Len(run.results[id]) = 1 /\ id \notin Ids)

\* Tasks are started between the first turn of the load and its end only
PhaseInv ==
  /\ run.main # "off" => IsLoad
  /\ run.main \notin {"pace", "load"} => run.inj # "asleep"
  /\ run.main \in {"off", "reset", "send"} => Len(run.tasks) = 0
  /\ run.main \in {"join", "write"} => \A id \in 1 .. Len(run.tasks) : run.results[id] # << >>

\* A number is the name of a task of the present load, or of the request that the
\* present script waits for
NamesInv ==
  \A x \in Ids : x > 0 =>
    \/ IsLoad /\ x \in 1 .. Len(run.tasks)
    \/ x = Me /\ NextIs("send")

\* The programs that need no server run alone
LocalsInv ==
  /\ process.client # "bench_transfer" => transfer = TransferOff
  /\ process.client # "build_gate_prompts" => build = BuildOff

JobInv == AskedOnce /\ TasksInv /\ PhaseInv /\ NamesInv /\ LocalsInv

-----------------------------------------------------------------------------
\* A sequence stays one when it is appended to.
LEMMA AppendAny ==
  ASSUME NEW s, IsSeq(s), NEW e
  PROVE  /\ IsSeq(Append(s, e)) /\ Len(s) \in Nat /\ Len(Append(s, e)) = Len(s) + 1
         /\ DOMAIN s = 1 .. Len(s)
         /\ \A k \in 1 .. Len(s) : Append(s, e)[k] = s[k]
         /\ Append(s, e)[Len(s) + 1] = e
<1>1. PICK S : s \in Seq(S)
  BY DEF IsSeq
<1> DEFINE T == S \cup {e}
           a == Append(s, e)
<1>2. s \in Seq(T) /\ e \in T /\ Len(s) \in Nat /\ DOMAIN s = 1 .. Len(s)
  BY <1>1
<1> HIDE DEF T
<1>3. /\ a \in Seq(T) /\ Len(a) = Len(s) + 1
      /\ \A k \in 1 .. Len(s) : a[k] = s[k]
      /\ a[Len(s) + 1] = e
  BY <1>2
<1> QED
  BY <1>2, <1>3 DEF IsSeq

\* A sequence stays one when an element is replaced.
LEMMA ReplaceAny ==
  ASSUME NEW s, IsSeq(s), NEW k \in 1 .. Len(s), NEW e
  PROVE  /\ IsSeq([s EXCEPT ![k] = e]) /\ Len([s EXCEPT ![k] = e]) = Len(s)
         /\ [s EXCEPT ![k] = e][k] = e
         /\ \A j \in 1 .. Len(s) : j # k => [s EXCEPT ![k] = e][j] = s[j]
<1>1. PICK S : s \in Seq(S)
  BY DEF IsSeq
<1> DEFINE T == S \cup {e}
           a == [s EXCEPT ![k] = e]
<1>2. s \in Seq(T) /\ e \in T /\ Len(s) \in Nat /\ DOMAIN s = 1 .. Len(s)
  BY <1>1
<1> HIDE DEF T
<1>3. /\ a \in Seq(T) /\ Len(a) = Len(s) /\ a[k] = e
      /\ \A j \in 1 .. Len(s) : j # k => a[j] = s[j]
  BY <1>2
<1> QED
  BY <1>3 DEF IsSeq

-----------------------------------------------------------------------------
\* What the server does to its requests of itself gives no name.
LEMMA EngineNames ==
  ASSUME AskedOnce, NEW r, Schedule(r) \/ Abort(r)
  PROVE  AskedOnce' /\ Ids' \subseteq Ids
<1>1. CASE Schedule(r)
  <2> DEFINE s == [r EXCEPT !.hit = IF r.id = Nobody THEN Unread ELSE Hit(r.parts)]
  <2>1. r \in open /\ open' = (open \ {r}) \cup {s}
    BY <1>1 DEF Schedule
  <2>2. "id" \in DOMAIN s /\ s.id = r.id
    BY <2>1 DEF AskedOnce
  <2> HIDE DEF s
  <2> QED
    BY <2>1, <2>2 DEF AskedOnce, Ids
<1>2. CASE Abort(r)
  BY <1>2 DEF Abort, AskedOnce, Ids
<1> QED
  BY <1>1, <1>2

\* A request that was answered has lost its name, and so has one that was given up.
LEMMA ReplyNames ==
  ASSUME AskedOnce, NEW r \in open, Answered(r) \/ Failed(r)
  PROVE  AskedOnce' /\ Ids' \subseteq Ids \cup {Nobody} /\ (r.id > 0 => r.id \notin Ids')
<1>1. CASE open' = open \ {r}
  BY <1>1 DEF AskedOnce, Ids
<1>2. CASE ~(open' = open \ {r})
  <2> DEFINE s == [r EXCEPT !.id = Nobody, !.hit = IF Scheduled(r) THEN Unread ELSE NotYet]
  <2>1. open' = (open \ {r}) \cup {s}
    BY <1>2 DEF Answered, Failed
  <2>2. "id" \in DOMAIN s /\ s.id = 0
    BY DEF AskedOnce, Nobody
  <2> HIDE DEF s
  <2> QED
    BY <2>1, <2>2 DEF AskedOnce, Ids, Nobody
<1> QED
  BY <1>1, <1>2

\* A new name stays the only one.
LEMMA PostNames ==
  ASSUME AskedOnce, NEW id \in Int, id > 0 => id \notin Ids, NEW parts, Post(id, parts)
  PROVE  AskedOnce' /\ Ids' = Ids \cup {id}
<1> DEFINE s == [id |-> id, parts |-> parts, hit |-> NotYet]
<1>1. open' = open \cup {s} /\ "id" \in DOMAIN s /\ s.id = id
  BY DEF Post
<1> HIDE DEF s
<1> QED
  BY <1>1 DEF AskedOnce, Ids

-----------------------------------------------------------------------------
\* The names of a load are those of its tasks; without one there is at most that
\* of a script.
LEMMA NamesOfLoad ==
  ASSUME JobInv
  PROVE  /\ IsLoad => \A x \in Ids : x > 0 => x \in 1 .. Len(run.tasks)
         /\ ~IsLoad => /\ run.main = "off" /\ Len(run.tasks) = 0
                       /\ \A x \in Ids : x > 0 => x = Me /\ NextIs("send")
         /\ ~IsLoad /\ ~IsScript => \A x \in Ids : ~(x > 0)
         /\ IsLoad => ~IsScript /\ transfer = TransferOff /\ build = BuildOff
         /\ IsScript => ~IsLoad /\ transfer = TransferOff /\ build = BuildOff
         /\ Len(run.tasks) \in Nat /\ DOMAIN run.tasks = 1 .. Len(run.tasks)
<1>1. IsLoad => ~IsScript /\ transfer = TransferOff /\ build = BuildOff
  BY DEF JobInv, LocalsInv, IsLoad, IsScript
<1>2. IsScript => ~IsLoad /\ transfer = TransferOff /\ build = BuildOff
  BY DEF JobInv, LocalsInv, IsLoad, IsScript
<1>3. ~IsScript => ~NextIs("send")
  BY DEF NextIs
<1>4. \A x \in Ids : x > 0 => (IsLoad /\ x \in 1 .. Len(run.tasks)) \/ (x = Me /\ NextIs("send"))
  BY DEF JobInv, NamesInv
<1>5. ~IsLoad => run.main = "off" /\ Len(run.tasks) = 0
  BY DEF JobInv, PhaseInv
<1>6. Len(run.tasks) \in Nat /\ DOMAIN run.tasks = 1 .. Len(run.tasks)
  BY AppendAny DEF JobInv, TasksInv
<1> QED
  BY <1>1, <1>2, <1>3, <1>4, <1>5, <1>6

\* A step that starts no task and adds no row, and after which no number is a name
\* that was not.
LEMMA QuietStep ==
  ASSUME JobInv, AskedOnce', PhaseInv', UNCHANGED <<process, todo, localVars>>,
         {"main", "inj", "tasks", "results"} \subseteq DOMAIN run',
         run.tasks' = run.tasks, run.results' = run.results,
         \A x \in Ids' : x > 0 => x \in Ids
  PROVE  JobInv'
<1>1. Len(run.tasks) \in Nat
  BY NamesOfLoad
<1>2. TasksInv'
  BY <1>1 DEF JobInv, TasksInv
<1>3. NamesInv'
  BY DEF JobInv, NamesInv, IsLoad, NextIs, IsScript
<1>4. LocalsInv'
  BY DEF JobInv, LocalsInv, localVars
<1> QED
  BY <1>2, <1>3, <1>4 DEF JobInv

\* An empty list of tasks is as good as any.
LEMMA NoneIsSeq ==
  ASSUME NEW s, s = << >>
  PROVE  IsSeq(s) /\ Len(s) = 0
<1>1. s \in Seq({}) /\ Len(s) = 0
  OBVIOUS
<1> QED
  BY <1>1 DEF IsSeq

\* A process that has no numbered request open may end.
LEMMA EndKeeps ==
  ASSUME JobInv, IsLoad, EndLoad, AskedOnce', UNCHANGED localVars,
         \A x \in Ids' : ~(x > 0)
  PROVE  JobInv'
<1>1. /\ {"main", "inj", "tasks", "results"} \subseteq DOMAIN run'
      /\ run.main' = "off" /\ run.inj' = "off" /\ run.tasks' = << >> /\ run.results' = << >>
  BY DEF EndLoad, Off
<1>2. TasksInv'
  <2>1. IsSeq(run.tasks') /\ IsSeq(run.results') /\ Len(run.tasks') = 0 /\ Len(run.results') = 0
    BY <1>1, NoneIsSeq
  <2> QED
    BY <1>1, <2>1 DEF TasksInv
<1>3. PhaseInv'
  <2>1. Len(run.tasks') = 0
    BY <1>1, NoneIsSeq
  <2> QED
    BY <1>1, <2>1 DEF PhaseInv
<1>4. LocalsInv'
  BY NamesOfLoad DEF LocalsInv, localVars
<1> QED
  BY <1>2, <1>3, <1>4 DEF JobInv, NamesInv

\* A script keeps to its one name, and gives it up before it goes on.
LEMMA ScriptNames ==
  ASSUME JobInv, ScriptNext
  PROVE  /\ IsScript /\ AskedOnce'
         /\ process' = process \/ process' = Idle
         /\ \A x \in Ids' : x > 0 => x = Me /\ NextIs("send")'
<1>1. AskedOnce /\ IsScript
  BY DEF JobInv, ScriptNext, ScriptReset, ScriptResetFails, ScriptPost, stream_ttft,
         ScriptSendFails, ScriptRow, ScriptRowFails, ScriptEnds, NextIs
<1>2. \A x \in Ids : x > 0 => x = Me /\ NextIs("send")
  BY <1>1, NamesOfLoad
<1>3. CASE ScriptPost
  <2>1. Me \notin Ids /\ Me \in Int
    BY <1>3 DEF ScriptPost, Mine, Ids, Me
  <2>2. AskedOnce' /\ Ids' = Ids \cup {Me}
    BY <1>1, <1>3, <2>1, PostNames DEF ScriptPost
  <2> QED
    BY <1>1, <1>2, <1>3, <2>2 DEF ScriptPost, NextIs, IsScript, scriptVars
<1>4. CASE stream_ttft \/ ScriptSendFails
  <2>1. PICK r \in Mine : Answered(r) \/ Failed(r)
    BY <1>4 DEF stream_ttft, ScriptSendFails
  <2>2. r \in open /\ r.id = Me /\ Me = 1
    BY DEF Mine, Me
  <2>3. AskedOnce' /\ Ids' \subseteq Ids \cup {Nobody} /\ Me \notin Ids'
    BY <1>1, <2>1, <2>2, ReplyNames
  <2> QED
    BY <1>1, <1>2, <1>4, <2>3 DEF stream_ttft, ScriptSendFails, Advance, Raise, Nobody
<1>5. CASE ScriptReset \/ ScriptResetFails \/ ScriptRow \/ ScriptRowFails \/ ScriptEnds
  <2>1. open' = open
    BY <1>5 DEF ScriptReset, ScriptResetFails, ScriptRow, ScriptRowFails, ScriptEnds,
                reset_prefix_cache, serverVars
  <2>2. ~NextIs("send")
    BY <1>5 DEF ScriptReset, ScriptResetFails, ScriptRow, ScriptRowFails, ScriptEnds, NextIs
  <2>3. process' = process \/ process' = Idle
    BY <1>5 DEF ScriptReset, ScriptResetFails, ScriptRow, ScriptRowFails, ScriptEnds,
                Advance, Raise
  <2> QED
    BY <1>1, <1>2, <2>1, <2>2, <2>3 DEF AskedOnce, Ids
<1> QED
  BY <1>3, <1>4, <1>5 DEF ScriptNext

\* A script has no tasks, and none while it runs.
LEMMA ScriptKeeps ==
  ASSUME JobInv, ScriptNext, UNCHANGED <<run, localVars>>
  PROVE  JobInv'
<1>1. /\ IsScript /\ ~IsLoad /\ AskedOnce' /\ (process' = process \/ process' = Idle)
      /\ \A x \in Ids' : x > 0 => x = Me /\ NextIs("send")'
      /\ transfer = TransferOff /\ build = BuildOff
      /\ run.main = "off" /\ Len(run.tasks) = 0
  BY ScriptNames, NamesOfLoad
<1>2. TasksInv' /\ PhaseInv'
  BY <1>1 DEF JobInv, TasksInv, PhaseInv
<1>3. NamesInv' /\ LocalsInv'
  BY <1>1 DEF NamesInv, LocalsInv, localVars
<1> QED
  BY <1>1, <1>2, <1>3 DEF JobInv

-----------------------------------------------------------------------------
\* A task gets the next number, which names no request yet.
LEMMA StartTaskKeeps ==
  ASSUME JobInv, run.main \in {"pace", "load"}, NEW kind, NEW t, NEW then, NEW i,
         \/ then = [run EXCEPT !.main = "load"]
         \/ then = [run EXCEPT !.i = i],
         StartTask(kind, t, then), UNCHANGED <<todo, localVars>>
  PROVE  JobInv'
<1> DEFINE n == Len(run.tasks)
<1>1. /\ IsLoad /\ n \in Nat /\ Len(run.results) = n
      /\ {"main", "inj", "tasks", "results"} \subseteq DOMAIN run
      /\ IsSeq(run.tasks) /\ IsSeq(run.results)
      /\ \A id \in 1 .. n : run.results[id] = << >> \/ (Len(run.results[id]) = 1 /\ id \notin Ids)
      /\ \A x \in Ids : x > 0 => x \in 1 .. n
  BY NamesOfLoad DEF JobInv, TasksInv, PhaseInv
<1>2. /\ {"main", "inj", "tasks", "results"} \subseteq DOMAIN then
      /\ then.tasks = run.tasks /\ then.results = run.results /\ then.inj = run.inj
      /\ then.main \in {"pace", "load"}
  BY <1>1
<1>3. /\ {"main", "inj", "tasks", "results"} \subseteq DOMAIN run'
      /\ run.tasks' = Append(run.tasks, [kind |-> kind, task |-> t])
      /\ run.results' = Append(run.results, << >>)
      /\ run.main' \in {"pace", "load"}
  BY <1>2 DEF StartTask
<1>4. /\ IsSeq(run.tasks') /\ Len(run.tasks') = n + 1
      /\ IsSeq(run.results') /\ Len(run.results') = n + 1
      /\ \A id \in 1 .. n : run.results'[id] = run.results[id]
      /\ run.results'[n + 1] = << >>
  BY <1>1, <1>3, AppendAny
<1>5. AskedOnce' /\ Ids' = Ids \cup {n + 1}
  <2>1. Post(n + 1, Gate(t)) /\ n + 1 \in Int /\ n + 1 \notin Ids
    BY <1>1 DEF StartTask
  <2> QED
    BY <2>1, PostNames DEF JobInv
<1> HIDE DEF n
<1>6. TasksInv'
  BY <1>1, <1>3, <1>4, <1>5 DEF TasksInv
<1>7. IsLoad' /\ process' = process
  BY <1>1 DEF StartTask, Stays, IsLoad
<1>8. PhaseInv'
  BY <1>3, <1>7 DEF PhaseInv
<1>9. NamesInv'
  BY <1>1, <1>4, <1>5, <1>7 DEF NamesInv
<1>10. LocalsInv'
  BY <1>7 DEF JobInv, LocalsInv, localVars
<1> QED
  BY <1>5, <1>6, <1>8, <1>9, <1>10 DEF JobInv

\* The first row of a task comes with the end of its request.
LEMMA RowKeeps ==
  ASSUME JobInv, NEW id \in DOMAIN run.tasks, one_request(id), UNCHANGED <<todo, localVars>>
  PROVE  JobInv'
<1>1. /\ IsLoad /\ Len(run.results) = Len(run.tasks) /\ id \in 1 .. Len(run.tasks)
      /\ Len(run.tasks) \in Nat
      /\ {"main", "inj", "tasks", "results"} \subseteq DOMAIN run
      /\ IsSeq(run.tasks) /\ IsSeq(run.results)
      /\ \A x \in Ids : x > 0 => x \in 1 .. Len(run.tasks)
  BY NamesOfLoad DEF JobInv, TasksInv, one_request, TaskAnswered, TaskFails
<1>2. PICK r, hit : r \in OpenAs(id) /\ (Answered(r) \/ Failed(r)) /\ AppendRow(id, hit)
  BY DEF one_request, TaskAnswered, TaskFails
<1>3. r \in open /\ r.id = id /\ id > 0 /\ id \in Ids
  BY <1>1, <1>2 DEF OpenAs, Ids
<1>4. AskedOnce' /\ Ids' \subseteq Ids \cup {0} /\ id \notin Ids'
  BY <1>2, <1>3, ReplyNames DEF JobInv, Nobody
<1>5. run.results[id] = << >>
  BY <1>1, <1>3 DEF JobInv, TasksInv
<1> DEFINE row == Append(run.results[id], hit)
<1>6. Len(row) = 1 /\ row # << >>
  <2>1. ASSUME NEW s, s = << >> PROVE Len(Append(s, hit)) = 1 /\ Append(s, hit) # << >>
    <3>1. IsSeq(s) /\ Len(s) = 0
      BY <2>1, NoneIsSeq
    <3> DEFINE a == Append(s, hit)
    <3>2. Len(a) = Len(s) + 1
      BY <3>1, AppendAny
    <3> HIDE DEF a
    <3>3. Len(a) = 1
      BY <3>1, <3>2
    <3>4. a # << >>
      BY <3>3, NoneIsSeq
    <3> QED
      BY <3>3, <3>4 DEF a
  <2> QED
    BY <1>5, <2>1
<1>7. /\ run.tasks' = run.tasks /\ run.main' = run.main /\ run.inj' = run.inj
      /\ {"main", "inj", "tasks", "results"} \subseteq DOMAIN run'
      /\ run.results' = [run.results EXCEPT ![id] = row]
  BY <1>1, <1>2 DEF AppendRow
<1> HIDE DEF row
<1>8. /\ IsSeq(run.results') /\ Len(run.results') = Len(run.tasks) /\ run.results'[id] = row
      /\ \A j \in 1 .. Len(run.tasks) : j # id => run.results'[j] = run.results[j]
  BY <1>1, <1>7, ReplaceAny
<1>9. TasksInv'
  <2>1. ASSUME NEW j \in 1 .. Len(run.tasks)
        PROVE  run.results'[j] = << >> \/ (Len(run.results'[j]) = 1 /\ j \notin Ids')
    <3>1. CASE j = id
      BY <1>4, <1>6, <1>8, <3>1
    <3>2. CASE j # id
      <4>1. run.results'[j] = run.results[j] /\ j \in Int /\ j > 0
        BY <1>1, <1>8, <3>2
      <4> QED
        BY <1>4, <4>1 DEF JobInv, TasksInv
    <3> QED
      BY <3>1, <3>2
  <2> QED
    BY <1>1, <1>7, <1>8, <2>1 DEF TasksInv
<1>10. UNCHANGED process
  BY DEF one_request, TaskAnswered, TaskFails, Stays
<1>11. PhaseInv'
  BY <1>1, <1>6, <1>7, <1>8, <1>10 DEF JobInv, PhaseInv, IsLoad
<1>12. NamesInv'
  BY <1>1, <1>4, <1>7, <1>10 DEF NamesInv, IsLoad
<1>13. LocalsInv'
  BY <1>10 DEF JobInv, LocalsInv, localVars
<1> QED
  BY <1>4, <1>9, <1>11, <1>12, <1>13 DEF JobInv

\* The keepalive and the first requests of a point use no number.
LEMMA UnnumberedKeeps ==
  ASSUME JobInv, UNCHANGED <<todo, localVars>>,
         PostSuspended \/ SuspendedAnswered \/ KeepRuns
  PROVE  JobInv'
<1>1. UNCHANGED process /\ {"main", "inj", "tasks", "results"} \subseteq DOMAIN run
  BY DEF JobInv, TasksInv, PostSuspended, SuspendedAnswered, KeepRuns, KeepPost, KeepAnswered,
         KeepFails, KeepEnds, Stays
<1>2. /\ {"main", "inj", "tasks", "results"} \subseteq DOMAIN run'
      /\ run.tasks' = run.tasks /\ run.results' = run.results
      /\ run.main' = run.main /\ run.inj' = run.inj
  BY <1>1 DEF PostSuspended, SuspendedAnswered, KeepRuns, KeepPost, KeepAnswered, KeepFails, KeepEnds
<1>3. AskedOnce' /\ \A x \in Ids' : x > 0 => x \in Ids
  <2>1. CASE PostSuspended
    BY <2>1, PostNames DEF JobInv, PostSuspended, Main
  <2>2. CASE KeepPost
    <3>1. PICK parts : Post(Keep, parts)
      BY <2>2 DEF KeepPost
    <3>2. Keep \in Int /\ ~(Keep > 0)
      BY DEF Keep
    <3> QED
      BY <3>1, <3>2, PostNames DEF JobInv
  <2>3. CASE SuspendedAnswered \/ KeepAnswered \/ KeepFails
    <3>1. PICK r \in open : Answered(r) \/ Failed(r)
      BY <2>3 DEF SuspendedAnswered, KeepAnswered, KeepFails, OpenAs
    <3> QED
      BY <3>1, ReplyNames DEF JobInv, Nobody
  <2>4. CASE KeepEnds
    BY <2>4 DEF JobInv, KeepEnds, serverVars, AskedOnce, Ids
  <2> QED
    BY <2>1, <2>2, <2>3, <2>4 DEF KeepRuns
<1>4. PhaseInv'
  BY <1>1, <1>2 DEF JobInv, PhaseInv, IsLoad
<1> QED
  BY <1>1, <1>2, <1>3, <1>4, QuietStep

\* The steps of the load loop between the requests.
LEMMA LoopKeeps ==
  ASSUME JobInv, UNCHANGED <<todo, localVars>>,
         Elapse \/ LoadTurn \/ LoadEnds \/ Gather \/ PointReset \/ AllSuspended
  PROVE  JobInv'
<1>1. UNCHANGED process /\ {"main", "inj", "tasks", "results"} \subseteq DOMAIN run
  BY DEF JobInv, TasksInv, Elapse, LoadTurn, LoadEnds, Gather, PointReset, AllSuspended, Stays
<1>2. /\ {"main", "inj", "tasks", "results"} \subseteq DOMAIN run'
      /\ run.tasks' = run.tasks /\ run.results' = run.results /\ run.inj' = run.inj
  BY <1>1 DEF Elapse, LoadTurn, LoadEnds, Gather, PointReset, AllSuspended
<1>3. open' = open
  BY DEF Elapse, LoadTurn, LoadEnds, Gather, PointReset, AllSuspended, serverVars,
         reset_prefix_cache
<1>4. AskedOnce' /\ Ids' = Ids
  BY <1>3 DEF JobInv, AskedOnce, Ids
<1>5. PhaseInv'
  <2>1. CASE Elapse
    BY <1>1, <1>2, <2>1 DEF JobInv, PhaseInv, IsLoad, Elapse
  <2>2. CASE LoadTurn
    BY <1>1, <1>2, <2>2 DEF JobInv, PhaseInv, IsLoad, LoadTurn
  <2>3. CASE LoadEnds
    BY <1>1, <1>2, <2>3 DEF JobInv, PhaseInv, IsLoad, LoadEnds
  <2>4. CASE Gather
    <3>1. \A id \in 1 .. Len(run.tasks) : run.results[id] # << >>
      BY <2>4, NamesOfLoad DEF Gather
    <3> QED
      BY <1>1, <1>2, <2>4, <3>1 DEF JobInv, PhaseInv, IsLoad, Gather
  <2>5. CASE PointReset
    BY <1>1, <1>2, <2>5 DEF JobInv, PhaseInv, IsLoad, PointReset
  <2>6. CASE AllSuspended
    BY <1>1, <1>2, <2>6 DEF JobInv, PhaseInv, IsLoad, AllSuspended
  <2> QED
    BY <2>1, <2>2, <2>3, <2>4, <2>5, <2>6
<1> QED
  BY <1>1, <1>2, <1>4, <1>5, QuietStep

\* With a row for every task no number is left.
LEMMA AllAnswered ==
  ASSUME JobInv, run.main \in {"reset", "send", "join", "write"}
  PROVE  IsLoad /\ \A x \in Ids : ~(x > 0)
<1>1. IsLoad /\ Len(run.tasks) \in Nat /\ \A x \in Ids : x > 0 => x \in 1 .. Len(run.tasks)
  BY NamesOfLoad
<1>2. \A id \in 1 .. Len(run.tasks) : run.results[id] # << >>
  BY <1>1 DEF JobInv, PhaseInv
<1> QED
  BY <1>1, <1>2 DEF JobInv, TasksInv

\* The process ends, with its rows or for an error.
LEMMA LastStepKeeps ==
  ASSUME JobInv, UNCHANGED <<todo, localVars>>,
         Write \/ PointRowFails \/ PointResetFails \/ SuspendFails \/ LoadRaises
  PROVE  JobInv'
<1>1. IsLoad /\ EndLoad /\ \A x \in Ids : ~(x > 0)
  BY AllAnswered DEF Write, PointRowFails, PointResetFails, SuspendFails, LoadRaises
<1>2. AskedOnce' /\ \A x \in Ids' : ~(x > 0)
  <2>1. CASE SuspendFails
    <3>1. PICK r \in open : Failed(r)
      BY <2>1 DEF SuspendFails, OpenAs
    <3> QED
      BY <1>1, <3>1, ReplyNames DEF JobInv, Nobody
  <2>2. CASE Write \/ PointRowFails \/ PointResetFails \/ LoadRaises
    <3>1. open' = open
      BY <2>2 DEF Write, PointRowFails, PointResetFails, LoadRaises, serverVars,
                  reset_prefix_cache
    <3> QED
      BY <1>1, <3>1 DEF JobInv, AskedOnce, Ids
  <2> QED
    BY <2>1, <2>2
<1> QED
  BY <1>1, <1>2, EndKeeps

\* The next point starts without tasks.
LEMMA JoinKeeps ==
  ASSUME JobInv, UNCHANGED <<todo, localVars>>, Join
  PROVE  JobInv'
<1>1. /\ IsLoad /\ UNCHANGED process /\ open' = open /\ run.main = "join" /\ NextPoint
      /\ \A x \in Ids : ~(x > 0)
  BY AllAnswered DEF Join, Stays, serverVars
<1>2. AskedOnce' /\ Ids' = Ids
  BY <1>1 DEF JobInv, AskedOnce, Ids
<1>3. {"main", "inj", "tasks", "results"} \subseteq DOMAIN run
  BY DEF JobInv, TasksInv
<1>4. CASE Len(run.points) > 1
  <2>1. /\ {"main", "inj", "tasks", "results"} \subseteq DOMAIN run'
        /\ run.main' = "reset" /\ run.inj' = "off"
        /\ run.tasks' = << >> /\ run.results' = << >>
    BY <1>1, <1>4 DEF NextPoint, Off
  <2>2. /\ IsSeq(run.tasks') /\ IsSeq(run.results')
        /\ Len(run.tasks') = 0 /\ Len(run.results') = 0
    BY <2>1, NoneIsSeq
  <2>3. TasksInv' /\ PhaseInv'
    BY <1>1, <2>1, <2>2 DEF TasksInv, PhaseInv, IsLoad
  <2>4. NamesInv' /\ LocalsInv'
    BY <1>1, <1>2 DEF JobInv, NamesInv, LocalsInv, localVars
  <2> QED
    BY <1>2, <2>3, <2>4 DEF JobInv
<1>5. CASE ~(Len(run.points) > 1)
  <2>1. /\ {"main", "inj", "tasks", "results"} \subseteq DOMAIN run'
        /\ run.main' = "write" /\ run.inj' = run.inj
        /\ run.tasks' = run.tasks /\ run.results' = run.results
    BY <1>1, <1>3, <1>5 DEF NextPoint
  <2>2. PhaseInv'
    BY <1>1, <2>1 DEF JobInv, PhaseInv, IsLoad
  <2> QED
    BY <1>1, <1>2, <2>1, <2>2, QuietStep
<1> QED
  BY <1>4, <1>5

\* The injector runs beside the load loop.
LEMMA InjectorKeeps ==
  ASSUME JobInv, UNCHANGED <<todo, localVars>>, InjectorTurn
  PROVE  JobInv'
<1>1. run.main \in {"pace", "load"} /\ {"main", "inj", "tasks", "results"} \subseteq DOMAIN run
  BY DEF JobInv, PhaseInv, TasksInv, InjectorTurn
<1>2. CASE ~run.over /\ run.i < Len(run.other)
  BY <1>1, <1>2, StartTaskKeeps DEF InjectorTurn
<1>3. CASE ~(~run.over /\ run.i < Len(run.other))
  <2>1. run' = [run EXCEPT !.inj = "ended"] /\ UNCHANGED serverVars /\ UNCHANGED process
    BY <1>3 DEF InjectorTurn, Stays
  <2>2. /\ {"main", "inj", "tasks", "results"} \subseteq DOMAIN run'
        /\ run.tasks' = run.tasks /\ run.results' = run.results /\ run.main' = run.main
        /\ run.inj' = "ended"
    BY <1>1, <2>1
  <2>3. AskedOnce' /\ Ids' = Ids
    BY <2>1 DEF JobInv, AskedOnce, Ids, serverVars
  <2>4. PhaseInv'
    BY <2>1, <2>2 DEF JobInv, PhaseInv, IsLoad
  <2> QED
    BY <2>1, <2>2, <2>3, <2>4, QuietStep
<1> QED
  BY <1>2, <1>3

\* All coroutines keep the invariant.
LEMMA LoadKeeps ==
  ASSUME JobInv, LoadNext, UNCHANGED <<todo, localVars>>
  PROVE  JobInv'
<1>1. CASE LoadStarts
  <2>1. PICK t : StartTask("bg", t, [run EXCEPT !.main = "load"]) /\ run.main = "pace"
    BY <1>1 DEF LoadStarts
  <2> QED
    BY <2>1, StartTaskKeeps
<1>2. CASE \E id \in DOMAIN run.tasks : one_request(id)
  BY <1>2, RowKeeps
<1> QED
  BY <1>1, <1>2, UnnumberedKeeps, LoopKeeps, LastStepKeeps, JoinKeeps, InjectorKeeps
     DEF LoadNext, MainRuns

-----------------------------------------------------------------------------
\* A job begins without requests and tasks.
LEMMA InitJob == JobInit => JobInv
<1> SUFFICES ASSUME JobInit PROVE JobInv
  OBVIOUS
<1>1. open = {} /\ process = Idle /\ run = Off /\ transfer = TransferOff /\ build = BuildOff
  BY DEF JobInit, ServerInit
<1>2. /\ {"main", "inj", "tasks", "results"} \subseteq DOMAIN run
      /\ run.main = "off" /\ run.inj = "off" /\ run.tasks = << >> /\ run.results = << >>
  BY <1>1 DEF Off
<1>3. IsSeq(run.tasks) /\ IsSeq(run.results) /\ Len(run.tasks) = 0 /\ Len(run.results) = 0
  BY <1>2, NoneIsSeq
<1>4. TasksInv /\ PhaseInv
  BY <1>2, <1>3 DEF TasksInv, PhaseInv
<1>5. AskedOnce /\ NamesInv /\ LocalsInv
  BY <1>1 DEF AskedOnce, NamesInv, LocalsInv, Ids
<1> QED
  BY <1>4, <1>5 DEF JobInv

\* A process starts where no other runs, and so without requests under a number.
LEMMA NextProcessKeeps == JobInv /\ NextProcess => JobInv'
<1> SUFFICES ASSUME JobInv, NextProcess PROVE JobInv'
  OBVIOUS
<1>1. /\ process = Idle /\ ~IsLoad /\ ~IsScript /\ open' = open
      /\ transfer = TransferOff /\ build = BuildOff
  BY DEF NextProcess, Idle, IsLoad, IsScript, serverVars, JobInv, LocalsInv
<1>2. /\ run.main = "off" /\ Len(run.tasks) = 0 /\ \A x \in Ids : ~(x > 0)
  BY <1>1, NamesOfLoad
<1>3. AskedOnce' /\ NamesInv'
  BY <1>1, <1>2 DEF JobInv, AskedOnce, NamesInv, Ids
<1>4. ASSUME UNCHANGED run, ~IsLoad' PROVE TasksInv' /\ PhaseInv'
  BY <1>1, <1>2, <1>4 DEF JobInv, TasksInv, PhaseInv
<1> DEFINE p == Head(processes)
<1>5. CASE p.client \in {"bench_prefill", "suspend_resume"} /\ StartScript(p)
           /\ UNCHANGED <<run, localVars>>
  <2>1. ~IsLoad' /\ LocalsInv'
    BY <1>1, <1>5 DEF StartScript, IsLoad, LocalsInv, localVars
  <2> QED
    BY <1>3, <1>4, <1>5, <2>1 DEF JobInv
<1>6. CASE p.client \in {"loadgen", "bench_q", "real"} /\ StartLoad(p)
           /\ UNCHANGED localVars
  <2>1. CASE UNCHANGED <<process, run>>
    <3>1. ~IsLoad' /\ LocalsInv'
      BY <1>1, <1>6, <2>1 DEF IsLoad, LocalsInv, localVars
    <3> QED
      BY <1>3, <1>4, <2>1, <3>1 DEF JobInv
  <2>2. CASE ~UNCHANGED <<process, run>>
    <3>1. /\ process' = p
          /\ {"main", "inj", "tasks", "results"} \subseteq DOMAIN run'
          /\ run.tasks' = << >> /\ run.results' = << >>
          /\ \/ run.main' = "pace"
             \/ run.main' = "reset" /\ run.inj' # "asleep"
      <4>1. CASE p.client = "loadgen"
        BY <1>6, <2>2, <4>1 DEF StartLoad, Off
      <4>2. CASE p.client # "loadgen"
        <5>1. PICK pools \in Pools(p.prompts) :
                /\ process' = p
                /\ run' = [Off EXCEPT !.points = p.Ns, !.bg = pools.bg, !.other = pools.other,
                                      !.main = IF p.client = "real" THEN "reset" ELSE "pace",
                                      !.inj = IF p.client = "bench_q" THEN "asleep" ELSE "off",
                                      !.inherited = seen]
          BY <1>6, <2>2, <4>2 DEF StartLoad
        <5> QED
          BY <1>6, <4>2, <5>1 DEF Off
      <4> QED
        BY <4>1, <4>2
    <3>2. /\ IsSeq(run.tasks') /\ IsSeq(run.results')
          /\ Len(run.tasks') = 0 /\ Len(run.results') = 0
      BY <3>1, NoneIsSeq
    <3>3. IsLoad' /\ LocalsInv'
      BY <1>1, <1>6, <3>1 DEF IsLoad, LocalsInv, localVars
    <3>4. TasksInv' /\ PhaseInv'
      BY <3>1, <3>2, <3>3 DEF TasksInv, PhaseInv
    <3> QED
      BY <1>3, <3>3, <3>4 DEF JobInv
  <2> QED
    BY <2>1, <2>2
<1>7. CASE p.client = "bench_transfer" /\ process' = p /\ UNCHANGED <<run, build>>
  <2>1. ~IsLoad' /\ LocalsInv'
    BY <1>1, <1>7 DEF IsLoad, LocalsInv
  <2> QED
    BY <1>3, <1>4, <1>7, <2>1 DEF JobInv
<1>8. CASE p.client = "build_gate_prompts" /\ process' = p /\ UNCHANGED <<run, transfer>>
  <2>1. ~IsLoad' /\ LocalsInv'
    BY <1>1, <1>8 DEF IsLoad, LocalsInv
  <2> QED
    BY <1>3, <1>4, <1>8, <2>1 DEF JobInv
<1> QED
  BY <1>5, <1>6, <1>7, <1>8 DEF NextProcess, scriptVars

\* A server comes, goes or stays away while no process runs.
LEMMA ServersKeep ==
  ASSUME JobInv, ServerStarts \/ ServerStartFails \/ Kill \/ PartCloses
  PROVE  JobInv'
<1>1. UNCHANGED <<process, todo, run, localVars>>
  BY DEF ServerStarts, ServerStartFails, Kill, PartCloses, scriptVars
<1>2. open' = open \/ open' = {}
  BY DEF ServerStarts, ServerStartFails, Kill, PartCloses, serverVars
<1>3. AskedOnce' /\ Ids' \subseteq Ids
  BY <1>2 DEF JobInv, AskedOnce, Ids
<1>4. /\ PhaseInv' /\ {"main", "inj", "tasks", "results"} \subseteq DOMAIN run'
  BY <1>1 DEF JobInv, PhaseInv, TasksInv, IsLoad
<1> QED
  BY <1>1, <1>3, <1>4, QuietStep

\* The transfer benchmark and the builder are the process that runs.
LEMMA LocalsAlone ==
  ASSUME JobInv
  PROVE  /\ bench_m2 => process.client = "bench_transfer"
         /\ Builder => process.client = "build_gate_prompts"
<1>1. ASSUME bench_m2 PROVE process.client = "bench_transfer"
  <2>1. ASSUME transfer = TransferOff PROVE FALSE
    <3>1. transfer.phase = "off" /\ \A i \in Workers : transfer.at[i] = "new"
      BY <2>1 DEF TransferOff, ForAll
    <3> QED
      BY <1>1, <3>1 DEF bench_m2, JoinAll, Joined, TransferEnds, WorkerRuns, Open, CallRaises,
                        WriteChunk, ReadChunk, WorkerEnds, InLoop
  <2> QED
    BY <2>1 DEF JobInv, LocalsInv
<1>2. ASSUME Builder PROVE process.client = "build_gate_prompts"
  <2>1. ASSUME build = BuildOff PROVE FALSE
    BY <1>2, <2>1 DEF BuildOff, Builder, BuildNext, BuildEnds, Skip, TemplateFails, WritePrompt
  <2> QED
    BY <2>1 DEF JobInv, LocalsInv
<1> QED
  BY <1>1, <1>2

\* The transfer benchmark and the builder end nobody's process but their own.
LEMMA LocalsKeep ==
  ASSUME JobInv, bench_m2 \/ Builder
  PROVE  JobInv'
<1>1. /\ UNCHANGED <<run, open, todo>>
      /\ process' = process \/ process' = Idle
  BY DEF bench_m2, Builder, serverVars, scriptVars
<1>2. CASE bench_m2
  <2>1. process.client = "bench_transfer"
    BY <1>2, LocalsAlone
  <2>2. LocalsInv'
    BY <1>2, <2>1 DEF JobInv, LocalsInv, bench_m2, TransferEnds
  <2>3. ~IsLoad /\ ~IsScript /\ ~IsLoad'
    BY <1>1, <2>1 DEF IsLoad, IsScript, Idle
  <2> QED
    BY <1>1, <2>2, <2>3, NamesOfLoad DEF JobInv, AskedOnce, TasksInv, PhaseInv, NamesInv, Ids
<1>3. CASE Builder
  <2>1. process.client = "build_gate_prompts"
    BY <1>3, LocalsAlone
  <2>2. LocalsInv'
    BY <1>3, <2>1 DEF JobInv, LocalsInv, Builder, BuildEnds
  <2>3. ~IsLoad /\ ~IsScript /\ ~IsLoad'
    BY <1>1, <2>1 DEF IsLoad, IsScript, Idle
  <2> QED
    BY <1>1, <2>2, <2>3, NamesOfLoad DEF JobInv, AskedOnce, TasksInv, PhaseInv, NamesInv, Ids
<1> QED
  BY <1>2, <1>3

\* The engine gives no names.
LEMMA EngineKeeps ==
  ASSUME JobInv, Engine
  PROVE  JobInv'
<1>1. UNCHANGED <<process, todo, run, localVars>>
  BY DEF Engine, Schedule, Abort, Evict, scriptVars
<1>2. AskedOnce' /\ Ids' \subseteq Ids
  <2>1. CASE open' = open
    BY <2>1 DEF JobInv, AskedOnce, Ids
  <2>2. CASE \E r \in open : Schedule(r) \/ Abort(r)
    BY <2>2, EngineNames DEF JobInv
  <2> QED
    BY <2>1, <2>2 DEF Engine, Evict
<1>3. /\ PhaseInv' /\ {"main", "inj", "tasks", "results"} \subseteq DOMAIN run'
  BY <1>1 DEF JobInv, PhaseInv, TasksInv, IsLoad
<1> QED
  BY <1>1, <1>2, <1>3, QuietStep

\* Every step of a job keeps the invariant.
LEMMA NextJob == JobInv /\ [JobNext]_allVars => JobInv'
<1> SUFFICES ASSUME JobInv, [JobNext]_allVars PROVE JobInv'
  OBVIOUS
<1>1. CASE JobRuns \/ ServerStartFails \/ ServerExits
  BY <1>1, NextProcessKeeps, ServersKeep DEF JobRuns, PartEnds, ServerExits
<1>2. CASE Script
  BY <1>2, ScriptKeeps DEF Script
<1>3. CASE Of(LoadNext)
  BY <1>3, LoadKeeps DEF Of, scriptVars
<1>4. CASE bench_m2 \/ Builder
  BY <1>4, LocalsKeep
<1>5. CASE Engine
  BY <1>5, EngineKeeps
<1>6. CASE UNCHANGED allVars
  BY <1>6 DEF allVars, serverVars, scriptVars, localVars, JobInv, AskedOnce, TasksInv, PhaseInv,
              NamesInv, LocalsInv, Ids, IsLoad, IsScript, NextIs
<1> QED
  BY <1>1, <1>2, <1>3, <1>4, <1>5, <1>6 DEF JobNext

\* When the rows of a load are written every request it started, an injected one
\* included, has exactly one (bench_q.py:120-131, loadgen.py:112-118).
THEOREM OneRowPerTaskCorrect == JobSpec => []OneRowPerTask
<1>1. JobInv => OneRowPerTask
  <2> SUFFICES ASSUME JobInv, run.main = "write", NEW id \in DOMAIN run.tasks
               PROVE  Len(run.results[id]) = 1
    BY DEF OneRowPerTask
  <2>1. id \in 1 .. Len(run.tasks)
    BY NamesOfLoad
  <2> QED
    BY <2>1 DEF JobInv, TasksInv, PhaseInv
<1> QED
  BY <1>1, InitJob, NextJob, PTL DEF JobSpec

-----------------------------------------------------------------------------
\* What an injection finds in the caches: ColdWithinProcess

\* The part of a prompt that no other task has
Part(t) == <<t, "gate">>

\* The server has seen what it caches and what it is asked for
PromptInv ==
  /\ \A r \in open : {"id", "parts", "hit"} \subseteq DOMAIN r /\ ToSet(r.parts) \subseteq seen
  /\ gpu \subseteq seen /\ store \subseteq seen

RunFields == {"main", "inj", "i", "other", "bg", "keep", "inherited", "tasks", "results"}

Injected(id) == run.tasks[id].kind = "inject"

\* A keepalive and an injector do not meet
AloneInv ==
  /\ RunFields \subseteq DOMAIN run
  /\ run.keep # "off" =>
       run.inj # "asleep" /\ \A id \in 1 .. Len(run.tasks) : ~Injected(id)

\* The prompts not yet injected are no one's
FreshInv ==
  run.inj = "asleep" =>
    /\ run.i \in Nat /\ Len(run.other) \in Nat
    /\ \A k \in run.i + 1 .. Len(run.other) :
         /\ run.other[k] \notin run.bg
         /\ Part(run.other[k]) \in run.inherited \/ Part(run.other[k]) \notin seen
    /\ \A j, k \in 1 .. Len(run.other) : j # k => run.other[j] # run.other[k]

\* The prompt of t belongs to task id: only its request asks for it, which has not
\* found it and does not while it waits
Cold(id, t, results) ==
  /\ Part(t) \in seen
  /\ \A r \in open : Part(t) \in ToSet(r.parts) =>
       r.id = id \/ (r.id = Nobody /\ results # << >>)
  /\ \A r \in open : r.id = id =>
       /\ r.parts = Gate(t)
       /\ Scheduled(r) => ~(r.hit.all >= 2)
       /\ ~Scheduled(r) => Part(t) \notin gpu /\ Part(t) \notin store
  /\ \A hit \in ToSet(results) : ~(hit.all >= 2)

InjectInv ==
  \A id \in 1 .. Len(run.tasks) :
    Injected(id) =>
      \/ Part(run.tasks[id].task) \in run.inherited
      \/ /\ run.tasks[id].task \notin run.bg
         /\ Cold(id, run.tasks[id].task, run.results[id])

ColdInv == PromptInv /\ AloneInv /\ FreshInv /\ InjectInv

\* Processes with finitely many prompts, parts of a job made of them; the part whose
\* server is up is not taken off before it is down
Sized(p) ==
  /\ p.client = "bench_q" => IsFiniteSet(p.prompts)
  /\ p.client \in {"bench_prefill", "suspend_resume"} => p.arms \in Seq(Arms)
FiniteProcesses(s) == \E P : s \in Seq(P) /\ \A p \in P : Sized(p)
JobShape ==
  /\ FiniteProcesses(processes)
  /\ \E S : job \in Seq(S) /\ \A part \in S : FiniteProcesses(part.processes) /\ part.tier # "down"
  /\ tier # "down" => job # << >>

-----------------------------------------------------------------------------
\* A gate prompt is the system message and one part of its own.
LEMMA PartsOfGate ==
  ASSUME NEW t
  PROVE  /\ ToSet(Gate(t)) = {System[1], Part(t)}
         /\ Gate(t)[2] = Part(t) /\ Len(Gate(t)) = 2 /\ Part(t) # System[1]
<1> DEFINE a == <<"all", "system">>
           b == <<t, "gate">>
<1>1. a # b
  <2>1. a[2] = "system" /\ b[2] = "gate"
    OBVIOUS
  <2> QED
    BY <2>1
<1> HIDE DEF a, b
<1> DEFINE g == Append(<<a>>, b)
<1>2. <<a>> \in Seq({a, b}) /\ Len(<<a>>) = 1 /\ <<a>>[1] = a
  OBVIOUS
<1>3. DOMAIN g = 1 .. 2 /\ Len(g) = 2 /\ g[1] = a /\ g[2] = b
  BY <1>2
<1>4. System = <<a>> /\ System[1] = a
  BY <1>2 DEF System, a
<1>5. Gate(t) = g /\ Part(t) = b
  BY <1>4 DEF Gate, Part, b
<1> HIDE DEF g
<1>6. ToSet(g) = {a, b}
  BY <1>3 DEF ToSet
<1> QED
  BY <1>1, <1>3, <1>4, <1>5, <1>6

\* Different tasks have different parts.
LEMMA PartInjective ==
  ASSUME NEW t, NEW u, Part(t) = Part(u)
  PROVE  t = u
<1>1. <<t, "gate">>[1] = t /\ <<u, "gate">>[1] = u
  OBVIOUS
<1> QED
  BY <1>1 DEF Part

\* A prompt whose own part is not cached finds the system message at most.
LEMMA HeldBelow ==
  ASSUME NEW t, NEW cached, Part(t) \notin cached
  PROVE  Held(Gate(t), cached) \in {0, 1}
<1> DEFINE S == {n \in 0 .. Len(Gate(t)) : \A k \in 1 .. n : Gate(t)[k] \in cached}
<1>1. S = {n \in 0 .. 2 : \A k \in 1 .. n : Gate(t)[k] \in cached}
  BY PartsOfGate
<1>2. 0 \in S /\ 2 \notin S /\ S \subseteq 0 .. 2
  BY <1>1, PartsOfGate
<1> HIDE DEF S
<1>3. \E x \in S : \A y \in S : x >= y
  <2>1. CASE 1 \in S
    BY <1>2, <2>1
  <2>2. CASE 1 \notin S
    BY <1>2, <2>2
  <2> QED
    BY <2>1, <2>2
<1>4. Max(S) \in S
  BY <1>3 DEF Max
<1> QED
  BY <1>2, <1>4 DEF Held, S

-----------------------------------------------------------------------------
\* Nothing is cached or asked for that was not sent.
LEMMA PromptsKept ==
  ASSUME PromptInv,
         \/ \E id, parts : Post(id, parts)
         \/ \E r : Schedule(r) \/ Abort(r)
         \/ \E r \in open : Answered(r) \/ Failed(r)
         \/ gpu' \subseteq gpu /\ UNCHANGED <<open, store, seen>>
  PROVE  PromptInv' /\ seen \subseteq seen'
<1>1. ASSUME NEW id, NEW parts, Post(id, parts) PROVE PromptInv' /\ seen \subseteq seen'
  <2> DEFINE s == [id |-> id, parts |-> parts, hit |-> NotYet]
  <2>1. {"id", "parts", "hit"} \subseteq DOMAIN s /\ s.parts = parts
    OBVIOUS
  <2>2. open' = open \cup {s}
    BY <1>1 DEF Post
  <2> HIDE DEF s
  <2> QED
    BY <1>1, <2>1, <2>2 DEF Post, PromptInv
<1>2. ASSUME NEW r, Schedule(r) PROVE PromptInv' /\ seen \subseteq seen'
  <2> DEFINE s == [r EXCEPT !.hit = IF r.id = Nobody THEN Unread ELSE Hit(r.parts)]
  <2>1. r \in open /\ open' = (open \ {r}) \cup {s}
    BY <1>2 DEF Schedule
  <2>2. {"id", "parts", "hit"} \subseteq DOMAIN s /\ s.parts = r.parts
    BY <2>1 DEF PromptInv
  <2> HIDE DEF s
  <2> QED
    BY <1>2, <2>1, <2>2 DEF Schedule, PromptInv
<1>3. ASSUME NEW r \in open, Answered(r) \/ Failed(r) PROVE PromptInv' /\ seen \subseteq seen'
  <2> DEFINE s == [r EXCEPT !.id = Nobody, !.hit = IF Scheduled(r) THEN Unread ELSE NotYet]
  <2>1. UNCHANGED <<gpu, store, seen>> /\ (open' = open \ {r} \/ open' = (open \ {r}) \cup {s})
    BY <1>3 DEF Answered, Failed
  <2>2. {"id", "parts", "hit"} \subseteq DOMAIN s /\ s.parts = r.parts
    BY DEF PromptInv
  <2> HIDE DEF s
  <2> QED
    BY <2>1, <2>2 DEF PromptInv
<1>4. ASSUME NEW r, Abort(r) PROVE PromptInv' /\ seen \subseteq seen'
  BY <1>4 DEF Abort, PromptInv
<1>5. CASE gpu' \subseteq gpu /\ UNCHANGED <<open, store, seen>>
  BY <1>5 DEF PromptInv
<1> QED
  BY <1>1, <1>2, <1>3, <1>4, <1>5

\* The engine does not find what only waits: a prompt enters the caches with its own
\* request.
LEMMA EngineCold ==
  ASSUME AskedOnce, PromptInv, NEW id \in Nat \ {0}, NEW t, NEW results, Cold(id, t, results),
         results # << >> => id \notin Ids,
         \/ \E r : Schedule(r) \/ Abort(r)
         \/ gpu' \subseteq gpu /\ UNCHANGED <<open, store, seen>>
  PROVE  Cold(id, t, results)'
<1>1. ASSUME NEW q, Schedule(q) PROVE Cold(id, t, results)'
  <2> DEFINE s == [q EXCEPT !.hit = IF q.id = Nobody THEN Unread ELSE Hit(q.parts)]
  <2>1. /\ q \in open /\ ~Scheduled(q) /\ open' = (open \ {q}) \cup {s} /\ seen' = seen
        /\ gpu' = gpu \cup ToSet(q.parts)
        /\ store' = store \/ store' = store \cup ToSet(q.parts)
    BY <1>1 DEF Schedule
  <2>2. s.id = q.id /\ s.parts = q.parts /\ s.hit = IF q.id = Nobody THEN Unread ELSE Hit(q.parts)
    BY <2>1 DEF PromptInv
  <2> HIDE DEF s
  <2>3. CASE q.id = id
    <3>1. q.parts = Gate(t) /\ Part(t) \notin gpu \cup store
      BY <2>1, <2>3 DEF Cold
    <3>2. s.hit.all = Held(Gate(t), gpu \cup store)
      BY <2>2, <2>3, <3>1 DEF Hit, Nobody
    <3>3. ~(s.hit.all >= 2) /\ Scheduled(s)
      <4>1. s.hit.all \in {0, 1}
        BY <3>1, <3>2, HeldBelow
      <4>2. NotYet.all = -1
        BY DEF NotYet
      <4> QED
        BY <4>1, <4>2 DEF Scheduled
    <3>4. \A r \in open : r.id = id => r = q
      BY <2>1, <2>3 DEF AskedOnce
    <3> QED
      BY <2>1, <2>2, <2>3, <3>1, <3>3, <3>4 DEF Cold, Scheduled
  <2>4. CASE q.id # id
    <3>1. Part(t) \in ToSet(q.parts) => q.id = Nobody /\ results # << >>
      BY <2>1, <2>4 DEF Cold
    <3>2. CASE \E r \in open : r.id = id
      <4>1. Part(t) \notin ToSet(q.parts)
        BY <3>1, <3>2 DEF Ids
      <4> QED
        BY <2>1, <2>2, <2>4, <4>1 DEF Cold, Scheduled
    <3>3. CASE ~\E r \in open : r.id = id
      BY <2>1, <2>2, <2>4, <3>1, <3>3 DEF Cold
    <3> QED
      BY <3>2, <3>3
  <2> QED
    BY <2>3, <2>4
<1>2. ASSUME NEW q, Abort(q) PROVE Cold(id, t, results)'
  BY <1>2 DEF Abort, Cold, Scheduled
<1>3. CASE gpu' \subseteq gpu /\ UNCHANGED <<open, store, seen>>
  BY <1>3 DEF Cold, Scheduled
<1> QED
  BY <1>1, <1>2, <1>3


\* A reply to another task takes no part in it.
LEMMA ReplyCold ==
  ASSUME PromptInv, NEW id \in Nat \ {0}, NEW t, NEW results, Cold(id, t, results),
         NEW q \in open, Answered(q) \/ Failed(q), q.id # id, q.id # Nobody
  PROVE  Cold(id, t, results)'
<1> DEFINE s == [q EXCEPT !.id = Nobody, !.hit = IF Scheduled(q) THEN Unread ELSE NotYet]
<1>1. UNCHANGED <<gpu, store, seen>> /\ (open' = open \ {q} \/ open' = (open \ {q}) \cup {s})
  BY DEF Answered, Failed
<1>2. s.id = Nobody /\ s.parts = q.parts /\ Nobody # id
  BY DEF PromptInv, Nobody
<1>3. Part(t) \notin ToSet(q.parts)
  BY DEF Cold
<1> HIDE DEF s
<1> QED
  BY <1>1, <1>2, <1>3 DEF Cold, Scheduled

\* The reply to its own request says that the prompt was not found; an error says
\* nothing.
LEMMA OwnReplyCold ==
  ASSUME AskedOnce, PromptInv, NEW id \in Nat \ {0}, NEW t, Cold(id, t, << >>),
         NEW q \in open, q.id = id, NEW row,
         \/ Answered(q) /\ row = q.hit
         \/ Failed(q) /\ row = NotYet
  PROVE  Cold(id, t, Append(<< >>, row))'
<1> DEFINE s == [q EXCEPT !.id = Nobody, !.hit = IF Scheduled(q) THEN Unread ELSE NotYet]
           res == Append(<< >>, row)
<1>1. UNCHANGED <<gpu, store, seen>> /\ (open' = open \ {q} \/ open' = (open \ {q}) \cup {s})
  BY DEF Answered, Failed
<1>2. s.id = Nobody /\ s.parts = q.parts /\ Nobody # id
  BY DEF PromptInv, Nobody
<1>3. res # << >> /\ ToSet(res) = {row}
  <2>1. /\ Len(<< >>) = 0 /\ Len(res) = Len(<< >>) + 1 /\ res[Len(<< >>) + 1] = row
        /\ Len(<< >>) \in Nat /\ IsSeq(res)
    BY NoneIsSeq, AppendAny
  <2>2. Len(res) = 1 /\ res[1] = row /\ DOMAIN res = 1 .. 1
    BY <2>1, AppendAny
  <2> HIDE DEF res
  <2>3. res # << >>
    BY <2>2
  <2> QED
    BY <2>2, <2>3 DEF ToSet
<1>4. ~(row.all >= 2)
  <2>1. CASE Answered(q) /\ row = q.hit
    BY <2>1 DEF Answered, Cold
  <2>2. CASE row = NotYet
    BY <2>2 DEF NotYet
  <2> QED
    BY <2>1, <2>2
<1>5. \A r \in open : r.id = id => r = q
  BY DEF AskedOnce
<1>6. \A r \in open : Part(t) \in ToSet(r.parts) => r.id = id
  BY DEF Cold
<1> HIDE DEF s, res
<1>7. /\ Part(t) \in seen'
      /\ \A r \in open' : Part(t) \in ToSet(r.parts) => r.id = id \/ r.id = Nobody
      /\ \A r \in open' : r.id # id
  BY <1>1, <1>2, <1>5, <1>6 DEF Cold
<1>8. \A hit \in ToSet(res) : ~(hit.all >= 2)
  BY <1>3, <1>4
<1>9. Cold(id, t, res)'
  BY <1>3, <1>7, <1>8 DEF Cold
<1> QED
  BY <1>9 DEF res

\* A request for another prompt takes no part in it.
LEMMA PostCold ==
  ASSUME NEW id \in Nat \ {0}, NEW t, NEW results, Cold(id, t, results),
         NEW m, m # id, NEW u, u # t, Post(m, Gate(u))
  PROVE  Cold(id, t, results)'
<1> DEFINE s == [id |-> m, parts |-> Gate(u), hit |-> NotYet]
<1>1. open' = open \cup {s} /\ UNCHANGED <<gpu, store>> /\ seen \subseteq seen'
  BY DEF Post
<1>2. s.id # id /\ Part(t) \notin ToSet(s.parts)
  BY PartsOfGate, PartInjective
<1> HIDE DEF s
<1> QED
  BY <1>1, <1>2 DEF Cold, Scheduled

\* A prompt the server has not seen is posted cold.
LEMMA NewCold ==
  ASSUME PromptInv, NEW id \in Nat \ {0}, id \notin Ids, NEW t, Part(t) \notin seen,
         Post(id, Gate(t))
  PROVE  Cold(id, t, << >>)'
<1> DEFINE s == [id |-> id, parts |-> Gate(t), hit |-> NotYet]
<1>1. /\ open' = open \cup {s} /\ UNCHANGED <<gpu, store>>
      /\ seen' = seen \cup ToSet(Gate(t))
  BY DEF Post
<1>2. s.id = id /\ s.parts = Gate(t) /\ ~Scheduled(s)
  BY DEF Scheduled
<1> HIDE DEF s
<1>3. \A r \in open : r.id # id /\ Part(t) \notin ToSet(r.parts)
  BY DEF PromptInv, Ids
<1>4. Part(t) \in seen' /\ Part(t) \notin gpu /\ Part(t) \notin store
  BY <1>1, PartsOfGate DEF PromptInv
<1>5. ToSet(<< >>) = {}
  BY DEF ToSet
<1> QED
  BY <1>1, <1>2, <1>3, <1>4, <1>5 DEF Cold, Scheduled

-----------------------------------------------------------------------------
\* Without an injector and its tasks there is nothing to keep cold.
LEMMA NoInjection ==
  ASSUME PromptInv', RunFields \subseteq DOMAIN run', run.inj' # "asleep",
         \A id \in 1 .. Len(run.tasks') : run.tasks'[id].kind # "inject"
  PROVE  ColdInv'
BY DEF ColdInv, AloneInv, FreshInv, InjectInv, Injected

\* A process without tasks has none that were injected.
LEMMA NoTasks ==
  ASSUME PromptInv', RunFields \subseteq DOMAIN run', run.inj' # "asleep", Len(run.tasks') = 0
  PROVE  ColdInv'
BY NoInjection

\* A step that leaves the tasks and their rows keeps them cold if it keeps each of
\* them so.
LEMMA TasksStayCold ==
  ASSUME ColdInv, PromptInv', UNCHANGED seen, RunFields \subseteq DOMAIN run',
         run.tasks' = run.tasks, run.results' = run.results, run.bg' = run.bg,
         run.inherited' = run.inherited, run.other' = run.other, run.keep' = run.keep,
         run.i' = run.i, run.inj' = run.inj \/ run.inj' = "ended",
         \A id \in 1 .. Len(run.tasks) :
           Injected(id) /\ Cold(id, run.tasks[id].task, run.results[id]) =>
             Cold(id, run.tasks[id].task, run.results[id])'
  PROVE  ColdInv'
<1>1. AloneInv'
  BY DEF ColdInv, AloneInv, Injected
<1>2. FreshInv'
  BY DEF ColdInv, FreshInv
<1>3. InjectInv'
  <2> SUFFICES ASSUME NEW id \in 1 .. Len(run.tasks), Injected(id),
                      Part(run.tasks[id].task) \notin run.inherited
               PROVE  /\ run.tasks[id].task \notin run.bg
                      /\ Cold(id, run.tasks[id].task, run.results[id])'
    BY DEF InjectInv, Injected
  <2> QED
    BY DEF ColdInv, InjectInv
<1> QED
  BY <1>1, <1>2, <1>3 DEF ColdInv

-----------------------------------------------------------------------------
\* The engine, a reset, and whatever leaves the server alone.
LEMMA EngineKeepsCold ==
  ASSUME JobInv, ColdInv, UNCHANGED seen, RunFields \subseteq DOMAIN run',
         run.tasks' = run.tasks, run.results' = run.results, run.bg' = run.bg,
         run.inherited' = run.inherited, run.other' = run.other, run.keep' = run.keep,
         run.i' = run.i, run.inj' = run.inj \/ run.inj' = "ended",
         \/ \E r : Schedule(r) \/ Abort(r)
         \/ gpu' \subseteq gpu /\ UNCHANGED <<open, store, seen>>
  PROVE  ColdInv'
<1>1. PromptInv'
  BY PromptsKept DEF ColdInv
<1>2. ASSUME NEW id \in 1 .. Len(run.tasks), Cold(id, run.tasks[id].task, run.results[id])
      PROVE  Cold(id, run.tasks[id].task, run.results[id])'
  <2> DEFINE t == run.tasks[id].task
             results == run.results[id]
  <2>1. id \in Nat \ {0} /\ (results # << >> => id \notin Ids)
    BY NamesOfLoad DEF JobInv, TasksInv
  <2>2. ASSUME NEW u, NEW v, Cold(id, u, v), v # << >> => id \notin Ids
        PROVE  Cold(id, u, v)'
    BY <2>1, <2>2, EngineCold DEF JobInv, ColdInv
  <2>3. t' = t /\ results' = results
    OBVIOUS
  <2> HIDE DEF t, results
  <2>4. Cold(id, t, results)'
    <3> DEFINE u == t
    <3> QED
      BY <1>2, <2>1, <2>2, <2>3 DEF t, results, Cold
  <2> QED
    BY <2>4 DEF t, results
<1> QED
  BY <1>1, <1>2, TasksStayCold

\* A process that has no tasks, before and after, cannot spoil an injection.
LEMMA ScriptKeepsCold ==
  ASSUME JobInv, ColdInv, ScriptNext, UNCHANGED run
  PROVE  ColdInv'
<1>1. IsScript /\ ~IsLoad /\ run.main = "off" /\ Len(run.tasks) = 0
  BY ScriptNames, NamesOfLoad
<1>2. PromptInv'
  <2>1. CASE ScriptPost
    BY <2>1, PromptsKept DEF ScriptPost, ColdInv
  <2>2. CASE stream_ttft \/ ScriptSendFails
    <3>1. PICK r \in open : Answered(r) \/ Failed(r)
      BY <2>2 DEF stream_ttft, ScriptSendFails, Mine
    <3> QED
      BY <3>1, PromptsKept DEF ColdInv
  <2>3. CASE ScriptReset \/ ScriptResetFails \/ ScriptRow \/ ScriptRowFails \/ ScriptEnds
    <3>1. gpu' \subseteq gpu /\ UNCHANGED <<open, store, seen>>
      BY <2>3 DEF ScriptReset, ScriptResetFails, ScriptRow, ScriptRowFails, ScriptEnds,
                  reset_prefix_cache, serverVars
    <3> QED
      BY <3>1, PromptsKept DEF ColdInv
  <2> QED
    BY <2>1, <2>2, <2>3 DEF ScriptNext
<1>3. RunFields \subseteq DOMAIN run' /\ run.inj' # "asleep" /\ Len(run.tasks') = 0
  BY <1>1 DEF JobInv, PhaseInv, ColdInv, AloneInv
<1> QED
  BY <1>2, <1>3, NoTasks

\* A server that stops forgets what it has seen, when no process runs.
LEMMA ServersKeepCold ==
  ASSUME JobInv, ColdInv, ServerStarts \/ ServerStartFails \/ Kill \/ PartCloses
  PROVE  ColdInv'
<1>1. CASE PartCloses
  <2>1. ~IsLoad /\ UNCHANGED run
    BY <1>1 DEF PartCloses, PartOver, Idle, IsLoad
  <2>2. PromptInv'
    BY <1>1 DEF PartCloses, PromptInv
  <2>3. RunFields \subseteq DOMAIN run' /\ run.inj' # "asleep" /\ Len(run.tasks') = 0
    BY <2>1, NamesOfLoad DEF JobInv, PhaseInv, ColdInv, AloneInv
  <2> QED
    BY <2>2, <2>3, NoTasks
<1>2. CASE ServerStarts \/ ServerStartFails \/ Kill
  <2>1. UNCHANGED <<gpu, open, store, seen, run>>
    BY <1>2 DEF ServerStarts, ServerStartFails, Kill, serverVars
  <2> QED
    BY <2>1, EngineKeepsCold DEF ColdInv, AloneInv
<1> QED
  BY <1>1, <1>2

\* The injector is given prompts of its own, each once.
LEMMA StartKeepsCold ==
  ASSUME JobInv, ColdInv, JobShape, NextProcess
  PROVE  ColdInv'
<1>1. process = Idle /\ ~IsLoad /\ UNCHANGED <<gpu, open, store, seen>>
  BY DEF NextProcess, Idle, IsLoad, serverVars
<1>2. PromptInv'
  BY <1>1, PromptsKept DEF ColdInv
<1> DEFINE p == Head(processes)
<1>3. CASE UNCHANGED run
  <2>1. RunFields \subseteq DOMAIN run' /\ run.inj' # "asleep" /\ Len(run.tasks') = 0
    BY <1>1, <1>3, NamesOfLoad DEF JobInv, PhaseInv, ColdInv, AloneInv
  <2> QED
    BY <1>2, <2>1, NoTasks
<1>4. CASE ~UNCHANGED run
  <2>1. p.client \in {"loadgen", "bench_q", "real"} /\ StartLoad(p) /\ processes # << >>
    BY <1>4 DEF NextProcess
  <2>2. CASE p.client = "loadgen"
    <3>1. /\ RunFields \subseteq DOMAIN run' /\ run.inj' = "off" /\ run.tasks' = << >>
      BY <1>4, <2>1, <2>2 DEF StartLoad, Off, RunFields
    <3> QED
      BY <1>2, <3>1, NoneIsSeq, NoTasks
  <2>3. CASE p.client # "loadgen"
    <3> DEFINE Given(half, f) ==
          run' = [Off EXCEPT !.points = p.Ns, !.bg = half, !.other = f,
                             !.main = IF p.client = "real" THEN "reset" ELSE "pace",
                             !.inj = IF p.client = "bench_q" THEN "asleep" ELSE "off",
                             !.inherited = seen]
    <3>1. PICK pools \in Pools(p.prompts) : Given(pools.bg, pools.other)
      BY <1>4, <2>1, <2>3 DEF StartLoad
    <3>2. PICK half \in SUBSET p.prompts :
            \E f \in SetToSeqs(p.prompts \ half) : pools = [bg |-> half, other |-> f]
      BY DEF Pools
    <3>3. PICK f \in SetToSeqs(p.prompts \ half) : pools = [bg |-> half, other |-> f]
      BY <3>2
    <3>4. Given(half, f)
      BY <3>1, <3>3
    <3>5. /\ RunFields \subseteq DOMAIN run' /\ run.tasks' = << >> /\ run.keep' = "off"
          /\ run.i' = 0 /\ run.bg' = half /\ run.other' = f /\ run.inherited' = seen
          /\ run.inj' = IF p.client = "bench_q" THEN "asleep" ELSE "off"
      BY <3>4 DEF Off, RunFields
    <3>6. Len(run.tasks') = 0
      BY <3>5, NoneIsSeq
    <3>7. CASE p.client # "bench_q"
      BY <1>2, <3>5, <3>6, <3>7, NoTasks
    <3>8. CASE p.client = "bench_q"
      <4>1. IsFiniteSet(p.prompts)
        BY <2>1, <3>8 DEF JobShape, FiniteProcesses, Sized
      <4> DEFINE rest == p.prompts \ half
                 m == Cardinality(rest)
      <4>2. m \in Nat
        BY <4>1, FS_Difference, FS_CardinalityType
      <4>3. /\ f \in [1 .. m -> rest]
            /\ \A j, k \in 1 .. m : j # k => f[j] # f[k]
        BY DEF SetToSeqs
      <4> HIDE DEF m
      <4>4. Len(f) = m
        BY <4>2, <4>3
      <4>5. /\ Len(f) \in Nat
            /\ \A k \in 1 .. Len(f) : f[k] \notin half
            /\ \A j, k \in 1 .. Len(f) : j # k => f[j] # f[k]
        BY <4>2, <4>3, <4>4
      <4>6. FreshInv'
        BY <1>1, <3>5, <4>5 DEF FreshInv
      <4>7. AloneInv' /\ InjectInv'
        BY <3>5, <3>6 DEF AloneInv, InjectInv
      <4> QED
        BY <1>2, <4>6, <4>7 DEF ColdInv
    <3> QED
      BY <3>7, <3>8
  <2> QED
    BY <2>2, <2>3
<1> QED
  BY <1>3, <1>4

-----------------------------------------------------------------------------
\* What a new task changes.
LEMMA TaskStarted ==
  ASSUME JobInv, ColdInv, run.main \in {"pace", "load"}, NEW kind, NEW t, NEW then,
         \/ then = [run EXCEPT !.main = "load"]
         \/ then = [run EXCEPT !.i = run.i + 1],
         StartTask(kind, t, then), NEW n, n = Len(run.tasks)
  PROVE  /\ n \in Nat /\ n + 1 \notin Ids /\ Post(n + 1, Gate(t))
         /\ Len(run.tasks') = n + 1
         /\ \A id \in 1 .. n : /\ run.tasks'[id] = run.tasks[id]
                               /\ run.results'[id] = run.results[id]
         /\ run.tasks'[n + 1].kind = kind /\ run.tasks'[n + 1].task = t
         /\ run.results'[n + 1] = << >>
         /\ RunFields \subseteq DOMAIN run'
         /\ run.inj' = run.inj /\ run.bg' = run.bg /\ run.other' = run.other
         /\ run.keep' = run.keep /\ run.inherited' = run.inherited
<1>1. /\ IsLoad /\ n \in Nat /\ Len(run.results) = n
      /\ IsSeq(run.tasks) /\ IsSeq(run.results)
      /\ \A x \in Ids : x > 0 => x \in 1 .. n
  BY NamesOfLoad DEF JobInv, TasksInv, PhaseInv
<1>2. RunFields \subseteq DOMAIN run
  BY DEF ColdInv, AloneInv
<1>3. /\ RunFields \subseteq DOMAIN then
      /\ then.tasks = run.tasks /\ then.results = run.results /\ then.inj = run.inj
      /\ then.bg = run.bg /\ then.other = run.other /\ then.keep = run.keep
      /\ then.inherited = run.inherited
  BY <1>2 DEF RunFields
<1>4. /\ RunFields \subseteq DOMAIN run'
      /\ run.tasks' = Append(run.tasks, [kind |-> kind, task |-> t])
      /\ run.results' = Append(run.results, << >>)
      /\ run.inj' = run.inj /\ run.bg' = run.bg /\ run.other' = run.other
      /\ run.keep' = run.keep /\ run.inherited' = run.inherited
  BY <1>3 DEF StartTask, RunFields
<1>5. /\ Len(run.tasks') = n + 1
      /\ \A id \in 1 .. n : run.tasks'[id] = run.tasks[id]
      /\ run.tasks'[n + 1] = [kind |-> kind, task |-> t]
  BY <1>1, <1>4, AppendAny
<1>6. /\ \A id \in 1 .. n : run.results'[id] = run.results[id]
      /\ run.results'[n + 1] = << >>
  BY <1>1, <1>4, AppendAny
<1>7. Post(n + 1, Gate(t)) /\ n + 1 \notin Ids
  BY <1>1 DEF StartTask
<1> QED
  BY <1>1, <1>4, <1>5, <1>6, <1>7

\* A request of the load is for a prompt of the load.
LEMMA LoadStartsCold ==
  ASSUME JobInv, ColdInv, LoadStarts
  PROVE  ColdInv'
<1>1. PICK t \in run.bg : StartTask("bg", t, [run EXCEPT !.main = "load"]) /\ run.main = "pace"
  BY DEF LoadStarts
<1> DEFINE n == Len(run.tasks)
<1>2. /\ n \in Nat /\ n + 1 \notin Ids /\ Post(n + 1, Gate(t))
      /\ Len(run.tasks') = n + 1
      /\ \A id \in 1 .. n : /\ run.tasks'[id] = run.tasks[id]
                            /\ run.results'[id] = run.results[id]
      /\ run.tasks'[n + 1].kind = "bg"
      /\ RunFields \subseteq DOMAIN run'
      /\ run.inj' = run.inj /\ run.bg' = run.bg /\ run.other' = run.other
      /\ run.keep' = run.keep /\ run.inherited' = run.inherited
  BY <1>1, TaskStarted
<1>3. run.i' = run.i
  BY <1>1 DEF StartTask, ColdInv, AloneInv, RunFields
<1> HIDE DEF n
<1>4. PromptInv' /\ seen' = seen \cup {System[1], Part(t)}
  BY <1>2, PromptsKept, PartsOfGate DEF ColdInv, Post
<1>5. AloneInv'
  BY <1>2 DEF ColdInv, AloneInv, Injected, n
<1>6. FreshInv'
  <2> SUFFICES ASSUME run.inj = "asleep", NEW k \in run.i + 1 .. Len(run.other)
               PROVE  Part(run.other[k]) \in run.inherited \/ Part(run.other[k]) \notin seen'
    BY <1>2, <1>3 DEF ColdInv, FreshInv
  <2>1. run.other[k] # t /\ (Part(run.other[k]) \in run.inherited \/ Part(run.other[k]) \notin seen)
    BY DEF ColdInv, FreshInv
  <2> QED
    BY <1>4, <2>1, PartInjective, PartsOfGate
<1>7. InjectInv'
  <2> SUFFICES ASSUME NEW id \in 1 .. n + 1, run.tasks'[id].kind = "inject",
                      Part(run.tasks'[id].task) \notin run.inherited
               PROVE  /\ run.tasks'[id].task \notin run.bg
                      /\ Cold(id, run.tasks[id].task, run.results[id])'
    BY <1>2 DEF InjectInv, Injected
  <2>1. id \in 1 .. n /\ run.tasks'[id] = run.tasks[id] /\ run.results'[id] = run.results[id]
    BY <1>2
  <2> DEFINE u == run.tasks[id].task
             results == run.results[id]
  <2>2. u \notin run.bg /\ Cold(id, u, results) /\ u' = u /\ results' = results
    BY <2>1 DEF ColdInv, InjectInv, Injected, n
  <2> HIDE DEF u, results
  <2>3. id \in Nat \ {0} /\ n + 1 # id /\ t # u
    BY <1>2, <2>1, <2>2
  <2>4. ASSUME NEW x, NEW v, Cold(id, x, v), x = u PROVE Cold(id, x, v)'
    BY <1>2, <2>3, <2>4, PostCold
  <2>5. Cold(id, u, results)'
    BY <2>2, <2>4 DEF Cold
  <2> QED
    BY <2>1, <2>2, <2>5 DEF u, results
<1> QED
  BY <1>4, <1>5, <1>6, <1>7 DEF ColdInv

\* An injection is of a prompt that no request asked for before.
LEMMA InjectorKeepsCold ==
  ASSUME JobInv, ColdInv, InjectorTurn
  PROVE  ColdInv'
<1>1. run.inj = "asleep" /\ run.main \in {"pace", "load"} /\ run.keep = "off"
  BY DEF InjectorTurn, JobInv, PhaseInv, ColdInv, AloneInv
<1>2. CASE ~(~run.over /\ run.i < Len(run.other))
  <2>1. run' = [run EXCEPT !.inj = "ended"] /\ UNCHANGED <<gpu, open, store, seen>>
    BY <1>2 DEF InjectorTurn, serverVars
  <2>2. RunFields \subseteq DOMAIN run
    BY DEF ColdInv, AloneInv
  <2>3. /\ RunFields \subseteq DOMAIN run'
        /\ run.tasks' = run.tasks /\ run.results' = run.results /\ run.bg' = run.bg
        /\ run.inherited' = run.inherited /\ run.other' = run.other /\ run.keep' = run.keep
        /\ run.i' = run.i /\ run.inj' = "ended"
    BY <2>1, <2>2 DEF RunFields
  <2> QED
    BY <2>1, <2>3, EngineKeepsCold
<1>3. CASE ~run.over /\ run.i < Len(run.other)
  <2> DEFINE n == Len(run.tasks)
             t == run.other[run.i + 1]
  <2>1. StartTask("inject", t, [run EXCEPT !.i = run.i + 1])
    BY <1>3 DEF InjectorTurn
  <2>2. /\ n \in Nat /\ n + 1 \notin Ids /\ Post(n + 1, Gate(t))
        /\ Len(run.tasks') = n + 1
        /\ \A id \in 1 .. n : /\ run.tasks'[id] = run.tasks[id]
                              /\ run.results'[id] = run.results[id]
        /\ run.tasks'[n + 1].kind = "inject" /\ run.tasks'[n + 1].task = t
        /\ run.results'[n + 1] = << >>
        /\ RunFields \subseteq DOMAIN run'
        /\ run.inj' = run.inj /\ run.bg' = run.bg /\ run.other' = run.other
        /\ run.keep' = run.keep /\ run.inherited' = run.inherited
    BY <1>1, <2>1, TaskStarted
  <2>3. run.i' = run.i + 1
    BY <2>1 DEF StartTask, ColdInv, AloneInv, RunFields
  <2>4. /\ run.i \in Nat /\ Len(run.other) \in Nat /\ run.i + 1 \in 1 .. Len(run.other)
        /\ \A k \in run.i + 1 .. Len(run.other) :
             /\ run.other[k] \notin run.bg
             /\ Part(run.other[k]) \in run.inherited \/ Part(run.other[k]) \notin seen
        /\ \A j, k \in 1 .. Len(run.other) : j # k => run.other[j] # run.other[k]
    BY <1>1, <1>3 DEF ColdInv, FreshInv
  <2>5. t \notin run.bg /\ (Part(t) \in run.inherited \/ Part(t) \notin seen)
    BY <2>4
  <2>6. \A k \in run.i + 2 .. Len(run.other) : run.other[k] # t
    BY <2>4
  <2> HIDE DEF n, t
  <2>7. PromptInv' /\ seen' = seen \cup {System[1], Part(t)}
    BY <2>2, PromptsKept, PartsOfGate DEF ColdInv, Post
  <2>8. AloneInv'
    BY <1>1, <2>2 DEF AloneInv
  <2>9. FreshInv'
    <3>1. ASSUME NEW k \in run.i + 2 .. Len(run.other)
          PROVE  /\ run.other[k] \notin run.bg
                 /\ Part(run.other[k]) \in run.inherited \/ Part(run.other[k]) \notin seen'
      <4>1. /\ run.other[k] # t /\ run.other[k] \notin run.bg
            /\ Part(run.other[k]) \in run.inherited \/ Part(run.other[k]) \notin seen
        BY <2>4, <2>6
      <4> QED
        BY <2>7, <4>1, PartInjective, PartsOfGate
    <3>2. run.i + 1 \in Nat /\ run.i + 1 + 1 = run.i + 2
      BY <2>4
    <3>3. /\ run.i' \in Nat /\ Len(run.other') \in Nat
          /\ \A j, k \in 1 .. Len(run.other') : j # k => run.other'[j] # run.other'[k]
      BY <2>2, <2>3, <2>4, <3>2
    <3>4. ASSUME NEW k \in run.i' + 1 .. Len(run.other')
          PROVE  /\ run.other'[k] \notin run.bg'
                 /\ Part(run.other'[k]) \in run.inherited' \/ Part(run.other'[k]) \notin seen'
      <4>1. k \in run.i + 2 .. Len(run.other)
        BY <2>2, <2>3, <3>2
      <4> QED
        BY <2>2, <3>1, <4>1
    <3> QED
      BY <3>3, <3>4 DEF FreshInv
  <2>10. InjectInv'
    <3> SUFFICES ASSUME NEW id \in 1 .. n + 1, run.tasks'[id].kind = "inject",
                        Part(run.tasks'[id].task) \notin run.inherited
                 PROVE  /\ run.tasks'[id].task \notin run.bg
                        /\ Cold(id, run.tasks[id].task, run.results[id])'
      BY <2>2 DEF InjectInv, Injected
    <3>1. CASE id = n + 1
      <4>1. Part(t) \notin seen /\ id \in Nat \ {0}
        BY <2>2, <2>5, <3>1
      <4>2. ASSUME NEW x, x = t PROVE Cold(id, x, << >>)'
        BY <2>2, <3>1, <4>1, <4>2, NewCold DEF ColdInv
      <4>3. Cold(id, run.tasks[id].task, run.results[id])'
        BY <2>2, <3>1, <4>2 DEF Cold
      <4> QED
        BY <2>2, <2>5, <3>1, <4>3
    <3>2. CASE id # n + 1
      <4>1. id \in 1 .. n /\ run.tasks'[id] = run.tasks[id] /\ run.results'[id] = run.results[id]
        BY <2>2, <3>2
      <4> DEFINE u == run.tasks[id].task
                 results == run.results[id]
      <4>2. /\ u \notin run.bg /\ Cold(id, u, results) /\ u' = u /\ results' = results
            /\ Part(u) \notin run.inherited
        BY <4>1 DEF ColdInv, InjectInv, Injected, n
      <4> HIDE DEF u, results
      <4>3. id \in Nat \ {0} /\ n + 1 # id /\ t # u
        <5>1. Part(u) \in seen
          BY <4>2 DEF Cold
        <5> QED
          BY <2>2, <2>5, <4>1, <4>2, <5>1
      <4>4. ASSUME NEW x, NEW v, Cold(id, x, v), x = u PROVE Cold(id, x, v)'
        BY <2>2, <4>3, <4>4, PostCold
      <4>5. Cold(id, u, results)'
        BY <4>2, <4>4 DEF Cold
      <4> QED
        BY <4>1, <4>2, <4>5 DEF u, results
    <3> QED
      BY <3>1, <3>2
  <2> QED
    BY <2>7, <2>8, <2>9, <2>10 DEF ColdInv
<1> QED
  BY <1>2, <1>3

\* A row of a task says what its request found; the others stay as they are.
LEMMA RowKeepsCold ==
  ASSUME JobInv, ColdInv, NEW id \in DOMAIN run.tasks, one_request(id)
  PROVE  ColdInv'
<1>1. /\ id \in 1 .. Len(run.tasks) /\ Len(run.tasks) \in Nat
      /\ Len(run.results) = Len(run.tasks) /\ IsSeq(run.results)
  BY NamesOfLoad DEF JobInv, TasksInv
<1>2. PICK r, row :
        /\ r \in OpenAs(id)
        /\ \/ Answered(r) /\ row = r.hit
           \/ Failed(r) /\ row = NotYet
        /\ AppendRow(id, row)
  BY DEF one_request, TaskAnswered, TaskFails
<1>3. r \in open /\ r.id = id /\ id \in Nat \ {0} /\ id \in Ids /\ id # Nobody
  BY <1>1, <1>2 DEF OpenAs, Ids, Nobody
<1>4. run.results[id] = << >>
  BY <1>1, <1>3 DEF JobInv, TasksInv
<1>5. RunFields \subseteq DOMAIN run
  BY DEF ColdInv, AloneInv
<1>6. /\ RunFields \subseteq DOMAIN run'
      /\ run.tasks' = run.tasks /\ run.bg' = run.bg /\ run.inherited' = run.inherited
      /\ run.other' = run.other /\ run.keep' = run.keep /\ run.i' = run.i
      /\ run.inj' = run.inj
      /\ run.results' = [run.results EXCEPT ![id] = Append(<< >>, row)]
  BY <1>2, <1>4, <1>5 DEF AppendRow, RunFields
<1>7. /\ run.results'[id] = Append(<< >>, row)
      /\ \A j \in 1 .. Len(run.tasks) : j # id => run.results'[j] = run.results[j]
  <2> DEFINE one == Append(<< >>, row)
  <2> HIDE DEF one
  <2>1. /\ [run.results EXCEPT ![id] = one][id] = one
        /\ \A j \in 1 .. Len(run.tasks) : j # id =>
             [run.results EXCEPT ![id] = one][j] = run.results[j]
    BY <1>1, ReplaceAny
  <2> QED
    BY <1>6, <2>1 DEF one
<1>8. PromptInv' /\ UNCHANGED seen
  BY <1>2, <1>3, PromptsKept DEF ColdInv, Answered, Failed
<1>9. AloneInv' /\ FreshInv'
  BY <1>6, <1>8 DEF ColdInv, AloneInv, FreshInv, Injected
<1>10. InjectInv'
  <2> SUFFICES ASSUME NEW j \in 1 .. Len(run.tasks), Injected(j),
                      Part(run.tasks[j].task) \notin run.inherited
               PROVE  /\ run.tasks[j].task \notin run.bg
                      /\ Cold(j, run.tasks[j].task, run.results[j])'
    BY <1>6 DEF InjectInv, Injected
  <2> DEFINE u == run.tasks[j].task
             results == run.results[j]
  <2>1. u \notin run.bg /\ Cold(j, u, results) /\ u' = u
    BY <1>6 DEF ColdInv, InjectInv
  <2>2. CASE j = id
    <3> HIDE DEF u
    <3>1. ASSUME NEW x, x = u PROVE Cold(id, x, Append(<< >>, row))'
      <4>1. Cold(id, x, << >>)
        BY <1>4, <2>1, <2>2, <3>1
      <4> QED
        BY <1>2, <1>3, <4>1, OwnReplyCold DEF JobInv, ColdInv
    <3>2. run.results'[j] = Append(<< >>, row)
      BY <1>7, <2>2
    <3> DEFINE one == Append(<< >>, row)
    <3> HIDE DEF one
    <3>3. Cold(id, u, one)'
      BY <2>1, <3>1 DEF Cold, one
    <3>4. Cold(j, u, run.results[j])'
      BY <2>2, <3>2, <3>3 DEF Cold, one
    <3> QED
      BY <2>1, <3>4 DEF u
  <2>3. CASE j # id
    <3>1. results' = results /\ j \in Nat \ {0}
      BY <1>1, <1>7, <2>3
    <3> HIDE DEF u, results
    <3>2. ASSUME NEW x, NEW v, Cold(j, x, v) PROVE Cold(j, x, v)'
      BY <1>2, <1>3, <2>3, <3>1, <3>2, ReplyCold DEF ColdInv
    <3>3. Cold(j, u, results)'
      BY <2>1, <3>1, <3>2 DEF Cold
    <3> QED
      BY <2>1, <3>3 DEF u, results
  <2> QED
    BY <2>2, <2>3
<1> QED
  BY <1>8, <1>9, <1>10 DEF ColdInv

\* A keepalive runs without an injector.
LEMMA KeepaliveKeepsCold ==
  ASSUME JobInv, ColdInv, KeepRuns
  PROVE  ColdInv'
<1>1. RunFields \subseteq DOMAIN run /\ run.keep # "off"
  BY DEF ColdInv, AloneInv, KeepRuns, KeepPost, KeepAnswered, KeepFails, KeepEnds
<1>2. RunFields \subseteq DOMAIN run' /\ run.tasks' = run.tasks /\ run.inj' = run.inj
  BY <1>1 DEF KeepRuns, KeepPost, KeepAnswered, KeepFails, KeepEnds, RunFields
<1>3. PromptInv'
  <2>1. CASE KeepPost
    BY <2>1, PromptsKept DEF KeepPost, ColdInv
  <2>2. CASE KeepAnswered \/ KeepFails
    <3>1. PICK r \in open : Answered(r) \/ Failed(r)
      BY <2>2 DEF KeepAnswered, KeepFails, OpenAs
    <3> QED
      BY <3>1, PromptsKept DEF ColdInv
  <2>3. CASE KeepEnds
    BY <2>3, PromptsKept DEF KeepEnds, serverVars, ColdInv
  <2> QED
    BY <2>1, <2>2, <2>3 DEF KeepRuns
<1> QED
  BY <1>1, <1>2, <1>3, NoInjection DEF ColdInv, AloneInv, Injected

\* The steps of a point before its load.
LEMMA PointKeepsCold ==
  ASSUME JobInv, ColdInv,
         PointReset \/ PostSuspended \/ SuspendedAnswered \/ AllSuspended
  PROVE  ColdInv'
<1>1. run.inj # "asleep" /\ Len(run.tasks) = 0 /\ RunFields \subseteq DOMAIN run
  BY DEF JobInv, PhaseInv, ColdInv, AloneInv, PointReset, PostSuspended, SuspendedAnswered,
         AllSuspended
<1>2. RunFields \subseteq DOMAIN run' /\ run.tasks' = run.tasks /\ run.inj' = run.inj
  BY <1>1 DEF PointReset, PostSuspended, SuspendedAnswered, AllSuspended, RunFields
<1>3. PromptInv'
  <2>1. CASE PostSuspended
    BY <2>1, PromptsKept DEF PostSuspended, ColdInv
  <2>2. CASE SuspendedAnswered
    <3>1. PICK r \in open : Answered(r)
      BY <2>2 DEF SuspendedAnswered, OpenAs
    <3> QED
      BY <3>1, PromptsKept DEF ColdInv
  <2>3. CASE PointReset \/ AllSuspended
    <3>1. gpu' \subseteq gpu /\ UNCHANGED <<open, store, seen>>
      BY <2>3 DEF PointReset, AllSuspended, reset_prefix_cache, serverVars
    <3> QED
      BY <3>1, PromptsKept DEF ColdInv
  <2> QED
    BY <2>1, <2>2, <2>3
<1> QED
  BY <1>1, <1>2, <1>3, NoTasks

\* The steps of the load loop between the requests.
LEMMA LoopKeepsCold ==
  ASSUME JobInv, ColdInv, Elapse \/ LoadTurn \/ LoadEnds \/ Gather
  PROVE  ColdInv'
<1>1. RunFields \subseteq DOMAIN run /\ UNCHANGED <<gpu, open, store, seen>>
  BY DEF ColdInv, AloneInv, Elapse, LoadTurn, LoadEnds, Gather, serverVars
<1>2. /\ RunFields \subseteq DOMAIN run'
      /\ run.tasks' = run.tasks /\ run.results' = run.results /\ run.bg' = run.bg
      /\ run.inherited' = run.inherited /\ run.other' = run.other /\ run.keep' = run.keep
      /\ run.i' = run.i /\ run.inj' = run.inj
  BY <1>1 DEF Elapse, LoadTurn, LoadEnds, Gather, RunFields
<1> QED
  BY <1>1, <1>2, EngineKeepsCold

\* The end of a process, and of a point, leaves no tasks.
LEMMA LastStepKeepsCold ==
  ASSUME JobInv, ColdInv,
         Write \/ PointRowFails \/ PointResetFails \/ SuspendFails \/ LoadRaises \/ Join
  PROVE  ColdInv'
<1>1. PromptInv'
  <2>1. CASE SuspendFails
    <3>1. PICK r \in open : Failed(r)
      BY <2>1 DEF SuspendFails, OpenAs
    <3> QED
      BY <3>1, PromptsKept DEF ColdInv
  <2>2. CASE Write \/ PointRowFails \/ PointResetFails \/ LoadRaises \/ Join
    <3>1. gpu' \subseteq gpu /\ UNCHANGED <<open, store, seen>>
      BY <2>2 DEF Write, PointRowFails, PointResetFails, LoadRaises, Join, reset_prefix_cache,
                  serverVars
    <3> QED
      BY <3>1, PromptsKept DEF ColdInv
  <2> QED
    BY <2>1, <2>2
<1>2. CASE Write \/ PointRowFails \/ PointResetFails \/ SuspendFails \/ LoadRaises
  <2>1. RunFields \subseteq DOMAIN run' /\ run.tasks' = << >> /\ run.inj' = "off"
    BY <1>2 DEF Write, PointRowFails, PointResetFails, SuspendFails, LoadRaises, EndLoad, Off,
                RunFields
  <2> QED
    BY <1>1, <2>1, NoneIsSeq, NoTasks
<1>3. CASE Join /\ Len(run.points) > 1
  <2>1. RunFields \subseteq DOMAIN run' /\ run.tasks' = << >> /\ run.inj' = "off"
    BY <1>3 DEF Join, NextPoint, Off, RunFields
  <2> QED
    BY <1>1, <2>1, NoneIsSeq, NoTasks
<1>4. CASE Join /\ ~(Len(run.points) > 1)
  <2>1. RunFields \subseteq DOMAIN run /\ UNCHANGED <<gpu, open, store, seen>>
    BY <1>4 DEF ColdInv, AloneInv, Join, serverVars
  <2>2. /\ RunFields \subseteq DOMAIN run'
        /\ run.tasks' = run.tasks /\ run.results' = run.results /\ run.bg' = run.bg
        /\ run.inherited' = run.inherited /\ run.other' = run.other /\ run.keep' = run.keep
        /\ run.i' = run.i /\ run.inj' = run.inj
    BY <1>4, <2>1 DEF Join, NextPoint, RunFields
  <2> QED
    BY <2>1, <2>2, EngineKeepsCold
<1> QED
  BY <1>2, <1>3, <1>4

-----------------------------------------------------------------------------
\* A job begins with nothing seen.
LEMMA InitCold == JobInit => ColdInv /\ JobShape
<1> SUFFICES ASSUME JobInit PROVE ColdInv /\ JobShape
  OBVIOUS
<1>1. open = {} /\ gpu = {} /\ store = {} /\ run = Off /\ processes = << >> /\ job \in JobScripts
  BY DEF JobInit, ServerInit
<1>2. RunFields \subseteq DOMAIN run /\ run.keep = "off" /\ run.inj = "off" /\ run.tasks = << >>
  BY <1>1 DEF Off, RunFields
<1>3. Len(run.tasks) = 0
  BY <1>2, NoneIsSeq
<1>4. ColdInv
  BY <1>1, <1>2, <1>3 DEF ColdInv, PromptInv, AloneInv, FreshInv, InjectInv
<1>5. FiniteProcesses(processes)
  <2>1. << >> \in Seq({})
    OBVIOUS
  <2> QED
    BY <1>1, <2>1 DEF FiniteProcesses
<1>6. job \in Seq(ToSet(job)) /\ \A part \in ToSet(job) : FiniteProcesses(part.processes) /\ part.tier # "down"
  BY <1>1, JobAssumption DEF FiniteProcesses, Sized
<1>7. tier = "down"
  BY DEF JobInit, ServerInit
<1> QED
  BY <1>4, <1>5, <1>6, <1>7 DEF JobShape

\* A server comes and goes by the job alone.
LEMMA TierKept ==
  ASSUME ScriptNext \/ LoadNext \/ bench_m2 \/ Builder \/ Engine
  PROVE  tier' = tier
<1>1. CASE ScriptNext
  BY <1>1 DEF ScriptNext, ScriptReset, ScriptResetFails, ScriptPost, stream_ttft, ScriptSendFails,
              ScriptRow, ScriptRowFails, ScriptEnds, reset_prefix_cache, Post, Answered, Failed,
              serverVars
<1>2. CASE LoadStarts \/ InjectorTurn
  BY <1>2 DEF LoadStarts, InjectorTurn, StartTask, Post, serverVars
<1>3. CASE KeepRuns \/ PostSuspended \/ SuspendedAnswered \/ SuspendFails
  BY <1>3 DEF KeepRuns, KeepPost, KeepAnswered, KeepFails, KeepEnds, PostSuspended,
              SuspendedAnswered, SuspendFails, Post, Answered, Failed, serverVars
<1>4. CASE \E id \in DOMAIN run.tasks : one_request(id)
  BY <1>4 DEF one_request, TaskAnswered, TaskFails, Answered, Failed
<1>5. CASE Elapse \/ LoadTurn \/ LoadEnds \/ Gather \/ Write \/ PointReset \/ AllSuspended \/ Join
           \/ PointRowFails \/ PointResetFails \/ LoadRaises
  BY <1>5 DEF Elapse, LoadTurn, LoadEnds, Gather, Write, PointReset, AllSuspended, Join,
              PointRowFails, PointResetFails, LoadRaises, reset_prefix_cache, serverVars
<1>6. CASE bench_m2 \/ Builder \/ Engine
  BY <1>6 DEF bench_m2, Builder, Engine, Schedule, Abort, Evict, serverVars
<1> QED
  BY <1>1, <1>2, <1>3, <1>4, <1>5, <1>6 DEF LoadNext, MainRuns

\* Parts and processes are taken from the front.
LEMMA ShapeKept == JobShape /\ [JobNext]_allVars => JobShape'
<1> SUFFICES ASSUME JobShape, [JobNext]_allVars PROVE JobShape'
  OBVIOUS
<1>1. PICK S : job \in Seq(S) /\ \A part \in S : FiniteProcesses(part.processes) /\ part.tier # "down"
  BY DEF JobShape
<1>2. PICK P : processes \in Seq(P) /\ \A p \in P : Sized(p)
  BY DEF JobShape, FiniteProcesses
<1>3. job # << >> => Head(job) \in S /\ Tail(job) \in Seq(S)
  BY <1>1
<1>4. CASE ServerStarts
  <2>1. job' = job /\ processes' = Head(job).processes /\ Head(job) \in S
    BY <1>3, <1>4 DEF ServerStarts
  <2> QED
    BY <1>1, <1>4, <2>1 DEF JobShape, FiniteProcesses, ServerStarts
<1>5. CASE NextProcess
  <2>1. job' = job /\ tier' = tier /\ processes' \in Seq(P)
    BY <1>2, <1>5 DEF NextProcess, serverVars
  <2> QED
    BY <1>1, <1>2, <2>1 DEF JobShape, FiniteProcesses
<1>6. CASE ServerStartFails
  <2>1. processes' = processes /\ job # << >> /\ tier = "down" /\ Head(job).tier # "down"
    BY <1>1, <1>3, <1>6 DEF ServerStartFails
  <2>2. \/ tier' = Head(job).tier /\ job' = job
        \/ tier' = "down" /\ job' = Tail(job)
    BY <1>6, <2>1 DEF ServerStartFails
  <2>3. job' \in Seq(S) /\ FiniteProcesses(processes)
    BY <1>1, <1>3, <2>1, <2>2 DEF JobShape
  <2> QED
    BY <1>1, <2>1, <2>2, <2>3 DEF JobShape, FiniteProcesses
<1>9. CASE PartCloses
  <2>1. processes' = processes /\ (job # << >> => job' \in Seq(S)) /\ job' = Tail(job)
    BY <1>3, <1>9 DEF PartCloses
  <2>2. job # << >>
    BY <1>9 DEF PartCloses, PartOver, JobShape
  <2>3. tier' = "down"
    BY <1>9 DEF PartCloses
  <2> QED
    BY <1>1, <2>1, <2>2, <2>3 DEF JobShape, FiniteProcesses
<1>10. CASE Kill
  BY <1>10 DEF Kill, serverVars, JobShape, FiniteProcesses
<1>7. CASE UNCHANGED <<jobVars, tier>>
  BY <1>7 DEF jobVars, JobShape, FiniteProcesses
<1>8. CASE Script \/ Of(LoadNext) \/ bench_m2 \/ Builder \/ Engine
  <2>1. tier' = tier
    BY <1>8, TierKept DEF Script, Of
  <2>2. UNCHANGED jobVars
    BY <1>8 DEF Script, Of, bench_m2, Builder, Engine
  <2> QED
    BY <1>7, <2>1, <2>2
<1> QED
  BY <1>4, <1>5, <1>6, <1>7, <1>8, <1>9, <1>10
     DEF JobNext, JobRuns, PartEnds, ServerExits, allVars, serverVars

\* Every step of a job keeps the injections cold.
LEMMA NextCold ==
  ASSUME JobInv, ColdInv, JobShape, [JobNext]_allVars
  PROVE  ColdInv'
<1>1. CASE JobRuns \/ ServerStartFails \/ ServerExits
  BY <1>1, StartKeepsCold, ServersKeepCold DEF JobRuns, PartEnds, ServerExits
<1>2. CASE Script
  BY <1>2, ScriptKeepsCold DEF Script
<1>3. CASE Of(LoadNext)
  <2>1. LoadNext
    BY <1>3 DEF Of
  <2> QED
    BY <2>1, LoadStartsCold, InjectorKeepsCold, RowKeepsCold, KeepaliveKeepsCold,
       PointKeepsCold, LoopKeepsCold, LastStepKeepsCold DEF LoadNext, MainRuns
<1>4. CASE Engine
  <2>1. /\ UNCHANGED <<run, seen>>
        /\ \/ \E r : Schedule(r) \/ Abort(r)
           \/ gpu' \subseteq gpu /\ UNCHANGED <<open, store, seen>>
    BY <1>4 DEF Engine, Schedule, Abort, Evict
  <2> QED
    BY <2>1, EngineKeepsCold DEF ColdInv, AloneInv
<1>5. CASE bench_m2 \/ Builder \/ UNCHANGED allVars
  <2>1. UNCHANGED <<run, gpu, open, store, seen>>
    BY <1>5 DEF bench_m2, Builder, allVars, serverVars
  <2> QED
    BY <2>1, EngineKeepsCold DEF ColdInv, AloneInv
<1> QED
  BY <1>1, <1>2, <1>3, <1>4, <1>5 DEF JobNext

\* What an injection finds cached beyond the system message a process before it on
\* this server has sent (bench_q.py:11-13, 40, 95-102).
THEOREM ColdWithinProcessCorrect == JobSpec => []ColdWithinProcess
<1>1. JobInv /\ ColdInv => ColdWithinProcess
  <2> SUFFICES ASSUME JobInv, ColdInv, NEW id \in DOMAIN run.tasks,
                      run.tasks[id].kind = "inject",
                      NEW hit \in ToSet(run.results[id]), hit.all >= 2
               PROVE  Gate(run.tasks[id].task)[2] \in run.inherited
    BY DEF ColdWithinProcess
  <2>1. id \in 1 .. Len(run.tasks)
    BY NamesOfLoad
  <2>2. Part(run.tasks[id].task) \in run.inherited
    BY <2>1 DEF ColdInv, InjectInv, Injected, Cold
  <2> QED
    BY <2>2, PartsOfGate
<1> QED
  BY <1>1, InitJob, InitCold, NextJob, ShapeKept, NextCold, PTL DEF JobSpec

-----------------------------------------------------------------------------
(* The time of a phase is the time of all its threads: TransfersWhole.     *)

\* A nonempty set of natural numbers has a least element.
LEMMA NatHasMin ==
  ASSUME NEW T, T \subseteq Nat, T # {}
  PROVE  \E x \in T : \A y \in T : x <= y
<1>1. PICK x \in T : \A y \in T : ~(<<y, x>> \in OpToRel(<, Nat))
  BY NatLessThanWellFounded, WFMin
<1>2. \A y \in T : <<y, x>> \in OpToRel(<, Nat) <=> y < x
  BY DEF OpToRel
<1>3. \A y \in T : ~(y < x)
  BY <1>1, <1>2
<1> QED
  BY <1>3

\* A set that contains 0, and with each number its successor up to n, contains all
\* numbers up to n.
LEMMA UpTo ==
  ASSUME NEW n \in Nat, NEW S, 0 \in S,
         \A k \in 0 .. n : k \in S /\ k < n => k + 1 \in S
  PROVE  \A k \in 0 .. n : k \in S
<1> DEFINE missing == {k \in 0 .. n : k \notin S}
<1> SUFFICES ASSUME missing # {} PROVE FALSE
  OBVIOUS
<1>1. PICK x \in missing : \A y \in missing : x <= y
  <2>1. missing \subseteq Nat
    OBVIOUS
  <2> HIDE DEF missing
  <2> QED
    BY <2>1, NatHasMin
<1>2. x \in 0 .. n /\ x # 0 /\ x \notin S
  OBVIOUS
<1>3. x - 1 \in 0 .. n /\ x - 1 \in S
  BY <1>1, <1>2
<1> QED
  BY <1>2, <1>3

\* sum() of a list of bytes
SumOf(s) == FoldLeft(+, 0, s)

\* The sum of n times the same number.
LEMMA SumOfEqual ==
  ASSUME NEW n \in Nat, NEW c \in Int, NEW s, s = [k \in 1 .. n |-> c]
  PROVE  SumOf(s) = c * n
<1> DEFINE g == [P \in SUBSET DOMAIN s |-> c * Cardinality(P)]
           Rec(t) == t = [P \in SUBSET DOMAIN s |->
                            IF P = {} THEN 0 ELSE t[P \ {Max(P)}] + s[Max(P)]]
           table == CHOOSE t : Rec(t)
<1>1. DOMAIN s = 1 .. n /\ (\A k \in 1 .. n : s[k] = c) /\ s \in Seq(Int) /\ Len(s) = n
  <2>1. s \in [1 .. n -> Int]
    OBVIOUS
  <2> QED
    BY <2>1
<1>2. ASSUME NEW P \in SUBSET (1 .. n), P # {}
      PROVE  Max(P) \in P
  <2> DEFINE low == {n - x : x \in P}
  <2>1. PICK y \in low : \A z \in low : y <= z
    <3>0. \A x \in P : n - x \in Nat
      OBVIOUS
    <3>1. low \subseteq Nat /\ low # {}
      BY <1>2, <3>0
    <3> HIDE DEF low
    <3> QED
      BY <3>1, NatHasMin
  <2>2. PICK m \in P : y = n - m
    OBVIOUS
  <2>3. \A x \in P : m >= x
    <3> SUFFICES ASSUME NEW x \in P PROVE m >= x
      OBVIOUS
    <3>1. n - x \in low
      OBVIOUS
    <3>2. n - m <= n - x
      BY <2>1, <2>2, <3>1
    <3> QED
      BY <3>2
  <2> QED
    BY <2>3 DEF Max
<1>3. Rec(g)
  <2>1. ASSUME NEW P \in SUBSET DOMAIN s
        PROVE  g[P] = IF P = {} THEN 0 ELSE g[P \ {Max(P)}] + s[Max(P)]
    <3>1. g[P] = c * Cardinality(P)
      OBVIOUS
    <3>2. CASE P = {}
      BY <3>1, <3>2, FS_EmptySet
    <3>3. CASE P # {}
      <4> DEFINE m == Max(P)
      <4>1. m \in P /\ m \in 1 .. n /\ s[m] = c
        BY <1>1, <1>2, <3>3
      <4> HIDE DEF m
      <4>2. IsFiniteSet(P)
        <5>1. IsFiniteSet(1 .. n)
          BY FS_Interval
        <5> QED
          BY <1>1, <5>1, FS_Subset
      <4>3. Cardinality(P \ {m}) = Cardinality(P) - 1 /\ Cardinality(P) \in Nat
        BY <4>1, <4>2, FS_RemoveElement, FS_CardinalityType
      <4>4. g[P \ {m}] = c * Cardinality(P \ {m})
        OBVIOUS
      <4> DEFINE a == Cardinality(P)
      <4> HIDE DEF g, a
      <4>5. c * a = c * (a - 1) + c
        BY <4>3 DEF a
      <4>6. g[P] = g[P \ {m}] + s[m]
        BY <3>1, <4>1, <4>3, <4>4, <4>5 DEF a
      <4> QED
        BY <3>3, <4>6 DEF m
    <3> QED
      BY <3>2, <3>3
  <2>2. g = [P \in SUBSET DOMAIN s |-> g[P]]
    OBVIOUS
  <2> HIDE DEF g
  <2> QED
    BY <2>1, <2>2
<1>4. Rec(table)
  <2> HIDE DEF Rec
  <2> QED
    BY <1>3
<1>5. SumOf(s) = table[DOMAIN s]
  BY DEF SumOf, FoldLeft, MapThenFoldSet
<1>6. \A P \in SUBSET DOMAIN s : table[P] = IF P = {} THEN 0 ELSE table[P \ {Max(P)}] + s[Max(P)]
  BY <1>4
<1> HIDE DEF table, Rec, g
<1> DEFINE good == {k \in 0 .. n : table[1 .. k] = c * k}
<1>7. 0 \in good
  <2>1. 1 .. 0 = {} /\ {} \in SUBSET DOMAIN s
    OBVIOUS
  <2>2. table[1 .. 0] = 0
    BY <1>6, <2>1
  <2> QED
    BY <2>2
<1>8. ASSUME NEW k \in 0 .. n, k \in good, k < n PROVE k + 1 \in good
  <2> DEFINE l == k + 1
  <2>0. l \in 1 .. n
    BY <1>8
  <2>1. l \in 1 .. n /\ 1 .. l \in SUBSET DOMAIN s /\ 1 .. l # {} /\ l \in 1 .. l
    <3> HIDE DEF l
    <3> QED
      BY <1>1, <2>0
  <2>2. (1 .. l) \ {l} = 1 .. k
    OBVIOUS
  <2>3. c * l = c * k + c
    OBVIOUS
  <2> HIDE DEF l
  <2>4. Max(1 .. l) = l
    <3>1. \A x \in 1 .. l : l >= x
      BY <2>1
    <3>2. \A x \in 1 .. l : (\A y \in 1 .. l : x >= y) => x = l
      BY <2>1
    <3> QED
      BY <2>1, <3>1, <3>2 DEF Max
  <2>5. table[1 .. l] = table[(1 .. l) \ {l}] + s[l]
    BY <1>6, <2>1, <2>4
  <2>6. table[1 .. l] = table[1 .. k] + c
    BY <1>1, <2>1, <2>2, <2>5
  <2>7. table[1 .. l] = c * l
    BY <1>8, <2>3, <2>6
  <2> QED
    BY <2>1, <2>7 DEF l
<1>9. n \in good
  <2> HIDE DEF good
  <2>1. \A k \in 0 .. n : k \in good
    BY <1>7, <1>8, UpTo
  <2> QED
    BY <2>1
<1> QED
  BY <1>1, <1>5, <1>9

\* What O_DIRECT takes
Multiple(n) == \E q \in Int : n = q * ALIGN

\* A multiple of ALIGN is aligned.
LEMMA MultipleAligned ==
  ASSUME NEW n, Multiple(n)
  PROVE  Aligned(n)
<1> DEFINE A == ALIGN
<1>1. PICK q \in Int : n = q * A
  BY DEF Multiple
<1>2. A \in Nat /\ A > 0
  BY TransferAssumption
<1> HIDE DEF A
<1> DEFINE d == n \div A
           m == n % A
<1>3. n \in Int /\ d \in Int /\ m \in 0 .. A - 1 /\ n = A * d + m
  BY <1>1, <1>2
<1> HIDE DEF d, m
<1>4. m = A * (q - d)
  BY <1>1, <1>2, <1>3
<1>5. CASE q - d >= 1
  <2>1. A * (q - d) >= A
    BY <1>2, <1>3, <1>5
  <2> QED
    BY <1>2, <1>3, <1>4, <2>1
<1>6. CASE q - d <= -1
  <2>1. A * (q - d) <= -A
    BY <1>2, <1>3, <1>6
  <2> QED
    BY <1>2, <1>3, <1>4, <2>1
<1>7. CASE q - d = 0
  BY <1>2, <1>4, <1>7 DEF Aligned, m, A
<1> QED
  BY <1>3, <1>5, <1>6, <1>7

\* A thread moves a multiple of ALIGN bytes, and so does each of its calls.
LEMMA SharesAligned ==
  /\ per_thread \in Nat /\ Multiple(per_thread) /\ Multiple(0)
  /\ \A a, b \in Int : Multiple(a) /\ Multiple(b) => Multiple(a + b) /\ Multiple(a - b)
  /\ CHUNK \in Nat \ {0} /\ Multiple(CHUNK)
<1>1. ALIGN \in Nat /\ ALIGN > 0 /\ size_bytes \in Nat /\ nthreads \in Nat /\ nthreads > 0
      /\ CHUNK \in {k * ALIGN : k \in 1 .. CHUNK}
  BY TransferAssumption
<1>2. PICK k \in 1 .. CHUNK : CHUNK = k * ALIGN
  BY <1>1
<1>3. CHUNK \in Nat /\ CHUNK > 0 /\ Multiple(CHUNK)
  <2>1. k \in Int /\ k >= 1
    OBVIOUS
  <2>2. k * ALIGN \in Int /\ k * ALIGN >= 1
    BY <1>1, <2>1
  <2> QED
    BY <1>2, <2>1, <2>2 DEF Multiple
<1>4. per_thread \in Nat /\ Multiple(per_thread)
  <2> DEFINE q == (size_bytes \div nthreads) \div ALIGN
  <2>1. size_bytes \div nthreads \in Nat
    BY <1>1
  <2>2. q \in Nat
    BY <1>1, <2>1
  <2>3. per_thread = q * ALIGN
    BY DEF per_thread
  <2> HIDE DEF q
  <2> QED
    BY <1>1, <2>2, <2>3 DEF Multiple
<1>5. Multiple(0)
  <2>1. 0 = 0 * ALIGN /\ 0 \in Int
    BY <1>1
  <2> QED
    BY <2>1 DEF Multiple
<1>6. ASSUME NEW a \in Int, NEW b \in Int, Multiple(a), Multiple(b)
      PROVE  Multiple(a + b) /\ Multiple(a - b)
  <2>1. PICK p \in Int : a = p * ALIGN
    BY <1>6 DEF Multiple
  <2>2. PICK q \in Int : b = q * ALIGN
    BY <1>6 DEF Multiple
  <2>3. a + b = (p + q) * ALIGN /\ a - b = (p - q) * ALIGN /\ p + q \in Int /\ p - q \in Int
    BY <1>1, <2>1, <2>2
  <2> QED
    BY <2>3 DEF Multiple
<1> QED
  BY <1>3, <1>4, <1>5, <1>6

\* While nothing has failed or fallen short: how far a thread that has started is,
\* and how long its file
Steady(i) ==
  /\ transfer.at[i] = "new" => transfer.off[i] = 0 /\ transfer.moved[i] = 0
  /\ transfer.at[i] = "loop" =>
       /\ transfer.off[i] \in 0 .. per_thread /\ Multiple(transfer.off[i])
       /\ transfer.moved[i] = transfer.off[i]
       /\ transfer.phase = "w" => transfer.length[i] = transfer.off[i]
  /\ transfer.at[i] = "ended" =>
       /\ transfer.moved[i] = per_thread
       /\ transfer.phase = "w" => transfer.length[i] = per_thread
  /\ transfer.phase = "r" => transfer.length[i] = per_thread

TransferFields == {"phase", "rep", "at", "off", "moved", "length", "acc", "faulted"}

TransferType ==
  /\ DOMAIN transfer = TransferFields
  /\ transfer.at \in [Workers -> {"new", "loop", "ended"}]
  /\ transfer.off \in [Workers -> Int] /\ transfer.moved \in [Workers -> Int]
  /\ transfer.length \in [Workers -> Int]
  /\ transfer.faulted \in BOOLEAN

WholeInv ==
  /\ TransferType
  /\ transfer.phase \notin {"w", "r"} => \A i \in Workers : transfer.at[i] = "new"
  /\ ~transfer.faulted =>
       /\ transfer.acc \subseteq {per_thread * nthreads}
       /\ transfer.phase \in {"w", "r"} => \A i \in Workers : Steady(i)

\* The call that a thread in its loop makes next.
LEMMA NextChunk ==
  ASSUME WholeInv, ~transfer.faulted, transfer.phase \in {"w", "r"}, NEW i \in Workers, InLoop(i)
  PROVE  /\ Chunk(i) \in Nat /\ Chunk(i) > 0
         /\ transfer.off[i] \in 0 .. per_thread /\ transfer.off[i] + Chunk(i) \in 0 .. per_thread
         /\ Multiple(transfer.off[i] + Chunk(i))
         /\ Aligned(transfer.off[i]) /\ Aligned(Chunk(i))
<1> DEFINE off == transfer.off[i]
           T == {CHUNK, per_thread - off}
<1>1. off \in 0 .. per_thread /\ Multiple(off) /\ off < per_thread
  BY DEF WholeInv, Steady, InLoop
<1> HIDE DEF off
<1>2. /\ per_thread \in Nat /\ CHUNK \in Nat /\ CHUNK > 0
      /\ Multiple(CHUNK) /\ Multiple(per_thread - off)
  BY <1>1, SharesAligned
<1>3. Min(T) \in T /\ \A x \in T : Min(T) <= x
  <2>1. \E x \in T : \A y \in T : x <= y
    BY <1>1, <1>2
  <2> QED
    BY <2>1 DEF Min
<1>4. Chunk(i) = Min(T)
  BY DEF Chunk, off
<1>5. /\ Chunk(i) \in Nat /\ Chunk(i) > 0 /\ Multiple(Chunk(i))
      /\ off + Chunk(i) \in 0 .. per_thread
  BY <1>1, <1>2, <1>3, <1>4
<1>6. Multiple(off + Chunk(i))
  BY <1>1, <1>5, SharesAligned
<1>7. Aligned(off) /\ Aligned(Chunk(i))
  BY <1>1, <1>5, MultipleAligned
<1> QED
  BY <1>1, <1>5, <1>6, <1>7 DEF off

\* A step of one thread: where it is afterwards, how far, and how long its file is
Moves(i, at, off, moved, length, faulted) ==
  /\ DOMAIN transfer' = DOMAIN transfer
  /\ transfer'.phase = transfer.phase /\ transfer'.acc = transfer.acc
  /\ transfer'.at = [transfer.at EXCEPT ![i] = at]
  /\ transfer'.off = [transfer.off EXCEPT ![i] = off]
  /\ transfer'.moved = [transfer.moved EXCEPT ![i] = moved]
  /\ transfer'.length = [transfer.length EXCEPT ![i] = length]
  /\ transfer'.faulted = faulted

\* It is steady if it leaves that thread so.
LEMMA ThreadMoves ==
  ASSUME WholeInv, NEW i \in Workers, NEW at \in {"new", "loop", "ended"},
         NEW off \in Int, NEW moved \in Int, NEW length \in Int, NEW faulted \in BOOLEAN,
         Moves(i, at, off, moved, length, faulted),
         transfer.faulted => faulted, transfer.phase \in {"w", "r"},
         ~faulted =>
           /\ at = "new" => off = 0 /\ moved = 0
           /\ at = "loop" => /\ off \in 0 .. per_thread /\ Multiple(off) /\ moved = off
                             /\ transfer.phase = "w" => length = off
           /\ at = "ended" => /\ moved = per_thread
                              /\ transfer.phase = "w" => length = per_thread
           /\ transfer.phase = "r" => length = per_thread
  PROVE  WholeInv'
<1>1. /\ transfer.at \in [Workers -> {"new", "loop", "ended"}]
      /\ transfer.off \in [Workers -> Int] /\ transfer.moved \in [Workers -> Int]
      /\ transfer.length \in [Workers -> Int]
  BY DEF WholeInv, TransferType
<1>2. TransferType'
  BY <1>1 DEF WholeInv, TransferType, Moves
<1>3. ASSUME ~faulted, NEW j \in Workers PROVE Steady(j)'
  <2>1. Steady(j)
    BY <1>3 DEF WholeInv
  <2>2. CASE j = i
    <3>1. /\ transfer.at'[j] = at /\ transfer.off'[j] = off /\ transfer.moved'[j] = moved
          /\ transfer.length'[j] = length
      BY <1>1, <2>2 DEF Moves
    <3> QED
      BY <1>3, <3>1 DEF Steady, Multiple, Moves
  <2>3. CASE j # i
    <3>1. /\ transfer.at'[j] = transfer.at[j] /\ transfer.off'[j] = transfer.off[j]
          /\ transfer.moved'[j] = transfer.moved[j] /\ transfer.length'[j] = transfer.length[j]
      BY <1>1, <2>3 DEF Moves
    <3> QED
      BY <2>1, <3>1 DEF Steady, Multiple, Moves
  <2> QED
    BY <2>2, <2>3
<1> QED
  BY <1>2, <1>3 DEF WholeInv, Moves

\* The smaller and the larger of two numbers.
LEMMA OfTwo ==
  ASSUME NEW a \in Int, NEW b \in Int
  PROVE  /\ Min({a, b}) \in Int /\ Min({a, b}) = IF a <= b THEN a ELSE b
         /\ Max({a, b}) \in Int /\ Max({a, b}) = IF a >= b THEN a ELSE b
<1> DEFINE T == {a, b}
<1>1. (\E x \in T : \A y \in T : x <= y) /\ (\E x \in T : \A y \in T : x >= y)
  OBVIOUS
<1>2. Min(T) \in T /\ \A y \in T : Min(T) <= y
  BY <1>1 DEF Min
<1>3. Max(T) \in T /\ \A y \in T : Max(T) >= y
  BY <1>1 DEF Max
<1> DEFINE least == Min(T)
           most == Max(T)
<1>4. least = (IF a <= b THEN a ELSE b) /\ most = (IF a >= b THEN a ELSE b)
  <2>1. /\ least \in {a, b} /\ least <= a /\ least <= b
        /\ most \in {a, b} /\ most >= a /\ most >= b
    BY <1>2, <1>3
  <2> HIDE DEF least, most
  <2> QED
    BY <2>1
<1> QED
  BY <1>4

\* What is more than 0, and 0 otherwise.
LEMMA Above ==
  ASSUME NEW a \in Int
  PROVE  Max({0, a}) \in Int /\ Max({0, a}) = IF 0 >= a THEN 0 ELSE a
<1> DEFINE z == 0
<1>1. z \in Int /\ z = 0
  OBVIOUS
<1> HIDE DEF z
<1>2. Max({z, a}) \in Int /\ Max({z, a}) = IF z >= a THEN z ELSE a
  BY <1>1, OfTwo
<1> QED
  BY <1>1, <1>2

\* What a thread does.
LEMMA WorkerKeeps ==
  ASSUME WholeInv, NEW i \in Workers, WorkerRuns(i)
  PROVE  WholeInv'
<1> DEFINE at == transfer.at[i]
           off == transfer.off[i]
           moved == transfer.moved[i]
           length == transfer.length[i]
           faulted == transfer.faulted
<1>1. TransferType
  BY DEF WholeInv
<1>2. /\ at \in {"new", "loop", "ended"} /\ off \in Int /\ moved \in Int /\ length \in Int
      /\ faulted \in BOOLEAN
  BY <1>1 DEF TransferType
<1>3. /\ per_thread \in Nat /\ ALIGN \in Nat /\ ALIGN > 0 /\ Multiple(0) /\ 0 \in Int
      /\ Missing \in Int /\ CHUNK \in Int
  BY SharesAligned, TransferAssumption DEF Missing
<1>4. transfer.phase \in {"w", "r"} /\ (~faulted => Steady(i))
  <2>1. transfer.phase \notin {"w", "r"} => at = "new"
    BY DEF WholeInv
  <2>2. transfer.phase \in {"w", "r"}
    BY <2>1 DEF WorkerRuns, Open, CallRaises, WriteChunk, ReadChunk, WorkerEnds, InLoop
  <2> QED
    BY <2>2 DEF WholeInv
<1>5. CASE Open(i)
  <2>1. at = "new"
    BY <1>5 DEF Open
  <2>2. \/ transfer.phase = "w" /\ Moves(i, "loop", off, moved, 0, faulted)
        \/ transfer.phase = "r" /\ length # Missing /\ Moves(i, "loop", off, moved, length, faulted)
        \/ transfer.phase = "r" /\ length = Missing /\ Moves(i, "ended", off, moved, length, faulted)
        \/ Moves(i, "ended", off, moved, length, TRUE)
    BY <1>1, <1>4, <1>5 DEF Open, Dies, Moves, TransferType, TransferFields
  <2>3. CASE transfer.phase = "w" /\ Moves(i, "loop", off, moved, 0, faulted)
    BY <1>2, <1>3, <1>4, <2>1, <2>3, ThreadMoves DEF Steady
  <2>4. CASE transfer.phase = "r" /\ length # Missing /\ Moves(i, "loop", off, moved, length, faulted)
    BY <1>2, <1>3, <1>4, <2>1, <2>4, ThreadMoves DEF Steady
  <2>5. CASE transfer.phase = "r" /\ length = Missing /\ Moves(i, "ended", off, moved, length, faulted)
    <3>1. faulted
      BY <1>3, <1>4, <2>5 DEF Steady, Missing
    <3> QED
      BY <1>2, <1>4, <2>5, <3>1, ThreadMoves
  <2>6. CASE Moves(i, "ended", off, moved, length, TRUE)
    BY <1>2, <1>4, <2>6, ThreadMoves
  <2> QED
    BY <2>2, <2>3, <2>4, <2>5, <2>6
<1>6. CASE CallRaises(i)
  <2>1. PICK f \in BOOLEAN : /\ Moves(i, "ended", off, moved, length, f)
                             /\ faulted => f
                             /\ ~f => ~Aligned(off) \/ ~Aligned(Chunk(i))
    <3>1. PICK why \in {"refused", "failed"} :
            /\ why = "refused" => ~Aligned(off) \/ ~Aligned(Chunk(i))
            /\ transfer' = [Dies(i) EXCEPT !.faulted = @ \/ why = "failed"]
      BY <1>6 DEF CallRaises
    <3>2. Moves(i, "ended", off, moved, length, faulted \/ why = "failed")
      BY <1>1, <3>1 DEF Dies, Moves, TransferType, TransferFields
    <3> QED
      BY <1>2, <3>1, <3>2
  <2>2. f
    BY <1>4, <1>6, <2>1, NextChunk DEF CallRaises
  <2> QED
    BY <1>2, <1>4, <2>1, <2>2, ThreadMoves
<1>7. Chunk(i) \in Int
  <2>1. CHUNK \in Int /\ per_thread - off \in Int
    BY <1>2, <1>3
  <2> QED
    BY <2>1, OfTwo DEF Chunk
<1>8. CASE WriteChunk(i)
  <2> DEFINE c == Chunk(i)
  <2>1. transfer.phase = "w" /\ InLoop(i) /\ at = "loop"
    BY <1>8 DEF WriteChunk, InLoop
  <2> HIDE DEF c
  <2>2. PICK n \in {c, c - ALIGN} :
          Moves(i, at, off + c, moved + n, Max({length, off + n}), faulted \/ n < c)
    <3>1. PICK n \in {c, c - ALIGN} :
            transfer' = [transfer EXCEPT !.off[i] = @ + c, !.moved[i] = @ + n,
                           !.length[i] = Max({@, transfer.off[i] + n}),
                           !.faulted = @ \/ n < c]
      BY <1>8 DEF WriteChunk, c
    <3>2. Moves(i, at, off + c, moved + n, Max({length, off + n}), faulted \/ n < c)
      BY <1>1, <3>1 DEF Moves, TransferType, TransferFields
    <3> QED
      BY <3>2
  <2> DEFINE o == off + c
             m == moved + n
             l == Max({length, off + n})
             f == faulted \/ n < c
  <2>3. c \in Int /\ n \in Int /\ o \in Int /\ m \in Int /\ f \in BOOLEAN /\ off + n \in Int
    BY <1>2, <1>3, <1>7 DEF c
  <2>4. l \in Int /\ l = IF length >= off + n THEN length ELSE off + n
    BY <1>2, <2>3, OfTwo
  <2>5. ASSUME ~f
        PROVE  o \in 0 .. per_thread /\ Multiple(o) /\ m = o /\ l = o
    <3>1. n = c /\ ~faulted /\ moved = off /\ length = off
      BY <1>3, <1>4, <2>1, <2>2, <2>3, <2>5 DEF Steady
    <3>2. c > 0 /\ o \in 0 .. per_thread /\ Multiple(o)
      BY <1>4, <2>1, <3>1, NextChunk DEF c
    <3> HIDE DEF l
    <3> QED
      BY <1>2, <2>3, <2>4, <3>1, <3>2
  <2> HIDE DEF o, m, l, f
  <2>6. Moves(i, "loop", o, m, l, f) /\ (faulted => f)
    BY <2>1, <2>2 DEF o, m, l, f
  <2> QED
    BY <1>4, <2>1, <2>3, <2>4, <2>5, <2>6, ThreadMoves
<1>9. CASE ReadChunk(i)
  <2> DEFINE c == Chunk(i)
             left == Max({0, length - off})
             whole == Min({c, left})
             less == Max({0, whole - ALIGN})
  <2>1. transfer.phase = "r" /\ InLoop(i) /\ at = "loop"
    BY <1>9 DEF ReadChunk, InLoop
  <2>2. PICK got \in {whole, less} :
          IF got = 0 THEN transfer' = [Dies(i) EXCEPT !.faulted = @ \/ got < whole]
          ELSE transfer' = [transfer EXCEPT !.off[i] = @ + got, !.moved[i] = @ + got,
                              !.faulted = @ \/ got < whole]
    BY <1>9 DEF ReadChunk
  <2>3. c \in Int /\ left \in Int /\ left >= length - off /\ left >= 0
        /\ left = IF 0 >= length - off THEN 0 ELSE length - off
    <3>1. length - off \in Int
      BY <1>2
    <3> QED
      BY <1>7, <3>1, Above
  <2> HIDE DEF c, left
  <2>4. whole \in {c, left} /\ whole \in Int
    BY <2>3, OfTwo
  <2> HIDE DEF whole
  <2>5. less \in Int
    <3>1. whole - ALIGN \in Int
      BY <1>3, <2>4
    <3> QED
      BY <3>1, Above
  <2> HIDE DEF less
  <2> DEFINE f == faulted \/ got < whole
  <2>6. got \in Int /\ f \in BOOLEAN /\ off + got \in Int /\ moved + got \in Int
    BY <1>2, <2>2, <2>4, <2>5
  <2>7. ASSUME ~f
        PROVE  /\ got # 0 /\ off + got \in 0 .. per_thread /\ Multiple(off + got)
               /\ moved = off /\ length = per_thread
    <3>1. ~faulted /\ moved = off /\ length = per_thread
      BY <1>4, <2>1, <2>7 DEF Steady
    <3>2. /\ c > 0 /\ off + c \in 0 .. per_thread /\ Multiple(off + c)
      BY <1>4, <2>1, <3>1, NextChunk DEF c
    <3>3. whole > 0 /\ less < whole /\ off + whole \in 0 .. per_thread /\ Multiple(off + whole)
      <4>1. left = per_thread - off /\ left > 0 /\ left >= c
        BY <1>2, <1>3, <2>3, <3>1, <3>2
      <4>2. whole = c
        BY <2>3, <4>1, OfTwo DEF whole
      <4>3. whole - ALIGN \in Int /\ whole - ALIGN < whole /\ whole > 0
        BY <1>3, <2>3, <3>2, <4>2
      <4>4. less < whole
        BY <4>3, Above DEF less
      <4> QED
        BY <3>2, <4>2, <4>3, <4>4
    <3>4. got = whole
      BY <2>2, <2>4, <2>7, <3>3
    <3> QED
      BY <3>1, <3>3, <3>4
  <2> HIDE DEF f
  <2>8. faulted => f
    BY DEF f
  <2>9. CASE got = 0
    <3>1. Moves(i, "ended", off, moved, length, f)
      BY <1>1, <2>2, <2>9 DEF Dies, Moves, TransferType, TransferFields, f
    <3> QED
      BY <1>2, <1>4, <2>6, <2>7, <2>8, <2>9, <3>1, ThreadMoves
  <2>10. CASE got # 0
    <3> DEFINE o == off + got
               m == moved + got
    <3>1. Moves(i, "loop", o, m, length, f)
      BY <1>1, <2>1, <2>2, <2>10 DEF Moves, TransferType, TransferFields, f
    <3>2. ~f => /\ o \in 0 .. per_thread /\ Multiple(o) /\ m = o /\ length = per_thread
      BY <2>7
    <3>3. o \in Int /\ m \in Int
      BY <2>6
    <3> HIDE DEF o, m
    <3> QED
      BY <1>2, <1>4, <2>1, <2>6, <2>8, <3>1, <3>2, <3>3, ThreadMoves
  <2> QED
    BY <2>9, <2>10
<1>10. CASE WorkerEnds(i)
  <2>1. at = "loop" /\ off >= per_thread /\ Moves(i, "ended", off, moved, length, faulted)
    BY <1>1, <1>10 DEF WorkerEnds, Dies, Moves, TransferType, TransferFields
  <2>2. ~faulted => /\ moved = per_thread
                    /\ transfer.phase = "w" => length = per_thread
                    /\ transfer.phase = "r" => length = per_thread
    BY <1>2, <1>3, <1>4, <2>1 DEF Steady
  <2> QED
    BY <1>2, <1>4, <2>1, <2>2, ThreadMoves
<1> QED
  BY <1>5, <1>6, <1>8, <1>9, <1>10 DEF WorkerRuns

\* The time that is recorded once all threads have been joined.
LEMMA JoinKeepsWhole ==
  ASSUME WholeInv, JoinAll
  PROVE  WholeInv'
<1> DEFINE sum == SumOf(transfer.moved)
           new == ForAll("new")
           zeros == ForAll(0)
           phase == NextPhase
           rep == IF NextPhase = "w" THEN transfer.rep + 1 ELSE transfer.rep
<1>1. TransferType /\ transfer.phase \in {"w", "r"}
      /\ \A i \in Workers : transfer.at[i] = "ended"
  BY DEF WholeInv, JoinAll, Joined
<1>2. transfer' = [transfer EXCEPT !.phase = phase, !.rep = rep, !.at = new, !.off = zeros,
                     !.moved = zeros, !.acc = @ \cup {sum}]
  BY DEF JoinAll, SumOf
<1>3. /\ phase \in {"w", "r", "unlink"}
      /\ phase = "r" => transfer.phase = "w"
  BY <1>1 DEF NextPhase
<1>4. ~transfer.faulted => sum = per_thread * nthreads
  <2> SUFFICES ASSUME ~transfer.faulted PROVE sum = per_thread * nthreads
    OBVIOUS
  <2>1. \A i \in Workers : transfer.moved[i] = per_thread
    BY <1>1 DEF WholeInv, Steady
  <2>2. transfer.moved = [i \in Workers |-> transfer.moved[i]]
    BY <1>1 DEF TransferType
  <2>3. transfer.moved = [i \in 1 .. nthreads |-> per_thread]
    BY <2>1, <2>2 DEF Workers
  <2>4. nthreads \in Nat /\ per_thread \in Int
    BY TransferAssumption, SharesAligned
  <2> QED
    BY <2>3, <2>4, SumOfEqual
<1>5. /\ new \in [Workers -> {"new", "loop", "ended"}] /\ zeros \in [Workers -> Int]
      /\ \A i \in Workers : new[i] = "new" /\ zeros[i] = 0
  BY DEF ForAll
<1> HIDE DEF sum, new, zeros, phase, rep
<1>6. /\ DOMAIN transfer' = DOMAIN transfer
      /\ transfer'.phase = phase /\ transfer'.at = new /\ transfer'.off = zeros
      /\ transfer'.moved = zeros /\ transfer'.length = transfer.length
      /\ transfer'.acc = transfer.acc \cup {sum} /\ transfer'.faulted = transfer.faulted
  BY <1>1, <1>2 DEF TransferType, TransferFields
<1>7. TransferType'
  BY <1>1, <1>5, <1>6 DEF TransferType
<1>8. transfer'.phase \notin {"w", "r"} => \A i \in Workers : transfer'.at[i] = "new"
  BY <1>5, <1>6
<1>9. ASSUME ~transfer'.faulted, NEW i \in Workers, transfer'.phase \in {"w", "r"}
      PROVE  Steady(i)'
  <2>1. phase = "r" => transfer.length[i] = per_thread
    BY <1>1, <1>3, <1>6, <1>9 DEF WholeInv, Steady
  <2> QED
    BY <1>5, <1>6, <2>1 DEF Steady
<1>10. ~transfer'.faulted => transfer'.acc \subseteq {per_thread * nthreads}
  BY <1>4, <1>6 DEF WholeInv
<1> QED
  BY <1>7, <1>8, <1>9, <1>10 DEF WholeInv

\* Before the benchmark and after it.
LEMMA NoTransfer ==
  /\ transfer = TransferOff => WholeInv
  /\ transfer' = TransferOff => WholeInv'
  /\ StartTransfer => WholeInv'
<1> DEFINE new == ForAll("new")
           zeros == ForAll(0)
           missing == ForAll(Missing)
           Empty(t, phase) ==
             t = [phase |-> phase, rep |-> 1, at |-> new, off |-> zeros, moved |-> zeros,
                  length |-> missing, acc |-> {}, faulted |-> FALSE]
<1>1. /\ new \in [Workers -> {"new", "loop", "ended"}] /\ zeros \in [Workers -> Int]
      /\ missing \in [Workers -> Int]
      /\ \A i \in Workers : new[i] = "new" /\ zeros[i] = 0
  BY DEF ForAll, Missing
<1>2. /\ transfer = TransferOff => Empty(transfer, "off")
      /\ transfer' = TransferOff => Empty(transfer', "off")
      /\ StartTransfer => Empty(transfer', "w")
  BY DEF TransferOff, StartTransfer
<1> HIDE DEF new, zeros, missing
<1>3. ASSUME Empty(transfer, "off") PROVE WholeInv
  BY <1>1, <1>3 DEF WholeInv, TransferType, TransferFields
<1>4. ASSUME NEW phase \in {"off", "w"}, Empty(transfer', phase) PROVE WholeInv'
  BY <1>1, <1>4 DEF WholeInv, TransferType, TransferFields, Steady
<1> QED
  BY <1>2, <1>3, <1>4

\* Every step.
LEMMA NextWhole == WholeInv /\ [JobNext]_allVars => WholeInv'
<1> SUFFICES ASSUME WholeInv, [JobNext]_allVars PROVE WholeInv'
  OBVIOUS
<1>1. CASE transfer' = transfer
  BY <1>1 DEF WholeInv, TransferType, Steady
<1>2. CASE NextProcess
  <2>1. transfer' = transfer \/ StartTransfer
    BY <1>2 DEF NextProcess, localVars
  <2> QED
    BY <1>1, <2>1, NoTransfer
<1>3. CASE bench_m2
  <2>1. JoinAll \/ (\E i \in Workers : WorkerRuns(i)) \/ transfer' = TransferOff
    BY <1>3 DEF bench_m2, TransferEnds
  <2> QED
    BY <2>1, JoinKeepsWhole, WorkerKeeps, NoTransfer
<1>4. CASE JobNext /\ ~NextProcess /\ ~bench_m2
  <2>1. \/ ServerStarts \/ ServerStartFails \/ Kill \/ PartCloses \/ Script \/ Of(LoadNext)
        \/ Builder \/ Engine
    BY <1>4 DEF JobNext, JobRuns, PartEnds, ServerExits
  <2>2. transfer' = transfer
    BY <2>1 DEF ServerStarts, ServerStartFails, Kill, PartCloses, Script, Of, Builder, Engine,
                localVars
  <2> QED
    BY <1>1, <2>2
<1>5. CASE UNCHANGED allVars
  BY <1>1, <1>5 DEF allVars, localVars
<1> QED
  BY <1>2, <1>3, <1>4, <1>5

\* Unless a call of a thread fell short or failed, each time that bench_m2 records is
\* the time of all its threads' bytes (bench_transfer.py:80-83, 94-101, 105-119).
THEOREM TransfersWholeCorrect == JobSpec => []TransfersWhole
<1>1. JobInit => WholeInv
  BY NoTransfer DEF JobInit
<1>2. WholeInv => TransfersWhole
  BY DEF WholeInv, TransfersWhole
<1> QED
  BY <1>1, <1>2, NextWhole, PTL DEF JobSpec

-----------------------------------------------------------------------------
(* A point of the occupancy benchmark starts fresh: PointsStartFresh.      *)

\* What the first request of a point may find, or has not found yet
Fresh(hit) == hit # NotYet => hit.gpu = 0 /\ (tier = "hbm" => hit.all = 0)

\* Where main() and the keepalive are, and the tiers
WhereInv ==
  /\ {"points", "k", "first"} \subseteq DOMAIN run /\ run.k \in Nat \ {0}
  /\ run.main \in {"reset", "send", "join"} => process.client = "real"
  /\ run.keep \in {"awake", "sending"} =>
       process.client = "real" /\ run.main \in {"pace", "load", "gather", "join"}
  /\ tier = "down" => process = Idle /\ processes = << >> /\ open = {}
  /\ tier \in {"down", "hbm"} => store = {}

\* Every request is that of a task or a script, of main() or of the keepalive
Accounted ==
  /\ \A r, q \in open : r.id = q.id => r = q
  /\ \A r \in open :
       \/ r.id > 0
       \/ r.id = Main /\ run.main = "send" /\ run.k <= N
       \/ r.id = Keep /\ run.keep = "sending"

\* From the reset to the end of the first request
FirstInv ==
  /\ process.client = "real" => Fresh(run.first)
  /\ run.main = "send" /\ run.k = 1 =>
       /\ \A r \in open : Fresh(r.hit) /\ \E t : r.parts = Gate(t)
       /\ (\A r \in open : ~Scheduled(r)) => gpu = {}

PointInv == WhereInv /\ (~abandoned => Accounted /\ FirstInv)

-----------------------------------------------------------------------------
\* Between the loads, and when the rows of a point are complete, nobody has a request.
LEMMA NoneOpen ==
  ASSUME JobInv, PointInv, ~abandoned,
         \/ process = Idle
         \/ run.main = "reset" \/ run.main = "write"
         \/ run.main = "join" /\ run.keep = "ended"
  PROVE  open = {}
<1>1. process = Idle => ~IsLoad /\ ~IsScript /\ run.main = "off"
  BY NamesOfLoad DEF Idle, IsLoad, IsScript
<1>2. \A x \in Ids : ~(x > 0)
  BY <1>1, NamesOfLoad, AllAnswered
<1>3. \A r \in open : ~(r.id > 0)
  BY <1>2 DEF Ids
<1>4. run.main # "send" /\ run.keep # "sending"
  BY <1>1 DEF PointInv, WhereInv
<1> QED
  BY <1>3, <1>4 DEF PointInv, Accounted

\* While main() sends the prompts of a point, there is its request and no other.
LEMMA OnlyMain ==
  ASSUME JobInv, PointInv, ~abandoned, run.main = "send"
  PROVE  \A r \in open : r.id = Main
<1>1. \A r \in open : ~(r.id > 0)
  BY AllAnswered DEF Ids
<1>2. run.keep # "sending"
  BY DEF PointInv, WhereInv
<1> QED
  BY <1>1, <1>2 DEF PointInv, Accounted

\* Nothing is found in an empty cache.
LEMMA HeldNothing ==
  ASSUME NEW t
  PROVE  Held(Gate(t), {}) = 0
<1> DEFINE S == {n \in 0 .. Len(Gate(t)) : \A k \in 1 .. n : Gate(t)[k] \in {}}
<1>1. S = {n \in 0 .. 2 : \A k \in 1 .. n : Gate(t)[k] \in {}}
  BY PartsOfGate
<1>2. S = {0}
  BY <1>1
<1> HIDE DEF S
<1>3. (\E x \in S : \A y \in S : x >= y) /\ \A x \in S : x = 0
  BY <1>2
<1>4. Max(S) \in S
  BY <1>3 DEF Max
<1> QED
  BY <1>3, <1>4 DEF Held, S

\* The requests of others come and go beside those of a point.
LEMMA OthersKeep ==
  ASSUME JobInv, PointInv, UNCHANGED <<tier, processes, gpu, store>>,
         ~abandoned' => ~abandoned,
         process' = process,
         {"points", "k", "first"} \subseteq DOMAIN run',
         run.k' = run.k, run.keep' = run.keep, run.points' = run.points, run.first' = run.first,
         \/ run.main' = run.main
         \/ run.main \in {"pace", "load", "gather"}
            /\ \/ run.main' \in {"pace", "load", "gather"}
               \/ run.main' = (IF process.client = "real" THEN "join" ELSE "write"),
         ~abandoned' =>
           \/ open' \subseteq open /\ (run.main = "send" => open' = open)
           \/ \E s : /\ open' = open \cup {s} /\ s.id > 0 /\ s.id \notin Ids
                     /\ run.main # "send",
         tier # "down" \/ open' = open
  PROVE  PointInv'
<1>1. WhereInv'
  BY DEF PointInv, WhereInv
<1>2. ASSUME ~abandoned' PROVE Accounted' /\ FirstInv'
  <2>1. Accounted /\ FirstInv
    BY <1>2 DEF PointInv
  <2>2. run.main' = "send" <=> run.main = "send"
    OBVIOUS
  <2>3. CASE open' \subseteq open /\ (run.main = "send" => open' = open)
    <3>1. Accounted'
      BY <2>1, <2>2, <2>3 DEF Accounted, N
    <3> QED
      BY <2>1, <2>2, <2>3, <3>1 DEF FirstInv, Fresh, Scheduled
  <2>4. CASE ~(open' \subseteq open /\ (run.main = "send" => open' = open))
    <3>1. PICK s : /\ open' = open \cup {s} /\ s.id > 0 /\ s.id \notin Ids
                   /\ run.main # "send"
      BY <1>2, <2>4
    <3>2. Accounted'
      BY <2>1, <2>2, <3>1 DEF Accounted, N, Ids
    <3> QED
      BY <2>1, <2>2, <3>1, <3>2 DEF FirstInv, Fresh
  <2> QED
    BY <2>3, <2>4
<1> QED
  BY <1>1, <1>2 DEF PointInv

\* A request that was answered is gone, and one that failed is, too, or was given up.
LEMMA GoneOrGivenUp ==
  ASSUME NEW r \in open, Answered(r) \/ Failed(r)
  PROVE  /\ UNCHANGED <<tier, gpu, store>>
         /\ ~abandoned' => ~abandoned /\ open' = open \ {r}
         /\ open # {}
BY DEF Answered, Failed

\* The tasks of a load.
LEMMA TasksKeepPoint ==
  ASSUME JobInv, ColdInv, PointInv, UNCHANGED <<processes, localVars>>,
         LoadStarts \/ InjectorTurn \/ \E id \in DOMAIN run.tasks : one_request(id)
  PROVE  PointInv'
<1>1. CASE LoadStarts \/ InjectorTurn
  <2>1. run.main \in {"pace", "load"} /\ IsLoad /\ tier # "down"
    <3>1. run.main \in {"pace", "load"} /\ IsLoad
      BY <1>1 DEF JobInv, PhaseInv, LoadStarts, InjectorTurn
    <3> QED
      BY <3>1 DEF PointInv, WhereInv, IsLoad, Idle
  <2>2. {"points", "k", "first"} \cup RunFields \subseteq DOMAIN run
    BY DEF PointInv, WhereInv, ColdInv, AloneInv
  <2>3. CASE UNCHANGED serverVars
    <3>1. run' = [run EXCEPT !.inj = "ended"] /\ UNCHANGED process
      <4>1. open' = open
        BY <2>3 DEF serverVars
      <4>2. ~(\E kind, t, then : StartTask(kind, t, then))
        <5> SUFFICES ASSUME NEW kind, NEW t, NEW then, StartTask(kind, t, then) PROVE FALSE
          OBVIOUS
        <5> DEFINE x == Len(run.tasks) + 1
        <5>1. x \in Int /\ x > 0 /\ x \notin Ids
          BY <2>1, NamesOfLoad
        <5>2. Post(x, Gate(t))
          BY DEF StartTask
        <5> HIDE DEF x
        <5>3. Ids' = Ids \cup {x}
          BY <5>1, <5>2, PostNames DEF JobInv
        <5> QED
          BY <4>1, <5>1, <5>3 DEF Ids
      <4> QED
        BY <1>1, <4>2 DEF LoadStarts, InjectorTurn, Stays
    <3>2. /\ {"points", "k", "first"} \subseteq DOMAIN run'
          /\ run'.k = run.k /\ run'.keep = run.keep /\ run'.points = run.points
          /\ run'.first = run.first /\ run'.main = run.main
      BY <2>2, <3>1
    <3> QED
      BY <2>1, <2>3, <3>1, <3>2, OthersKeep DEF serverVars
  <2>4. CASE ~UNCHANGED serverVars
    <3>1. PICK kind, t, then : /\ StartTask(kind, t, then)
                               /\ \/ then = [run EXCEPT !.main = "load"]
                                  \/ then = [run EXCEPT !.i = run.i + 1]
      BY <1>1, <2>4 DEF LoadStarts, InjectorTurn
    <3> DEFINE x == Len(run.tasks) + 1
    <3>2. x \in Int /\ x > 0 /\ x \notin Ids
      BY <2>1, NamesOfLoad
    <3>3. Post(x, Gate(t)) /\ UNCHANGED process
      BY <3>1 DEF StartTask, Stays
    <3> HIDE DEF x
    <3>4. /\ {"points", "k", "first"} \subseteq DOMAIN then
          /\ then.k = run.k /\ then.keep = run.keep /\ then.points = run.points
          /\ then.first = run.first
          /\ then.main = run.main \/ then.main = "load"
      BY <2>2, <3>1 DEF RunFields
    <3>5. /\ {"points", "k", "first"} \subseteq DOMAIN run'
          /\ run'.k = run.k /\ run'.keep = run.keep /\ run'.points = run.points
          /\ run'.first = run.first
          /\ run'.main = run.main \/ run'.main = "load"
      BY <3>1, <3>4 DEF StartTask
    <3>6. /\ UNCHANGED <<tier, gpu, store, abandoned>>
      BY <3>3 DEF Post
    <3> DEFINE s == [id |-> x, parts |-> Gate(t), hit |-> NotYet]
    <3>7. open' = open \cup {s} /\ s.id = x
      BY <3>3 DEF Post
    <3> HIDE DEF s
    <3>8. run.main # "send" /\ s.id > 0 /\ s.id \notin Ids
      BY <2>1, <3>2, <3>7
    <3> QED
      BY <2>1, <3>3, <3>5, <3>6, <3>7, <3>8, OthersKeep
  <2> QED
    BY <2>3, <2>4
<1>2. ASSUME NEW id \in DOMAIN run.tasks, one_request(id) PROVE PointInv'
  <2>1. PICK r, hit : r \in OpenAs(id) /\ (Answered(r) \/ Failed(r)) /\ AppendRow(id, hit)
    BY <1>2 DEF one_request, TaskAnswered, TaskFails
  <2>2. r \in open /\ UNCHANGED process
    BY <1>2, <2>1 DEF OpenAs, one_request, TaskAnswered, TaskFails, Stays
  <2>3. run.main # "send"
    <3>1. Len(run.tasks) # 0
      BY NamesOfLoad
    <3> QED
      BY <3>1 DEF JobInv, PhaseInv
  <2>4. /\ {"points", "k", "first"} \subseteq DOMAIN run'
        /\ run'.k = run.k /\ run'.keep = run.keep /\ run'.points = run.points
        /\ run'.first = run.first /\ run'.main = run.main
    BY <2>1 DEF AppendRow, PointInv, WhereInv, ColdInv, AloneInv, RunFields
  <2>5. /\ UNCHANGED <<tier, gpu, store>>
        /\ ~abandoned' => ~abandoned /\ open' = open \ {r}
        /\ tier # "down"
    BY <2>1, <2>2, GoneOrGivenUp DEF PointInv, WhereInv
  <2> QED
    BY <2>2, <2>3, <2>4, <2>5, OthersKeep
<1> QED
  BY <1>1, <1>2

\* The reset empties the GPU, since by then no request is left; with the first answer
\* it is known what the first request found.
LEMMA PointKeepsPoint ==
  ASSUME JobInv, ColdInv, PointInv, UNCHANGED <<processes, localVars>>,
         PointReset \/ PostSuspended \/ SuspendedAnswered \/ AllSuspended
  PROVE  PointInv'
<1>1. /\ run.main \in {"reset", "send"} /\ process.client = "real" /\ tier # "down"
      /\ {"points", "k", "first"} \cup RunFields \subseteq DOMAIN run /\ run.k \in Nat \ {0}
      /\ run.keep \notin {"awake", "sending"} /\ UNCHANGED <<process, tier, store>>
      /\ tier \in {"down", "hbm"} => store = {}
  <2>1. run.main \in {"reset", "send"} /\ UNCHANGED <<process, tier, store>>
    BY DEF PointReset, PostSuspended, SuspendedAnswered, AllSuspended, Stays, reset_prefix_cache,
           Post, Answered, serverVars
  <2>2. process.client = "real" /\ run.keep \notin {"awake", "sending"}
    BY <2>1 DEF PointInv, WhereInv
  <2> QED
    BY <2>1, <2>2 DEF PointInv, WhereInv, Idle, ColdInv, AloneInv
<1>2. CASE PointReset
  <2>1. /\ run'.main = "send" /\ run'.k = run.k /\ run'.keep = run.keep
        /\ run'.points = run.points /\ run'.first = run.first
        /\ {"points", "k", "first"} \subseteq DOMAIN run'
        /\ open' = open /\ abandoned' = abandoned
    BY <1>1, <1>2 DEF PointReset, reset_prefix_cache, RunFields
  <2>2. WhereInv'
    BY <1>1, <2>1 DEF WhereInv
  <2>3. ASSUME ~abandoned' PROVE Accounted' /\ FirstInv'
    <3>1. open = {}
      BY <1>2, <2>1, <2>3, NoneOpen DEF PointReset
    <3>2. gpu' = {}
      BY <1>2, <3>1 DEF PointReset, reset_prefix_cache
    <3>3. Fresh(run.first)
      BY <1>1, <2>1, <2>3 DEF PointInv, FirstInv
    <3> QED
      BY <1>1, <2>1, <3>1, <3>2, <3>3 DEF Accounted, FirstInv, Fresh
  <2> QED
    BY <2>2, <2>3 DEF PointInv
<1>3. CASE PostSuspended
  <2> DEFINE t == run.other[run.k]
             s == [id |-> Main, parts |-> Gate(t), hit |-> NotYet]
  <2>1. /\ run' = run /\ abandoned' = abandoned /\ gpu' = gpu /\ open' = open \cup {s}
        /\ run.main = "send" /\ run.k <= N /\ OpenAs(Main) = {}
    BY <1>3 DEF PostSuspended, Post
  <2>2. s.id = Main /\ s.parts = Gate(t) /\ s.hit = NotYet
    OBVIOUS
  <2> HIDE DEF s
  <2>3. WhereInv'
    BY <1>1, <2>1 DEF WhereInv
  <2>4. ASSUME ~abandoned' PROVE Accounted' /\ FirstInv'
    <3>1. open = {}
      BY <2>1, <2>4, OnlyMain DEF OpenAs
    <3>2. open' = {s}
      BY <2>1, <3>1
    <3>3. Fresh(run.first) /\ (run.k = 1 => gpu = {})
      BY <1>1, <2>1, <2>4, <3>1 DEF PointInv, FirstInv
    <3>4. Accounted'
      BY <2>1, <2>2, <3>2 DEF Accounted, N
    <3> QED
      BY <1>1, <2>1, <2>2, <3>2, <3>3, <3>4 DEF FirstInv, Fresh
  <2> QED
    BY <2>3, <2>4 DEF PointInv
<1>4. CASE SuspendedAnswered
  <2>1. PICK r \in OpenAs(Main) :
          /\ Answered(r)
          /\ run' = [run EXCEPT !.k = run.k + 1, !.first = IF run.k = 1 THEN r.hit ELSE run.first]
    BY <1>4 DEF SuspendedAnswered
  <2>2. /\ run'.main = run.main /\ run'.k = run.k + 1 /\ run'.keep = run.keep
        /\ run'.points = run.points /\ run'.first = IF run.k = 1 THEN r.hit ELSE run.first
        /\ {"points", "k", "first"} \subseteq DOMAIN run'
    BY <1>1, <2>1 DEF RunFields
  <2>3. r \in open /\ r.id = Main /\ run.main = "send" /\ open' = open \ {r}
        /\ abandoned' = abandoned
    BY <1>4, <2>1 DEF OpenAs, Answered, SuspendedAnswered
  <2>4. WhereInv'
    BY <1>1, <2>2, <2>3 DEF WhereInv
  <2>5. ASSUME ~abandoned' PROVE Accounted' /\ FirstInv'
    <3>1. open' = {}
      BY <2>3, <2>5, OnlyMain DEF PointInv, Accounted
    <3>2. Fresh(run.first) /\ (run.k = 1 => Fresh(r.hit))
      BY <1>1, <2>3, <2>5 DEF PointInv, FirstInv
    <3> QED
      BY <1>1, <2>2, <3>1, <3>2 DEF Accounted, FirstInv, Fresh
  <2> QED
    BY <2>4, <2>5 DEF PointInv
<1>5. CASE AllSuspended
  <2> DEFINE keep == IF N = 0 THEN "ended" ELSE "awake"
  <2>1. /\ run' = [run EXCEPT !.main = "pace", !.keep = keep]
        /\ run.main = "send" /\ ~(run.k <= N) /\ UNCHANGED <<open, gpu, abandoned>>
    BY <1>5 DEF AllSuspended, serverVars
  <2>2. /\ run'.main = "pace" /\ run'.k = run.k /\ run'.keep \in {"ended", "awake"}
        /\ run'.points = run.points /\ run'.first = run.first
        /\ {"points", "k", "first"} \subseteq DOMAIN run'
    BY <1>1, <2>1 DEF RunFields
  <2>3. WhereInv'
    BY <1>1, <2>2 DEF WhereInv
  <2>4. ASSUME ~abandoned' PROVE Accounted' /\ FirstInv'
    <3>1. \A r \in open : r.id = Main /\ Main = -1 /\ Keep = -2
      BY <2>1, <2>4, OnlyMain DEF Main, Keep
    <3>2. open = {}
      BY <1>1, <2>1, <2>4, <3>1 DEF PointInv, Accounted
    <3> QED
      BY <1>1, <2>1, <2>2, <2>4, <3>2 DEF PointInv, Accounted, FirstInv, Fresh
  <2> QED
    BY <2>3, <2>4 DEF PointInv
<1> QED
  BY <1>2, <1>3, <1>4, <1>5

\* The keepalive has a request while it sends, and no other then.
LEMMA KeepaliveKeepsPoint ==
  ASSUME JobInv, ColdInv, PointInv, UNCHANGED <<processes, localVars>>, KeepRuns
  PROVE  PointInv'
<1>1. /\ run.main \in {"pace", "load", "gather", "join"} /\ process.client = "real"
      /\ tier # "down" /\ UNCHANGED <<process, tier, store>>
      /\ {"points", "k", "first"} \cup RunFields \subseteq DOMAIN run /\ run.k \in Nat \ {0}
      /\ tier \in {"down", "hbm"} => store = {}
  <2>1. run.keep \in {"awake", "sending"} /\ UNCHANGED <<process, tier, store>>
    BY DEF KeepRuns, KeepPost, KeepAnswered, KeepFails, KeepEnds, Stays, Post, Answered, Failed,
           serverVars
  <2> QED
    BY <2>1 DEF PointInv, WhereInv, Idle, ColdInv, AloneInv
<1>2. ASSUME /\ run'.main = run.main /\ run'.k = run.k
             /\ run'.points = run.points /\ run'.first = run.first
             /\ {"points", "k", "first"} \subseteq DOMAIN run',
             ~abandoned' => ~abandoned /\ Accounted'
      PROVE  PointInv'
  <2>1. WhereInv'
    BY <1>1, <1>2 DEF WhereInv
  <2>2. ~abandoned' => FirstInv'
    BY <1>1, <1>2 DEF PointInv, FirstInv, Fresh
  <2> QED
    BY <1>2, <2>1, <2>2 DEF PointInv
<1>3. CASE KeepPost
  <2> DEFINE t == run.other[run.j + 1]
             s == [id |-> Keep, parts |-> Gate(t), hit |-> NotYet]
             j == (run.j + 1) % N
  <2>1. /\ run' = [run EXCEPT !.keep = "sending", !.j = j] /\ run.keep = "awake"
        /\ abandoned' = abandoned /\ open' = open \cup {s}
    BY <1>3 DEF KeepPost, Post
  <2>2. s.id = Keep /\ Keep = -2
    BY DEF Keep
  <2> HIDE DEF s, j
  <2>3. /\ run'.main = run.main /\ run'.k = run.k /\ run'.keep = "sending"
        /\ run'.points = run.points /\ run'.first = run.first
        /\ {"points", "k", "first"} \subseteq DOMAIN run'
    BY <1>1, <2>1 DEF RunFields
  <2>4. ASSUME ~abandoned' PROVE Accounted'
    <3>1. \A r \in open : r.id # Keep
      BY <2>1, <2>2, <2>4 DEF PointInv, Accounted, Main
    <3> QED
      BY <1>1, <2>1, <2>2, <2>3, <2>4, <3>1 DEF PointInv, Accounted, N
  <2> QED
    BY <1>2, <2>1, <2>3, <2>4
<1>4. CASE KeepAnswered \/ KeepFails
  <2>1. PICK r \in open : /\ r.id = Keep /\ (Answered(r) \/ Failed(r))
                          /\ run' = [run EXCEPT !.keep = "awake"]
    BY <1>4 DEF KeepAnswered, KeepFails, OpenAs
  <2>2. /\ run'.main = run.main /\ run'.k = run.k /\ run'.keep = "awake"
        /\ run'.points = run.points /\ run'.first = run.first
        /\ {"points", "k", "first"} \subseteq DOMAIN run'
    BY <1>1, <2>1 DEF RunFields
  <2>3. ASSUME ~abandoned' PROVE ~abandoned /\ Accounted'
    <3>1. ~abandoned /\ open' = open \ {r}
      BY <2>1, <2>3, GoneOrGivenUp
    <3>2. \A q \in open' : q.id # Keep
      BY <2>1, <3>1 DEF PointInv, Accounted
    <3> QED
      BY <1>1, <2>2, <3>1, <3>2 DEF PointInv, Accounted
  <2> QED
    BY <1>2, <2>2, <2>3
<1>5. CASE KeepEnds
  <2>1. /\ run' = [run EXCEPT !.keep = "ended"] /\ run.keep = "awake"
        /\ UNCHANGED <<open, abandoned>>
    BY <1>5 DEF KeepEnds, serverVars
  <2>2. /\ run'.main = run.main /\ run'.k = run.k /\ run'.keep = "ended"
        /\ run'.points = run.points /\ run'.first = run.first
        /\ {"points", "k", "first"} \subseteq DOMAIN run'
    BY <1>1, <2>1 DEF RunFields
  <2>3. ~abandoned' => ~abandoned /\ Accounted'
    BY <1>1, <2>1, <2>2 DEF PointInv, Accounted
  <2> QED
    BY <1>2, <2>2, <2>3
<1> QED
  BY <1>3, <1>4, <1>5 DEF KeepRuns

\* The steps of the load loop between the requests.
LEMMA LoopKeepsPoint ==
  ASSUME JobInv, ColdInv, PointInv, UNCHANGED <<processes, localVars>>,
         Elapse \/ LoadTurn \/ LoadEnds \/ Gather
  PROVE  PointInv'
<1>1. /\ {"points", "k", "first"} \cup RunFields \subseteq DOMAIN run
      /\ UNCHANGED <<serverVars, process>>
      /\ run.main \in {"pace", "load", "gather"}
  BY DEF PointInv, WhereInv, ColdInv, AloneInv, Elapse, LoadTurn, LoadEnds, Gather, Stays
<1>2. /\ run'.k = run.k /\ run'.keep = run.keep
      /\ run'.points = run.points /\ run'.first = run.first
      /\ {"points", "k", "first"} \subseteq DOMAIN run'
      /\ \/ run'.main \in {"pace", "load", "gather"}
         \/ run'.main = IF process.client = "real" THEN "join" ELSE "write"
  <2>1. CASE Elapse
    BY <1>1, <2>1 DEF Elapse, RunFields
  <2>2. CASE LoadTurn
    BY <1>1, <2>2 DEF LoadTurn, RunFields
  <2>3. CASE LoadEnds
    BY <1>1, <2>3 DEF LoadEnds, RunFields
  <2>4. CASE Gather
    BY <1>1, <2>4 DEF Gather, RunFields
  <2> QED
    BY <2>1, <2>2, <2>3, <2>4
<1> QED
  BY <1>1, <1>2, OthersKeep DEF serverVars

\* A process that has nothing to do with the occupancy benchmark, or none, while
\* nobody has a request but a script.
LEMMA IdleKeepsPoint ==
  ASSUME {"points", "k", "first"} \subseteq DOMAIN run', run'.k \in Nat \ {0},
         run'.main \notin {"reset", "send", "join"}, run'.keep \notin {"awake", "sending"},
         tier' = "down" => process' = Idle /\ processes' = << >> /\ open' = {},
         tier' \in {"down", "hbm"} => store' = {},
         process'.client = "real" => run'.first = NotYet,
         ~abandoned' => /\ \A r, q \in open' : r.id = q.id => r = q
                        /\ \A r \in open' : r.id > 0
  PROVE  PointInv'
<1>1. WhereInv'
  BY DEF WhereInv
<1>2. ~abandoned' => Accounted' /\ FirstInv'
  BY DEF Accounted, FirstInv, Fresh
<1> QED
  BY <1>1, <1>2 DEF PointInv

\* The end of a process, and of a point.
LEMMA EndsKeepPoint ==
  ASSUME JobInv, ColdInv, PointInv, UNCHANGED <<processes, localVars>>,
         Write \/ PointRowFails \/ PointResetFails \/ SuspendFails \/ LoadRaises \/ Join
  PROVE  PointInv'
<1>1. /\ IsLoad /\ tier # "down" /\ UNCHANGED <<tier, store>>
      /\ tier \in {"down", "hbm"} => store = {}
  <2>1. IsLoad /\ UNCHANGED <<tier, store>>
    BY DEF JobInv, PhaseInv, Write, PointRowFails, PointResetFails, SuspendFails, LoadRaises,
           Join, serverVars, reset_prefix_cache, Failed
  <2> QED
    BY <2>1 DEF PointInv, WhereInv, IsLoad, Idle
<1>2. ~abandoned' => ~abandoned /\ open' = {}
  <2>1. CASE Write \/ PointRowFails \/ PointResetFails \/ Join
    BY <2>1, NoneOpen DEF Write, PointRowFails, PointResetFails, Join, serverVars,
                          reset_prefix_cache
  <2>3. CASE LoadRaises
    <3>1. run.main = "send" /\ ~(run.k <= N) /\ UNCHANGED <<open, abandoned>>
      BY <2>3 DEF LoadRaises, serverVars
    <3>2. \A r \in open : ~(r.id > 0)
      BY <3>1, AllAnswered DEF Ids
    <3>3. run.keep # "sending"
      BY <3>1 DEF PointInv, WhereInv
    <3> QED
      BY <3>1, <3>2, <3>3 DEF PointInv, Accounted
  <2>2. CASE SuspendFails
    <3>1. PICK r \in open : r.id = Main /\ Failed(r) /\ run.main = "send"
      BY <2>2 DEF SuspendFails, OpenAs
    <3> SUFFICES ASSUME ~abandoned' PROVE ~abandoned /\ open' = {}
      OBVIOUS
    <3>2. ~abandoned /\ open' = open \ {r}
      BY <3>1, GoneOrGivenUp
    <3>3. open = {r}
      BY <3>1, <3>2, OnlyMain DEF PointInv, Accounted
    <3> QED
      BY <3>2, <3>3
  <2> QED
    BY <2>1, <2>2, <2>3
<1>3. CASE EndLoad
  <2>1. /\ process' = Idle /\ run'.main = "off" /\ run'.keep = "off" /\ run'.k = 1
        /\ {"points", "k", "first"} \subseteq DOMAIN run'
    BY <1>3 DEF EndLoad, Off
  <2> QED
    BY <1>1, <1>2, <2>1, IdleKeepsPoint DEF Idle
<1>4. CASE Join
  <2>1. /\ UNCHANGED process /\ NextPoint /\ run.main = "join" /\ run.keep = "ended"
        /\ gpu' = gpu /\ process.client \in {"loadgen", "bench_q", "real"}
    BY <1>1, <1>4 DEF Join, Stays, serverVars, IsLoad
  <2>2. CASE Len(run.points) > 1
    <3>1. /\ run'.main = "reset" /\ run'.keep = "off" /\ run'.k = 1 /\ run'.first = NotYet
          /\ {"points", "k", "first"} \subseteq DOMAIN run'
      BY <2>1, <2>2 DEF NextPoint, Off
    <3>2. process.client = "real"
      BY <2>1 DEF PointInv, WhereInv
    <3>3. WhereInv'
      BY <1>1, <2>1, <3>1, <3>2 DEF WhereInv
    <3>4. ~abandoned' => Accounted' /\ FirstInv'
      BY <1>2, <3>1 DEF Accounted, FirstInv, Fresh
    <3> QED
      BY <3>3, <3>4 DEF PointInv
  <2>3. CASE ~(Len(run.points) > 1)
    <3>1. /\ run'.main = "write" /\ run'.keep = run.keep /\ run'.k = run.k
          /\ run'.points = run.points /\ run'.first = run.first
          /\ {"points", "k", "first"} \subseteq DOMAIN run'
      BY <2>1, <2>3 DEF NextPoint, PointInv, WhereInv, ColdInv, AloneInv, RunFields
    <3>2. WhereInv'
      BY <1>1, <2>1, <3>1 DEF PointInv, WhereInv
    <3>3. ~abandoned' => Accounted' /\ FirstInv'
      BY <1>1, <1>2, <2>1, <3>1 DEF PointInv, Accounted, FirstInv, Fresh
    <3> QED
      BY <3>2, <3>3 DEF PointInv
  <2> QED
    BY <2>2, <2>3
<1> QED
  BY <1>3, <1>4 DEF Write, PointRowFails, PointResetFails, SuspendFails, LoadRaises

\* A script has one request at a time.
LEMMA ScriptKeepsPoint ==
  ASSUME JobInv, PointInv, ScriptNext, UNCHANGED <<run, processes>>
  PROVE  PointInv'
<1>1. /\ IsScript /\ run.main = "off" /\ (process' = process \/ process' = Idle)
      /\ AskedOnce' /\ process.client # "real" /\ process # Idle
  BY ScriptNames, NamesOfLoad DEF IsScript, IsLoad, Idle
<1>2. /\ tier # "down" /\ tier' = tier /\ store' = store /\ (tier \in {"down", "hbm"} => store = {})
      /\ {"points", "k", "first"} \subseteq DOMAIN run /\ run.k \in Nat \ {0}
      /\ run.keep \notin {"awake", "sending"}
  <2>1. tier' = tier /\ store' = store
    BY DEF ScriptNext, ScriptReset, ScriptResetFails, ScriptPost, stream_ttft, ScriptSendFails,
           ScriptRow, ScriptRowFails, ScriptEnds, reset_prefix_cache, Post, Answered, Failed,
           serverVars
  <2> QED
    BY <1>1, <2>1 DEF PointInv, WhereInv
<1>3. ASSUME ~abandoned' PROVE \A r \in open' : r.id > 0
  <2>1. ~abandoned => \A r \in open : r.id > 0
    BY <1>1, <1>2 DEF PointInv, Accounted
  <2>2. CASE ScriptPost
    <3> DEFINE s == [id |-> Me, parts |-> Head(todo).parts, hit |-> NotYet]
    <3>1. open' = open \cup {s} /\ abandoned' = abandoned
      BY <2>2 DEF ScriptPost, Post
    <3>2. s.id > 0
      BY DEF Me
    <3> HIDE DEF s
    <3> QED
      BY <1>3, <2>1, <3>1, <3>2
  <2>3. CASE stream_ttft \/ ScriptSendFails
    <3>1. PICK r \in open : Answered(r) \/ Failed(r)
      BY <2>3 DEF stream_ttft, ScriptSendFails, Mine
    <3> QED
      BY <1>3, <2>1, <3>1, GoneOrGivenUp
  <2>4. CASE ScriptReset \/ ScriptResetFails \/ ScriptRow \/ ScriptRowFails \/ ScriptEnds
    <3>1. UNCHANGED <<open, abandoned>>
      BY <2>4 DEF ScriptReset, ScriptResetFails, ScriptRow, ScriptRowFails, ScriptEnds,
                  reset_prefix_cache, serverVars
    <3> QED
      BY <1>3, <2>1, <3>1
  <2> QED
    BY <2>2, <2>3, <2>4 DEF ScriptNext
<1>4. ~abandoned' => \A r, q \in open' : r.id = q.id => r = q
  BY <1>1, <1>3 DEF AskedOnce
<1> QED
  BY <1>1, <1>2, <1>3, <1>4, IdleKeepsPoint DEF Idle

\* A process starts when nobody has a request.
LEMMA StartKeepsPoint ==
  ASSUME JobInv, ColdInv, PointInv, NextProcess
  PROVE  PointInv'
<1>1. /\ process = Idle /\ processes # << >> /\ run.main = "off"
      /\ UNCHANGED <<tier, gpu, open, store, abandoned>>
  BY NamesOfLoad DEF NextProcess, Idle, IsLoad, serverVars
<1>2. tier # "down" /\ (tier \in {"down", "hbm"} => store = {}) /\ (~abandoned => open = {})
  BY <1>1, NoneOpen DEF PointInv, WhereInv
<1> DEFINE p == Head(processes)
<1>3. CASE UNCHANGED run
  <2>1. process' = process \/ process'.client # "real"
    BY <1>1, <1>3 DEF NextProcess, StartScript, StartLoad, Off
  <2>2. process'.client # "real"
    BY <1>1, <2>1 DEF Idle
  <2> QED
    BY <1>1, <1>2, <1>3, <2>2, IdleKeepsPoint DEF PointInv, WhereInv
<1>4. CASE ~UNCHANGED run
  <2>1. p.client \in {"loadgen", "bench_q", "real"} /\ StartLoad(p) /\ process' = p
    BY <1>4 DEF NextProcess, StartLoad
  <2>2. /\ {"points", "k", "first"} \subseteq DOMAIN run'
        /\ run'.k = 1 /\ run'.keep = "off" /\ run'.first = NotYet
        /\ run'.main = IF p.client = "real" THEN "reset" ELSE "pace"
    <3>1. CASE p.client = "loadgen"
      BY <1>4, <2>1, <3>1 DEF StartLoad, Off
    <3>2. CASE p.client # "loadgen"
      <4>1. PICK pools \in Pools(p.prompts) :
              run' = [Off EXCEPT !.points = p.Ns, !.bg = pools.bg, !.other = pools.other,
                                 !.main = IF p.client = "real" THEN "reset" ELSE "pace",
                                 !.inj = IF p.client = "bench_q" THEN "asleep" ELSE "off",
                                 !.inherited = seen]
        BY <1>4, <2>1, <3>2 DEF StartLoad
      <4> QED
        BY <4>1 DEF Off
    <3> QED
      BY <3>1, <3>2
  <2>3. WhereInv'
    BY <1>1, <1>2, <2>1, <2>2 DEF WhereInv
  <2>4. ~abandoned' => Accounted' /\ FirstInv'
    BY <1>1, <1>2, <2>2 DEF Accounted, FirstInv, Fresh
  <2> QED
    BY <2>3, <2>4 DEF PointInv
<1> QED
  BY <1>3, <1>4

\* A server comes and goes when no process runs.
LEMMA ServersKeepPoint ==
  ASSUME JobInv, JobShape, PointInv, ServerStarts \/ ServerStartFails \/ Kill \/ PartCloses
  PROVE  PointInv'
<1>1. CASE UNCHANGED <<serverVars, process, run, processes>>
  BY <1>1 DEF PointInv, WhereInv, Accounted, FirstInv, Fresh, Scheduled, serverVars, N
<1>2. CASE PartCloses \/ (UNCHANGED <<open, store>> /\ tier = "down" /\ tier' # "down")
  <2>1. process = Idle /\ process' = Idle /\ run' = run /\ run.main = "off"
    <3>1. process = Idle
      BY <1>2 DEF PartCloses, PartOver, PointInv, WhereInv
    <3> QED
      BY <3>1, NamesOfLoad DEF ServerStarts, ServerStartFails, Kill, PartCloses, Idle, IsLoad
  <2>2. open' = {} /\ (tier' \in {"down", "hbm"} => store' = {}) /\ (tier' = "down" => processes' = << >>)
    <3>1. CASE PartCloses
      BY <3>1 DEF PartCloses, PartOver
    <3>2. CASE UNCHANGED <<open, store>> /\ tier = "down" /\ tier' # "down"
      BY <3>2 DEF PointInv, WhereInv
    <3> QED
      BY <1>2, <3>1, <3>2
  <2>3. /\ {"points", "k", "first"} \subseteq DOMAIN run' /\ run'.k \in Nat \ {0}
        /\ run'.keep \notin {"awake", "sending"}
    BY <2>1 DEF PointInv, WhereInv
  <2> QED
    BY <2>1, <2>2, <2>3, IdleKeepsPoint DEF Idle
<1>3. CASE ServerStarts \/ ServerStartFails
  <2>1. Head(job).tier # "down"
    BY <1>3 DEF ServerStarts, ServerStartFails, JobShape
  <2> QED
    BY <1>1, <1>2, <1>3, <2>1 DEF ServerStarts, ServerStartFails, serverVars
<1> QED
  BY <1>1, <1>2, <1>3 DEF Kill

\* What the engine schedules while main() sends is its one request; what it evicts was
\* not needed.
LEMMA EngineKeepsPoint ==
  ASSUME JobInv, ColdInv, PointInv, Engine
  PROVE  PointInv'
<1>1. UNCHANGED <<process, processes, run, tier, abandoned>>
  BY DEF Engine, Schedule, Abort, Evict, jobVars
<1>2. WhereInv'
  <2>1. CASE \E r \in open : Schedule(r) \/ Abort(r)
    <3>1. tier # "down" /\ (store' = store \/ tier # "hbm")
      BY <2>1 DEF Schedule, Abort, PointInv, WhereInv
    <3> QED
      BY <1>1, <3>1 DEF PointInv, WhereInv
  <2>2. CASE open' = open /\ store' = store
    BY <1>1, <2>2 DEF PointInv, WhereInv
  <2> QED
    BY <2>1, <2>2 DEF Engine, Evict
<1>3. ASSUME ~abandoned', NEW r \in open, Schedule(r) PROVE Accounted' /\ FirstInv'
  <2> DEFINE s == [r EXCEPT !.hit = IF r.id = Nobody THEN Unread ELSE Hit(r.parts)]
  <2>1. /\ ~Scheduled(r) /\ open' = (open \ {r}) \cup {s} /\ r \in open
        /\ {"id", "parts", "hit"} \subseteq DOMAIN r
    BY <1>3 DEF Schedule, ColdInv, PromptInv
  <2>2. s.id = r.id /\ s.parts = r.parts /\ s.hit = IF r.id = Nobody THEN Unread ELSE Hit(r.parts)
    BY <2>1
  <2> HIDE DEF s
  <2>3. Accounted'
    BY <1>1, <1>3, <2>1, <2>2 DEF PointInv, Accounted, N
  <2>4. ASSUME run.main = "send", run.k = 1
        PROVE  /\ \A q \in open' : Fresh(q.hit)' /\ \E t : q.parts = Gate(t)
               /\ ~(\A q \in open' : ~Scheduled(q))
    <3>1. open = {r} /\ r.id # Nobody
      <4>1. \A q \in open : q.id = Main /\ Main # Nobody
        BY <1>1, <1>3, <2>4, OnlyMain DEF Main, Nobody
      <4> QED
        BY <1>1, <1>3, <2>1, <4>1 DEF PointInv, Accounted
    <3>2. gpu = {} /\ \E t : r.parts = Gate(t)
      BY <1>1, <1>3, <2>1, <2>4, <3>1 DEF PointInv, FirstInv
    <3>3. PICK t : r.parts = Gate(t)
      BY <3>2
    <3>4. Held(Gate(t), gpu) = 0
      BY <3>2, HeldNothing
    <3>5. tier = "hbm" => Held(Gate(t), gpu \cup store) = 0
      <4> SUFFICES ASSUME tier = "hbm" PROVE Held(Gate(t), gpu \cup store) = 0
        OBVIOUS
      <4>1. gpu \cup store = {}
        BY <3>2 DEF PointInv, WhereInv
      <4> QED
        BY <4>1, HeldNothing
    <3>6. s.hit.gpu = 0 /\ (tier = "hbm" => s.hit.all = 0)
      BY <2>2, <3>1, <3>3, <3>4, <3>5 DEF Hit
    <3>7. s.hit # NotYet
      BY <3>6 DEF NotYet
    <3>8. open' = {s}
      BY <2>1, <3>1
    <3> QED
      BY <1>1, <2>2, <3>3, <3>6, <3>7, <3>8 DEF Fresh, Scheduled
  <2>5. process.client = "real" => Fresh(run.first)
    BY <1>1, <1>3 DEF PointInv, FirstInv
  <2> QED
    BY <1>1, <2>3, <2>4, <2>5 DEF FirstInv, Fresh, Scheduled
<1>4. ASSUME ~abandoned', NEW r \in open, Abort(r) PROVE Accounted' /\ FirstInv'
  <2>1. r.id = 0
    BY <1>4 DEF Abort, Nobody
  <2> QED
    BY <1>1, <1>4, <2>1 DEF PointInv, Accounted, Main, Keep
<1>5. ASSUME ~abandoned', NEW part, Evict(part) PROVE Accounted' /\ FirstInv'
  <2>1. open' = open /\ (gpu = {} => FALSE)
    BY <1>5 DEF Evict
  <2> QED
    BY <1>1, <1>5, <2>1 DEF PointInv, Accounted, FirstInv, Fresh, Scheduled, N
<1> QED
  BY <1>2, <1>3, <1>4, <1>5 DEF PointInv, Engine

\* The transfer benchmark and the builder run alone.
LEMMA LocalsKeepPoint ==
  ASSUME JobInv, PointInv, bench_m2 \/ Builder
  PROVE  PointInv'
<1>1. /\ UNCHANGED <<serverVars, run, processes>> /\ (process' = process \/ process' = Idle)
  BY DEF bench_m2, Builder, jobVars
<1>2. process' = process => PointInv'
  BY <1>1 DEF PointInv, WhereInv, Accounted, FirstInv, Fresh, Scheduled, serverVars, N
<1>3. ASSUME process' = Idle, process' # process PROVE PointInv'
  <2>1. process.client \in {"bench_transfer", "build_gate_prompts"}
    BY LocalsAlone
  <2>2. ~IsLoad /\ ~IsScript
    BY <2>1 DEF IsLoad, IsScript
  <2>3. run.main = "off" /\ \A r \in open : ~(r.id > 0)
    BY <2>2, NamesOfLoad DEF Ids
  <2>4. ~abandoned => open = {}
    BY <2>3 DEF PointInv, WhereInv, Accounted
  <2>5. tier # "down" /\ run.keep \notin {"awake", "sending"}
    BY <2>1, <2>3 DEF PointInv, WhereInv, Idle
  <2> QED
    BY <1>1, <1>3, <2>3, <2>4, <2>5, IdleKeepsPoint DEF PointInv, WhereInv, Idle, serverVars
<1> QED
  BY <1>1, <1>2, <1>3

\* Every step keeps the points fresh.
LEMMA NextPointKeeps ==
  ASSUME JobInv, ColdInv, JobShape, PointInv, [JobNext]_allVars
  PROVE  PointInv'
<1>1. CASE JobRuns \/ ServerStartFails \/ ServerExits
  BY <1>1, StartKeepsPoint, ServersKeepPoint DEF JobRuns, PartEnds, ServerExits
<1>2. CASE Script
  BY <1>2, ScriptKeepsPoint DEF Script, jobVars
<1>3. CASE Of(LoadNext)
  <2>1. LoadNext /\ UNCHANGED <<processes, localVars>>
    BY <1>3 DEF Of, jobVars
  <2> QED
    BY <2>1, TasksKeepPoint, PointKeepsPoint, KeepaliveKeepsPoint, LoopKeepsPoint, EndsKeepPoint
       DEF LoadNext, MainRuns
<1>4. CASE Engine
  BY <1>4, EngineKeepsPoint
<1>5. CASE bench_m2 \/ Builder
  BY <1>5, LocalsKeepPoint
<1>6. CASE UNCHANGED allVars
  BY <1>6 DEF allVars, serverVars, jobVars, PointInv, WhereInv, Accounted, FirstInv, Fresh,
              Scheduled, N
<1> QED
  BY <1>1, <1>2, <1>3, <1>4, <1>5, <1>6 DEF JobNext

\* A job starts without requests.
LEMMA InitPoint == JobInit => PointInv
<1> SUFFICES ASSUME JobInit PROVE PointInv
  OBVIOUS
<1>1. /\ process = Idle /\ run = Off /\ open = {} /\ store = {} /\ processes = << >>
  BY DEF JobInit, ServerInit
<1>2. /\ {"points", "k", "first"} \subseteq DOMAIN run /\ run.k = 1 /\ run.main = "off"
      /\ run.keep = "off"
  BY <1>1 DEF Off
<1> QED
  BY <1>1, <1>2 DEF PointInv, WhereInv, Accounted, FirstInv, Fresh, Idle

\* A point of the occupancy benchmark starts from an empty cache, unless a client of
\* this server has given up a request (bench_occupancy_real.py:61-63, 103-105).
THEOREM PointsStartFreshCorrect == JobSpec => []PointsStartFresh
<1>1. PointInv => PointsStartFresh
  BY DEF PointInv, FirstInv, Fresh, PointsStartFresh
<1> QED
  BY <1>1, InitPoint, InitJob, InitCold, NextJob, ShapeKept, NextCold, NextPointKeeps, PTL
     DEF JobSpec

-----------------------------------------------------------------------------
(* The times are of what their labels say: TrialsAsLabelled.  A trial has  *)
(* seven stages, of which two arms skip the third.  Each step of a script  *)
(* has a label [arm, task, rep, q] that says of which trial it is which    *)
(* stage.                                                                  *)

\* The arms that do not reset between the requests of a trial
Short == {"prefill", "pin"}

IsLabel(l) == l.arm \in Arms /\ l.q \in 0 .. 6 /\ (l.arm \in Short => l.q # 2)

\* What a trial measures: what it warms the caches with, and then asks for, twice
Warm(l) == IF l.arm = "prefill" THEN System ELSE Gate(l.task)
Asked(l) == IF l.arm = "prefill" THEN Gate(l.task) ELSE Resumed(l.task)

\* The step at a label
StepAt(l) ==
  CASE l.q \in {0, 2, 4} -> ResetStep
    [] l.q = 1 -> Send("warm", Warm(l))
    [] l.q = 3 -> Send(IF l.arm = "prefill" THEN "suffix" ELSE "resume", Asked(l))
    [] l.q = 5 -> Send(IF l.arm = "prefill" THEN "full" ELSE "cold", Asked(l))
    [] OTHER -> Row(l.arm, l.task, l.rep)

\* The next stage of a trial; a trial ends with its row
Follows(l, m) ==
  IF l.q = 6 THEN m.q = 0
  ELSE /\ m.arm = l.arm /\ m.task = l.task
       /\ m.q = IF l.arm \in Short /\ l.q = 1 THEN 3 ELSE l.q + 1

\* The labels of a sequence of steps
Labelled(s, f) ==
  /\ IsSeq(s)
  /\ \A k \in 1 .. Len(s) :
       /\ IsLabel(f[k]) /\ s[k] = StepAt(f[k])
       /\ k < Len(s) => Follows(f[k], f[k + 1])

\* Whole trials, one after the other
IsPlan(s) ==
  \E f : Labelled(s, f) /\ (Len(s) > 0 => f[1].q = 0 /\ f[Len(s)].q = 6)

\* The places of a concatenation of two sequences.
LEMMA ConcatAny ==
  ASSUME NEW s, NEW u, IsSeq(s), IsSeq(u)
  PROVE  /\ IsSeq(s \o u) /\ Len(s \o u) = Len(s) + Len(u) /\ Len(s) \in Nat /\ Len(u) \in Nat
         /\ \A k \in 1 .. Len(s) : (s \o u)[k] = s[k]
         /\ \A k \in 1 .. Len(u) : (s \o u)[Len(s) + k] = u[k]
<1>1. PICK S : s \in Seq(S)
  BY DEF IsSeq
<1>2. PICK U : u \in Seq(U)
  BY DEF IsSeq
<1> DEFINE T == S \cup U
           w == s \o u
<1>3. s \in Seq(T) /\ u \in Seq(T)
  BY <1>1, <1>2
<1> HIDE DEF T
<1>4. /\ w \in Seq(T) /\ Len(w) = Len(s) + Len(u) /\ Len(s) \in Nat /\ Len(u) \in Nat
      /\ \A k \in 1 .. Len(s) : w[k] = s[k]
      /\ \A k \in 1 .. Len(u) : w[Len(s) + k] = u[k]
  BY <1>3
<1> QED
  BY <1>4 DEF IsSeq

\* What is left of a sequence behind its first element.
LEMMA TailAny ==
  ASSUME NEW s, IsSeq(s), Len(s) > 0
  PROVE  /\ s # << >> /\ Head(s) = s[1] /\ IsSeq(Tail(s)) /\ Len(Tail(s)) = Len(s) - 1
         /\ Len(s) \in Nat
         /\ \A k \in 1 .. Len(s) - 1 : Tail(s)[k] = s[k + 1]
<1>1. PICK S : s \in Seq(S)
  BY DEF IsSeq
<1> DEFINE w == Tail(s)
<1>2. /\ s # << >> /\ Head(s) = s[1] /\ w \in Seq(S) /\ Len(w) = Len(s) - 1 /\ Len(s) \in Nat
      /\ \A k \in 1 .. Len(s) - 1 : w[k] = s[k + 1]
  BY <1>1
<1> QED
  BY <1>2 DEF IsSeq

\* Seven steps in a row, and six
Seven(s, a, b, c, d, e) ==
  /\ IsSeq(s) /\ Len(s) = 7 /\ s[1] = a /\ s[2] = b /\ s[3] = a /\ s[4] = c
  /\ s[5] = a /\ s[6] = d /\ s[7] = e
Six(s, a, b, c, d, e) ==
  /\ IsSeq(s) /\ Len(s) = 6 /\ s[1] = a /\ s[2] = b /\ s[3] = c
  /\ s[4] = a /\ s[5] = d /\ s[6] = e

\* They are put together from three parts.
LEMMA StepsInRow ==
  ASSUME NEW a, NEW b, NEW c, NEW d, NEW e
  PROVE  /\ Seven(<<a, b>> \o <<a>> \o <<c, a, d, e>>, a, b, c, d, e)
         /\ Six(<<a, b>> \o << >> \o <<c, a, d, e>>, a, b, c, d, e)
<1> DEFINE x == <<a, b>>
           y == <<a>>
           z == <<c, a, d, e>>
           v == << >>
           xy == x \o y
           xv == x \o v
           s == xy \o z
           u == xv \o z
           T == {a, b, c, d, e}
<1>1. /\ x \in Seq(T) /\ Len(x) = 2 /\ x[1] = a /\ x[2] = b
      /\ y \in Seq(T) /\ Len(y) = 1 /\ y[1] = a
      /\ z \in Seq(T) /\ Len(z) = 4 /\ z[1] = c /\ z[2] = a /\ z[3] = d /\ z[4] = e
      /\ v \in Seq(T) /\ Len(v) = 0
  OBVIOUS
<1>2. IsSeq(x) /\ IsSeq(y) /\ IsSeq(z) /\ IsSeq(v)
  BY <1>1 DEF IsSeq
<1> HIDE DEF x, y, z, v, T
<1>3. /\ IsSeq(xy) /\ Len(xy) = Len(x) + Len(y)
      /\ \A k \in 1 .. Len(x) : xy[k] = x[k]
      /\ \A k \in 1 .. Len(y) : xy[Len(x) + k] = y[k]
  BY <1>2, ConcatAny
<1>4. /\ IsSeq(xv) /\ Len(xv) = Len(x) + Len(v)
      /\ \A k \in 1 .. Len(x) : xv[k] = x[k]
  BY <1>2, ConcatAny
<1> HIDE DEF xy, xv
<1>5. /\ IsSeq(s) /\ Len(s) = Len(xy) + Len(z)
      /\ \A k \in 1 .. Len(xy) : s[k] = xy[k]
      /\ \A k \in 1 .. Len(z) : s[Len(xy) + k] = z[k]
  <2>1. IsSeq(xy) /\ IsSeq(z)
    BY <1>2, <1>3
  <2> QED
    BY <2>1, ConcatAny
<1>6. /\ IsSeq(u) /\ Len(u) = Len(xv) + Len(z)
      /\ \A k \in 1 .. Len(xv) : u[k] = xv[k]
      /\ \A k \in 1 .. Len(z) : u[Len(xv) + k] = z[k]
  <2>1. IsSeq(xv) /\ IsSeq(z)
    BY <1>2, <1>4
  <2> QED
    BY <2>1, ConcatAny
<1> HIDE DEF s, u
<1>7. Len(xy) = 3 /\ xy[1] = a /\ xy[2] = b /\ xy[3] = a /\ Len(xv) = 2 /\ xv[1] = a /\ xv[2] = b
  <2>1. xy[2 + 1] = y[1] /\ xy[1] = x[1] /\ xy[2] = x[2] /\ Len(xy) = 3
    BY <1>1, <1>3
  <2>2. xv[1] = x[1] /\ xv[2] = x[2] /\ Len(xv) = 2
    <3>1. Len(v) = 0 /\ Len(x) = 2
      BY <1>1
    <3> QED
      BY <1>4, <3>1
  <2> QED
    BY <1>1, <2>1, <2>2
<1>8. /\ Len(s) = 7 /\ s[1] = a /\ s[2] = b /\ s[3] = a /\ s[4] = c
      /\ s[5] = a /\ s[6] = d /\ s[7] = e
  <2>1. s[3 + 1] = z[1] /\ s[3 + 2] = z[2] /\ s[3 + 3] = z[3] /\ s[3 + 4] = z[4]
    BY <1>1, <1>5, <1>7
  <2> QED
    BY <1>1, <1>5, <1>7, <2>1
<1>9. /\ Len(u) = 6 /\ u[1] = a /\ u[2] = b /\ u[3] = c
      /\ u[4] = a /\ u[5] = d /\ u[6] = e
  <2>1. u[2 + 1] = z[1] /\ u[2 + 2] = z[2] /\ u[2 + 3] = z[3] /\ u[2 + 4] = z[4]
    BY <1>1, <1>6, <1>7
  <2> QED
    BY <1>1, <1>6, <1>7, <2>1
<1> QED
  BY <1>5, <1>6, <1>8, <1>9 DEF Seven, Six, s, u, x, y, z, v, xy, xv

\* The stages of a trial, one by one.
StageOf(arm, p) == IF arm \in Short /\ p >= 2 THEN p + 1 ELSE p

\* A trial is a plan.
LEMMA TrialIsPlan ==
  ASSUME NEW arm \in Arms, NEW t, NEW rep
  PROVE  IsPlan(Trial(arm, t, rep))
<1> DEFINE tr == Trial(arm, t, rep)
           lab(q) == [arm |-> arm, task |-> t, rep |-> rep, q |-> q]
           n == IF arm \in Short THEN 6 ELSE 7
           f == [k \in 1 .. n |-> lab(StageOf(arm, k - 1))]
           r == ResetStep
           w == Send("warm", Warm(lab(1)))
           a == Send(IF arm = "prefill" THEN "suffix" ELSE "resume", Asked(lab(3)))
           b == Send(IF arm = "prefill" THEN "full" ELSE "cold", Asked(lab(5)))
           e == Row(arm, t, rep)
<1>1. \A q : lab(q).arm = arm /\ lab(q).task = t /\ lab(q).rep = rep /\ lab(q).q = q
  OBVIOUS
<1>2. /\ StepAt(lab(0)) = r /\ StepAt(lab(1)) = w /\ StepAt(lab(2)) = r
      /\ StepAt(lab(3)) = a /\ StepAt(lab(4)) = r /\ StepAt(lab(5)) = b
      /\ StepAt(lab(6)) = e
  BY DEF StepAt
<1>3. IsSeq(tr) /\ Len(tr) = n /\ \A k \in 1 .. n : tr[k] = StepAt(lab(StageOf(arm, k - 1)))
  <2>1. CASE arm = "prefill"
    <3>1. tr = <<r, w, a, r, b, e>>
      BY <1>1, <2>1 DEF Trial, prefill_trial, Warm, Asked
    <3> HIDE DEF lab, r, w, a, b, e, tr
    <3> DEFINE T == {r, w, a, b, e}
    <3>2. /\ tr \in Seq(T) /\ Len(tr) = 6 /\ tr[1] = r /\ tr[2] = w /\ tr[3] = a
          /\ tr[4] = r /\ tr[5] = b /\ tr[6] = e
      BY <3>1
    <3>3. IsSeq(tr)
      BY <3>2 DEF IsSeq
    <3> QED
      BY <1>2, <2>1, <3>2, <3>3 DEF StageOf, Short
  <2>2. CASE arm = "pin"
    <3>1. tr = <<r, w>> \o << >> \o <<a, r, b, e>>
      BY <1>1, <2>2 DEF Trial, run_tier_trial, Warm, Asked
    <3> HIDE DEF lab, r, w, a, b, e, tr
    <3>2. /\ IsSeq(tr) /\ Len(tr) = 6 /\ tr[1] = r /\ tr[2] = w /\ tr[3] = a
          /\ tr[4] = r /\ tr[5] = b /\ tr[6] = e
      <4>1. Six(<<r, w>> \o << >> \o <<a, r, b, e>>, r, w, a, b, e)
        BY StepsInRow, Zenon
      <4>2. Six(tr, r, w, a, b, e)
        BY <3>1, <4>1, Zenon
      <4> QED
        BY <4>2 DEF Six
    <3>3. ASSUME NEW k \in 1 .. 6 PROVE tr[k] = StepAt(lab(StageOf(arm, k - 1)))
      <4>1. StageOf(arm, k - 1) = IF k >= 3 THEN k ELSE k - 1
        BY <2>2 DEF StageOf, Short
      <4>2. k \in {1, 2, 3, 4, 5, 6}
        OBVIOUS
      <4> QED
        BY <1>2, <3>2, <4>1, <4>2
    <3> QED
      BY <2>2, <3>2, <3>3 DEF Short
  <2>3. CASE arm \notin Short
    <3>1. arm \in {"cpu", "nvme", "discard"}
      BY <2>3 DEF Short, Arms
    <3>2. tr = <<r, w>> \o <<r>> \o <<a, r, b, e>>
      BY <1>1, <3>1 DEF Trial, run_tier_trial, Warm, Asked
    <3> HIDE DEF lab, r, w, a, b, e, tr
    <3>3. /\ IsSeq(tr) /\ Len(tr) = 7 /\ tr[1] = r /\ tr[2] = w /\ tr[3] = r
          /\ tr[4] = a /\ tr[5] = r /\ tr[6] = b /\ tr[7] = e
      <4>1. Seven(<<r, w>> \o <<r>> \o <<a, r, b, e>>, r, w, a, b, e)
        BY StepsInRow, Zenon
      <4>2. Seven(tr, r, w, a, b, e)
        BY <3>2, <4>1, Zenon
      <4> QED
        BY <4>2 DEF Seven
    <3> QED
      BY <1>2, <2>3, <3>3 DEF StageOf
  <2> QED
    BY <2>1, <2>2, <2>3 DEF Short
<1> HIDE DEF r, w, a, b, e, tr
<1>4. ASSUME NEW k \in 1 .. n
      PROVE  /\ IsLabel(f[k]) /\ tr[k] = StepAt(f[k])
             /\ k < n => Follows(f[k], f[k + 1])
  <2>1. f[k] = lab(StageOf(arm, k - 1)) /\ (k < n => f[k + 1] = lab(StageOf(arm, k)))
    OBVIOUS
  <2>2. StageOf(arm, k - 1) \in 0 .. 6 /\ (arm \in Short => StageOf(arm, k - 1) # 2)
    BY DEF StageOf
  <2>3. k < n => /\ StageOf(arm, k - 1) # 6
                 /\ StageOf(arm, k) = IF arm \in Short /\ StageOf(arm, k - 1) = 1 THEN 3
                                      ELSE StageOf(arm, k - 1) + 1
    BY DEF StageOf
  <2> HIDE DEF f, n, lab
  <2> QED
    BY <1>1, <1>3, <2>1, <2>2, <2>3 DEF IsLabel, Follows
<1>5. f[1].q = 0 /\ f[n].q = 6
  BY DEF StageOf
<1> HIDE DEF f, lab
<1>6. Labelled(tr, f)
  BY <1>3, <1>4 DEF Labelled
<1> QED
  BY <1>3, <1>5, <1>6 DEF IsPlan, tr

\* An empty plan.
LEMMA NoPlan ==
  ASSUME NEW s, s = << >>
  PROVE  IsPlan(s)
<1>1. IsSeq(s) /\ Len(s) = 0
  BY NoneIsSeq
<1>2. Labelled(s, s)
  BY <1>1 DEF Labelled
<1> QED
  BY <1>1, <1>2 DEF IsPlan

\* Plans can be put one behind the other.
LEMMA PlanConcat ==
  ASSUME NEW s, NEW u, IsPlan(s), IsPlan(u)
  PROVE  IsPlan(s \o u)
<1> DEFINE w == s \o u
           n == Len(s)
           m == Len(u)
<1>1. PICK f : Labelled(s, f) /\ (n > 0 => f[1].q = 0 /\ f[n].q = 6)
  BY DEF IsPlan
<1>2. PICK g : Labelled(u, g) /\ (m > 0 => g[1].q = 0 /\ g[m].q = 6)
  BY DEF IsPlan
<1> DEFINE h == [k \in 1 .. n + m |-> IF k <= n THEN f[k] ELSE g[k - n]]
<1>3. /\ IsSeq(w) /\ Len(w) = n + m /\ n \in Nat /\ m \in Nat
      /\ \A k \in 1 .. n : w[k] = s[k]
      /\ \A k \in 1 .. m : w[n + k] = u[k]
  <2>1. IsSeq(s) /\ IsSeq(u)
    BY <1>1, <1>2 DEF Labelled
  <2> QED
    BY <2>1, ConcatAny
<1>4. /\ \A k \in 1 .. n : IsLabel(f[k]) /\ s[k] = StepAt(f[k])
                           /\ (k < n => Follows(f[k], f[k + 1]))
      /\ \A k \in 1 .. m : IsLabel(g[k]) /\ u[k] = StepAt(g[k])
                           /\ (k < m => Follows(g[k], g[k + 1]))
  BY <1>1, <1>2 DEF Labelled
<1> HIDE DEF w, n, m
<1>5. /\ \A k \in 1 .. n : h[k] = f[k]
      /\ \A k \in 1 .. m : h[n + k] = g[k]
  BY <1>3
<1> HIDE DEF h
<1>6. ASSUME NEW k \in 1 .. n + m
      PROVE  /\ IsLabel(h[k]) /\ w[k] = StepAt(h[k])
             /\ k < n + m => Follows(h[k], h[k + 1])
  <2>1. CASE k \in 1 .. n
    <3>1. IsLabel(h[k]) /\ w[k] = StepAt(h[k])
      BY <1>3, <1>4, <1>5, <2>1
    <3>2. CASE k < n
      <4>1. k + 1 \in 1 .. n /\ Follows(f[k], f[k + 1])
        BY <1>3, <1>4, <2>1, <3>2
      <4> QED
        BY <1>5, <2>1, <3>1, <4>1
    <3>3. CASE k = n /\ m > 0
      <4>1. 1 \in 1 .. m /\ n > 0
        BY <1>3, <2>1, <3>3
      <4>2. h[n + 1] = g[1] /\ h[n] = f[n]
        BY <1>5, <2>1, <3>3, <4>1
      <4>3. f[n].q = 6 /\ g[1].q = 0
        BY <1>1, <1>2, <3>3, <4>1
      <4> QED
        BY <3>1, <3>3, <4>2, <4>3 DEF Follows
    <3>4. CASE k = n /\ ~(m > 0)
      <4>1. ~(k < n + m)
        BY <1>3, <3>4
      <4> QED
        BY <3>1, <4>1
    <3> QED
      BY <1>3, <2>1, <3>2, <3>3, <3>4
  <2>2. CASE k \notin 1 .. n
    <3> DEFINE i == k - n
    <3>1. i \in 1 .. m /\ k = n + i /\ (k < n + m => i < m /\ i + 1 \in 1 .. m /\ k + 1 = n + (i + 1))
      BY <1>3, <2>2
    <3> HIDE DEF i
    <3>2. h[k] = g[i] /\ w[k] = u[i] /\ (k < n + m => h[k + 1] = g[i + 1])
      BY <1>3, <1>5, <3>1
    <3> QED
      BY <1>4, <3>1, <3>2
  <2> QED
    BY <2>1, <2>2
<1>7. Len(w) > 0 => h[1].q = 0 /\ h[Len(w)].q = 6
  <2>1. ASSUME n > 0 PROVE h[1].q = 0
    BY <1>1, <1>3, <1>5, <2>1
  <2>2. ASSUME n = 0, m > 0 PROVE h[1].q = 0
    <3>1. n + 1 = 1 /\ 1 \in 1 .. m
      BY <1>3, <2>2
    <3> QED
      BY <1>2, <1>5, <2>2, <3>1
  <2>3. ASSUME m > 0 PROVE h[n + m].q = 6
    <3>1. m \in 1 .. m
      BY <1>3, <2>3
    <3> QED
      BY <1>2, <1>5, <2>3, <3>1
  <2>4. ASSUME m = 0, n > 0 PROVE h[n + m].q = 6
    <3>1. n + m = n /\ n \in 1 .. n
      BY <1>3, <2>4
    <3> QED
      BY <1>1, <1>5, <2>4, <3>1
  <2> QED
    BY <1>3, <2>1, <2>2, <2>3, <2>4
<1>8. Labelled(w, h)
  BY <1>3, <1>6 DEF Labelled
<1> QED
  BY <1>7, <1>8 DEF IsPlan, w

\* flatten of FlattenSeq, for the first m of the sequences
Flattened(t, ss, m) ==
  t = [i \in 1 .. m |-> IF i = 1 THEN ss[i] ELSE t[i - 1] \o ss[i]]

\* It exists.
LEMMA FlattenExists ==
  ASSUME NEW n \in Nat, NEW ss
  PROVE  \E t : Flattened(t, ss, n)
<1> DEFINE S == {m \in 0 .. n : \E t : Flattened(t, ss, m)}
<1>1. 0 \in S
  <2> DEFINE t == [i \in 1 .. 0 |-> ss[i]]
  <2>1. Flattened(t, ss, 0)
    BY DEF Flattened
  <2> QED
    BY <2>1
<1>2. ASSUME NEW m \in 0 .. n, m \in S, m < n PROVE m + 1 \in S
  <2>1. PICK t : Flattened(t, ss, m)
    BY <1>2
  <2> DEFINE u == [i \in 1 .. m + 1 |->
                     IF i = m + 1 THEN IF i = 1 THEN ss[i] ELSE t[i - 1] \o ss[i] ELSE t[i]]
  <2>2. \A i \in 1 .. m : t[i] = IF i = 1 THEN ss[i] ELSE t[i - 1] \o ss[i]
    BY <2>1 DEF Flattened
  <2>3. ASSUME NEW i \in 1 .. m + 1
        PROVE  u[i] = IF i = 1 THEN ss[i] ELSE u[i - 1] \o ss[i]
    <3>1. i # 1 => i - 1 \in 1 .. m /\ u[i - 1] = t[i - 1]
      BY <1>2
    <3>2. u[i] = IF i = m + 1 THEN IF i = 1 THEN ss[i] ELSE t[i - 1] \o ss[i] ELSE t[i]
      OBVIOUS
    <3> HIDE DEF u
    <3>3. CASE i = m + 1
      BY <3>1, <3>2, <3>3
    <3>4. CASE i # m + 1
      <4>1. i \in 1 .. m
        BY <3>4
      <4> QED
        BY <2>2, <3>1, <3>2, <3>4, <4>1
    <3> QED
      BY <3>3, <3>4
  <2>4. u = [i \in 1 .. m + 1 |-> u[i]]
    OBVIOUS
  <2> HIDE DEF u
  <2>5. Flattened(u, ss, m + 1)
    BY <2>3, <2>4 DEF Flattened
  <2> QED
    BY <1>2, <2>5
<1>3. n \in S
  <2> HIDE DEF S
  <2>1. \A k \in 0 .. n : k \in S
    BY <1>1, <1>2, UpTo
  <2> QED
    BY <2>1
<1> QED
  BY <1>3

\* Plans put one behind the other make a plan.
LEMMA PlanFlatten ==
  ASSUME NEW n \in Nat, NEW ss, ss = [k \in 1 .. n |-> ss[k]],
         \A k \in 1 .. n : IsPlan(ss[k])
  PROVE  IsPlan(FlattenSeq(ss))
<1>1. Len(ss) = n
  <2> DEFINE T == {ss[k] : k \in 1 .. n}
  <2>1. ss \in [1 .. n -> T]
    OBVIOUS
  <2> HIDE DEF T
  <2> QED
    BY <2>1
<1>2. CASE n = 0
  <2>1. FlattenSeq(ss) = ss /\ ss = << >>
    <3>1. FlattenSeq(ss) = ss
      BY <1>1, <1>2 DEF FlattenSeq
    <3> QED
      BY <1>2, <3>1
  <2> QED
    BY <2>1, NoPlan
<1>3. CASE n # 0
  <2> DEFINE flatten == CHOOSE t : Flattened(t, ss, n)
             S == {k \in 0 .. n : k = 0 \/ IsPlan(flatten[k])}
  <2>1. FlattenSeq(ss) = flatten[n]
    BY <1>1, <1>3 DEF FlattenSeq, Flattened
  <2>2. Flattened(flatten, ss, n)
    BY FlattenExists
  <2> HIDE DEF flatten
  <2>3. \A k \in 1 .. n : flatten[k] = IF k = 1 THEN ss[k] ELSE flatten[k - 1] \o ss[k]
    BY <2>2 DEF Flattened
  <2>4. ASSUME NEW k \in 0 .. n, k \in S, k < n PROVE k + 1 \in S
    <3>1. k + 1 \in 1 .. n /\ IsPlan(ss[k + 1])
      BY <2>4
    <3>2. CASE k = 0
      <4>1. flatten[1] = ss[1]
        BY <2>3, <3>1, <3>2
      <4> QED
        BY <3>1, <3>2, <4>1
    <3>3. CASE k # 0
      <4>0. k + 1 \in 1 .. n /\ k + 1 # 1 /\ (k + 1) - 1 = k
        BY <2>4, <3>3
      <4>1. flatten[k + 1] = flatten[k] \o ss[k + 1]
        BY <2>3, <4>0
      <4>2. IsPlan(flatten[k])
        BY <2>4, <3>3
      <4>3. IsPlan(flatten[k] \o ss[k + 1])
        BY <3>1, <4>2, PlanConcat
      <4>4. IsPlan(flatten[k + 1])
        BY <4>1, <4>3, Zenon
      <4> QED
        BY <4>0, <4>4
    <3> QED
      BY <3>2, <3>3
  <2>5. n \in S
    <3>1. 0 \in S
      OBVIOUS
    <3> HIDE DEF S
    <3>2. \A k \in 0 .. n : k \in S
      BY <2>4, <3>1, UpTo
    <3> QED
      BY <3>2
  <2> QED
    BY <1>3, <2>1, <2>5
<1> QED
  BY <1>2, <1>3

\* The steps of a script are a plan.
LEMMA StepsPlan ==
  ASSUME NEW arms \in Seq(Arms), NEW P, NEW sample \in [1 .. Sampled -> P]
  PROVE  IsPlan(Steps(arms, sample))
<1> DEFINE trial(a, p) == [rep \in 1 .. Reps |-> Trial(arms[a], sample[p], rep)]
           one(a) == [p \in DOMAIN sample |-> FlattenSeq(trial(a, p))]
           all == [a \in DOMAIN arms |-> FlattenSeq(one(a))]
<1>1. Reps \in Nat /\ Sampled \in Nat /\ Len(arms) \in Nat
  BY ScriptAssumption
<1>2. ASSUME NEW a \in 1 .. Len(arms), NEW p PROVE IsPlan(FlattenSeq(trial(a, p)))
  <2> DEFINE ss == trial(a, p)
  <2>1. arms[a] \in Arms
    OBVIOUS
  <2>2. ss = [k \in 1 .. Reps |-> ss[k]] /\ \A k \in 1 .. Reps : ss[k] = Trial(arms[a], sample[p], k)
    OBVIOUS
  <2> HIDE DEF ss
  <2>3. \A k \in 1 .. Reps : IsPlan(ss[k])
    BY <2>1, <2>2, TrialIsPlan
  <2>4. IsPlan(FlattenSeq(ss))
    BY <1>1, <2>2, <2>3, PlanFlatten
  <2> QED
    BY <2>4 DEF ss
<1> HIDE DEF trial
<1>3. ASSUME NEW a \in 1 .. Len(arms) PROVE IsPlan(FlattenSeq(one(a)))
  <2> DEFINE ss == one(a)
  <2>1. DOMAIN sample = 1 .. Sampled
    OBVIOUS
  <2>2. ss = [k \in 1 .. Sampled |-> ss[k]] /\ \A k \in 1 .. Sampled : ss[k] = FlattenSeq(trial(a, k))
    BY <2>1
  <2> HIDE DEF ss
  <2>3. \A k \in 1 .. Sampled : IsPlan(ss[k])
    BY <1>2, <2>2
  <2>4. IsPlan(FlattenSeq(ss))
    BY <1>1, <2>2, <2>3, PlanFlatten
  <2> QED
    BY <2>4 DEF ss
<1> HIDE DEF one
<1>4. IsPlan(FlattenSeq(all))
  <2>1. DOMAIN arms = 1 .. Len(arms)
    OBVIOUS
  <2>2. all = [k \in 1 .. Len(arms) |-> all[k]] /\ \A k \in 1 .. Len(arms) : all[k] = FlattenSeq(one(k))
    BY <2>1
  <2> HIDE DEF all
  <2>3. \A k \in 1 .. Len(arms) : IsPlan(all[k])
    BY <1>3, <2>2
  <2> QED
    BY <1>1, <2>2, <2>3, PlanFlatten
<1> QED
  BY <1>4 DEF Steps, all, one, trial

-----------------------------------------------------------------------------
\* What may be measured in an arm
Good(arm, label, hit) ==
  AsLabelled(label, hit) /\ (label = "resume" => ResumedFrom(arm, hit))

\* What is cached when nothing of the step is scheduled
Ready(l) ==
  /\ l.q \in {1, 5} => gpu = {}
  /\ l.q = 3 => gpu = IF l.arm \in Short THEN ToSet(Warm(l)) ELSE {}
  /\ l.q \in {2, 3} /\ l.arm \notin Short /\ tier # "hbm" => ToSet(Gate(l.task)) \subseteq store

\* What the request of a step has found, or has left in the caches
Served(l, r) ==
  IF l.q = 1
  THEN gpu = ToSet(Warm(l)) /\ (tier # "hbm" => ToSet(Warm(l)) \subseteq store)
  ELSE Good(l.arm, Head(todo).label, r.hit)

Measured(arm) ==
  \A label \in DOMAIN measured :
    measured[label] # NoTtft => Good(arm, label, measured[label])

Staged(l) ==
  /\ Measured(l.arm)
  /\ \A r \in open : NextIs("send") /\ r.parts = Head(todo).parts /\ r.id = Me
  /\ (\A r \in open : ~Scheduled(r)) => Ready(l)
  /\ \A r \in open : Scheduled(r) => Served(l, r)

RowsInv == \A r \in rows : \A label \in DOMAIN r.hits : Good(r.arm, label, r.hits[label])

TrialInv ==
  /\ IsScript /\ todo # << >> =>
       \E f : Labelled(todo, f) /\ (~abandoned => Staged(f[1]))
  /\ ~abandoned => RowsInv
  /\ ~IsScript => rows = {}

\* The step at a label says what is to be done, and which stage it is.
LEMMA StepOf ==
  ASSUME NEW l, IsLabel(l)
  PROVE  /\ StepAt(l).does \in {"reset", "send", "row"}
         /\ StepAt(l).does = "reset" => l.q \in {0, 2, 4}
         /\ StepAt(l).does = "send" =>
              /\ l.q \in {1, 3, 5}
              /\ StepAt(l).parts = IF l.q = 1 THEN Warm(l) ELSE Asked(l)
              /\ StepAt(l).label = CASE l.q = 1 -> "warm"
                                     [] l.q = 3 -> IF l.arm = "prefill" THEN "suffix" ELSE "resume"
                                     [] OTHER -> IF l.arm = "prefill" THEN "full" ELSE "cold"
         /\ StepAt(l).does = "row" => l.q = 6 /\ StepAt(l).arm = l.arm
<1>1. CASE l.q \in {0, 2, 4}
  <2>1. StepAt(l) = ResetStep
    BY <1>1 DEF StepAt
  <2> QED
    BY <1>1, <2>1 DEF ResetStep
<1>2. CASE l.q = 1
  <2>1. StepAt(l) = Send("warm", Warm(l))
    BY <1>2 DEF StepAt
  <2> QED
    BY <1>2, <2>1 DEF Send
<1>3. CASE l.q = 3
  <2>1. StepAt(l) = Send(IF l.arm = "prefill" THEN "suffix" ELSE "resume", Asked(l))
    BY <1>3 DEF StepAt
  <2> QED
    BY <1>3, <2>1 DEF Send
<1>4. CASE l.q = 5
  <2>1. StepAt(l) = Send(IF l.arm = "prefill" THEN "full" ELSE "cold", Asked(l))
    BY <1>4 DEF StepAt
  <2> QED
    BY <1>4, <2>1 DEF Send
<1>5. CASE l.q = 6
  <2>1. StepAt(l) = Row(l.arm, l.task, l.rep)
    BY <1>5 DEF StepAt
  <2> QED
    BY <1>5, <2>1 DEF Row
<1> QED
  BY <1>1, <1>2, <1>3, <1>4, <1>5 DEF IsLabel

\* The first of some steps, and those behind it.
LEMMA FirstStep ==
  ASSUME NEW s, NEW f, Labelled(s, f), s # << >>
  PROVE  /\ IsLabel(f[1]) /\ Head(s) = StepAt(f[1])
         /\ Tail(s) = << >> \/ \E g : Labelled(Tail(s), g) /\ Follows(f[1], g[1])
<1> DEFINE n == Len(s)
           u == Tail(s)
           m == n - 1
           g == [k \in 1 .. m |-> f[k + 1]]
<1>1. IsSeq(s)
  BY DEF Labelled
<1>2. n \in Nat /\ n > 0
  <2>1. PICK S : s \in Seq(S)
    BY <1>1 DEF IsSeq
  <2> QED
    BY <2>1
<1>3. /\ Head(s) = s[1] /\ IsSeq(u) /\ Len(u) = m /\ \A k \in 1 .. m : u[k] = s[k + 1]
  BY <1>1, <1>2, TailAny
<1>4. 1 \in 1 .. n /\ m \in Nat /\ m = n - 1
  BY <1>2
<1> HIDE DEF u, m, g
<1>5. ASSUME NEW k \in 1 .. n
      PROVE  IsLabel(f[k]) /\ s[k] = StepAt(f[k]) /\ (k < n => Follows(f[k], f[k + 1]))
  BY DEF Labelled
<1> HIDE DEF n
<1>6. IsLabel(f[1]) /\ Head(s) = StepAt(f[1])
  BY <1>3, <1>4, <1>5
<1>7. CASE m = 0
  <2>1. u = << >>
    <3>1. PICK S : u \in Seq(S)
      BY <1>3 DEF IsSeq
    <3> QED
      BY <1>3, <1>7, <3>1
  <2> QED
    BY <1>6, <2>1 DEF u
<1>8. CASE m # 0
  <2>1. ASSUME NEW k \in 1 .. m
        PROVE  IsLabel(g[k]) /\ u[k] = StepAt(g[k]) /\ (k < m => Follows(g[k], g[k + 1]))
    <3>1. k + 1 \in 1 .. n /\ (k < m => k + 1 < n /\ k + 1 \in 1 .. m)
      BY <1>2, <1>4
    <3>2. g[k] = f[k + 1] /\ (k < m => g[k + 1] = f[(k + 1) + 1])
      BY <3>1 DEF g
    <3>3. u[k] = s[k + 1]
      BY <1>3
    <3> DEFINE i == k + 1
    <3>4. IsLabel(f[i]) /\ s[i] = StepAt(f[i]) /\ (i < n => Follows(f[i], f[i + 1]))
      BY <1>5, <3>1
    <3> QED
      BY <3>1, <3>2, <3>3, <3>4
  <2>2. g[1] = f[1 + 1] /\ Follows(f[1], f[1 + 1])
    <3>1. 1 \in 1 .. m /\ 1 < n
      BY <1>2, <1>4, <1>8
    <3> QED
      BY <1>4, <1>5, <3>1 DEF g
  <2>3. Labelled(u, g)
    BY <1>3, <2>1 DEF Labelled
  <2>4. Follows(f[1], g[1])
    BY <2>2
  <2> QED
    BY <1>6, <2>3, <2>4 DEF u
<1> QED
  BY <1>7, <1>8

\* How many parts of a prompt a set holds: all before the first that it does not.
LEMMA HeldUpTo ==
  ASSUME NEW parts, IsSeq(parts), NEW cached
  PROVE  /\ Held(parts, cached) \in 0 .. Len(parts)
         /\ \A k \in 1 .. Held(parts, cached) : parts[k] \in cached
         /\ Held(parts, cached) < Len(parts) => parts[Held(parts, cached) + 1] \notin cached
<1> DEFINE n == Len(parts)
           S == {x \in 0 .. n : \A k \in 1 .. x : parts[k] \in cached}
           out == {k \in 1 .. n : parts[k] \notin cached} \cup {n + 1}
<1>1. n \in Nat
  BY AppendAny
<1>2. PICK m \in out : \A y \in out : m <= y
  <2>1. out \subseteq Nat /\ out # {}
    BY <1>1
  <2> HIDE DEF out
  <2> QED
    BY <2>1, NatHasMin
<1> HIDE DEF n
<1>3. m \in 1 .. n + 1 /\ (m # n + 1 => parts[m] \notin cached)
  BY <1>1
<1>4. \A k \in 1 .. n : k < m => parts[k] \in cached
  <2> SUFFICES ASSUME NEW k \in 1 .. n, parts[k] \notin cached, k < m PROVE FALSE
    OBVIOUS
  <2>1. m <= k
    BY <1>2
  <2> QED
    BY <1>1, <1>3, <2>1
<1>5. m - 1 \in S
  BY <1>1, <1>3, <1>4
<1>6. ASSUME NEW x \in S PROVE m - 1 >= x
  <2>1. x \in 0 .. n /\ \A k \in 1 .. x : parts[k] \in cached
    OBVIOUS
  <2> QED
    BY <1>1, <1>3, <2>1
<1>7. Max(S) = m - 1
  <2>1. \A x \in S : (\A y \in S : x >= y) => x = m - 1
    <3> SUFFICES ASSUME NEW x \in S, \A y \in S : x >= y PROVE x = m - 1
      OBVIOUS
    <3>1. x >= m - 1 /\ m - 1 >= x /\ x \in Int
      BY <1>5, <1>6
    <3> QED
      BY <1>1, <1>3, <3>1
  <2> HIDE DEF S
  <2> QED
    BY <1>5, <1>6, <2>1 DEF Max
<1>8. Held(parts, cached) = m - 1
  BY <1>7 DEF Held, n
<1> QED
  BY <1>1, <1>3, <1>4, <1>8 DEF n

\* The parts of a prompt with its approval.
LEMMA PartsOfResumed ==
  ASSUME NEW t
  PROVE  /\ IsSeq(Resumed(t)) /\ Len(Resumed(t)) = 3 /\ Resumed(t)[1] = System[1]
         /\ Resumed(t)[2] = Part(t) /\ Resumed(t)[3] \notin ToSet(Gate(t))
         /\ IsSeq(Gate(t)) /\ Gate(t)[1] = System[1] /\ Gate(t)[2] = Part(t)
         /\ ToSet(System) = {System[1]}
<1> DEFINE a == <<"all", "system">>
           b == <<t, "gate">>
           c == <<t, "approval">>
<1>1. a # c /\ b # c
  <2>1. a[2] = "system" /\ b[2] = "gate" /\ c[2] = "approval"
    OBVIOUS
  <2> QED
    BY <2>1
<1> HIDE DEF a, b, c
<1> DEFINE g == Append(<<a>>, b)
           r == Append(g, c)
<1>2. <<a>> \in Seq({a, b, c}) /\ Len(<<a>>) = 1 /\ <<a>>[1] = a /\ DOMAIN <<a>> = 1 .. 1
  OBVIOUS
<1>3. g \in Seq({a, b, c}) /\ Len(g) = 2 /\ g[1] = a /\ g[2] = b
  BY <1>2
<1>4. System = <<a>> /\ System[1] = a
  <2>1. System = <<a>>
    BY DEF System, a
  <2> QED
    BY <1>2, <2>1
<1>5. Gate(t) = g /\ Part(t) = b /\ Resumed(t) = r
  <2>1. Gate(t) = g /\ Part(t) = b
    BY <1>4 DEF Gate, Part, b
  <2>2. Resumed(t) = r
    BY <2>1, Zenon DEF Resumed, c
  <2> QED
    BY <2>1, <2>2
<1> HIDE DEF g
<1>9. IsSeq(g)
  BY <1>3 DEF IsSeq
<1>10. /\ IsSeq(r) /\ Len(r) = Len(g) + 1 /\ r[Len(g) + 1] = c
       /\ \A k \in 1 .. Len(g) : r[k] = g[k]
  BY <1>9, AppendAny
<1> HIDE DEF r
<1>6. Len(r) = 3 /\ r[1] = a /\ r[2] = b /\ r[3] = c
  <2>1. r[2 + 1] = c
    BY <1>3, <1>10
  <2> QED
    BY <1>3, <1>10, <2>1
<1>7. ToSet(Gate(t)) = {a, b}
  BY <1>4, <1>5, PartsOfGate
<1>8. ToSet(System) = {a}
  BY <1>2, <1>4 DEF ToSet
<1> QED
  BY <1>1, <1>3, <1>4, <1>5, <1>6, <1>7, <1>8, <1>9, <1>10

\* What the prompts find: everything, the prompt without the approval, or nothing.
LEMMA Found ==
  ASSUME NEW t, NEW cached
  PROVE  /\ cached = {} => Held(Gate(t), cached) = 0 /\ Held(Resumed(t), cached) = 0
         /\ cached = ToSet(System) => Held(Gate(t), cached) = 1
         /\ ToSet(Gate(t)) \subseteq cached => Held(Resumed(t), cached) >= 2
         /\ ToSet(Gate(t)) = cached => Held(Resumed(t), cached) = 2
<1> DEFINE g == Held(Gate(t), cached)
           r == Held(Resumed(t), cached)
<1>1. /\ g \in 0 .. 2 /\ (\A k \in 1 .. g : Gate(t)[k] \in cached)
      /\ (g < 2 => Gate(t)[g + 1] \notin cached)
  BY HeldUpTo, PartsOfResumed, PartsOfGate
<1>2. /\ r \in 0 .. 3 /\ (\A k \in 1 .. r : Resumed(t)[k] \in cached)
      /\ (r < 3 => Resumed(t)[r + 1] \notin cached)
  BY HeldUpTo, PartsOfResumed
<1> HIDE DEF g, r
<1>3. ToSet(Gate(t)) = {System[1], Part(t)} /\ Part(t) # System[1]
  BY PartsOfGate
<1>4. /\ Resumed(t)[1] = System[1] /\ Resumed(t)[2] = Part(t)
      /\ Resumed(t)[3] \notin {System[1], Part(t)}
      /\ Gate(t)[1] = System[1] /\ Gate(t)[2] = Part(t) /\ ToSet(System) = {System[1]}
  BY <1>3, PartsOfResumed
<1>5. cached = {} => g = 0 /\ r = 0
  <2> SUFFICES ASSUME cached = {} PROVE g = 0 /\ r = 0
    OBVIOUS
  <2>1. ~(g >= 1) /\ ~(r >= 1)
    <3>1. 1 \notin 1 .. g /\ 1 \notin 1 .. r
      BY <1>1, <1>2
    <3> QED
      BY <1>1, <1>2, <3>1
  <2> QED
    BY <1>1, <1>2, <2>1
<1>6. cached = {System[1]} => g = 1
  <2> SUFFICES ASSUME cached = {System[1]} PROVE g = 1
    OBVIOUS
  <2>1. g # 0
    <3> SUFFICES ASSUME g = 0 PROVE FALSE
      OBVIOUS
    <3>1. g + 1 = 1 /\ g < 2
      OBVIOUS
    <3> QED
      BY <1>1, <1>4, <3>1
  <2>2. g # 2
    <3> SUFFICES ASSUME g = 2 PROVE FALSE
      OBVIOUS
    <3>1. 2 \in 1 .. g
      OBVIOUS
    <3> QED
      BY <1>1, <1>3, <1>4, <3>1
  <2> QED
    BY <1>1, <2>1, <2>2
<1>7. ToSet(Gate(t)) \subseteq cached => r >= 2
  <2> SUFFICES ASSUME ToSet(Gate(t)) \subseteq cached PROVE r >= 2
    OBVIOUS
  <2>1. System[1] \in cached /\ Part(t) \in cached
    BY <1>3
  <2>2. r # 0
    <3> SUFFICES ASSUME r = 0 PROVE FALSE
      OBVIOUS
    <3>1. r + 1 = 1 /\ r < 3
      OBVIOUS
    <3> QED
      BY <1>2, <1>4, <2>1, <3>1
  <2>3. r # 1
    <3> SUFFICES ASSUME r = 1 PROVE FALSE
      OBVIOUS
    <3>1. r + 1 = 2 /\ r < 3
      OBVIOUS
    <3> QED
      BY <1>2, <1>4, <2>1, <3>1
  <2> QED
    BY <1>2, <2>2, <2>3
<1>8. ToSet(Gate(t)) = cached => r = 2
  <2> SUFFICES ASSUME ToSet(Gate(t)) = cached PROVE r = 2
    OBVIOUS
  <2>1. r >= 2
    BY <1>7
  <2>2. r # 3
    <3> SUFFICES ASSUME r = 3 PROVE FALSE
      OBVIOUS
    <3>1. 3 \in 1 .. r
      OBVIOUS
    <3> QED
      BY <1>2, <1>3, <1>4, <3>1
  <2> QED
    BY <1>2, <2>1, <2>2
<1> QED
  BY <1>4, <1>5, <1>6, <1>7, <1>8 DEF g, r

\* What is scheduled when its stage is ready measures what its label says.
LEMMA GoodHit ==
  ASSUME NEW l, IsLabel(l), l.q \in {3, 5}, Ready(l), tier \in {"down", "hbm"} => store = {},
         NEW label, label = StepAt(l).label, NEW hit, hit = Hit(Asked(l)), StepAt(l).does = "send"
  PROVE  Good(l.arm, label, hit)
<1> DEFINE t == l.task
           a == gpu \cup store
<1>1. hit.gpu = Held(Asked(l), gpu) /\ hit.all = Held(Asked(l), a)
  BY DEF Hit
<1>2. /\ gpu = {} => Held(Gate(t), gpu) = 0 /\ Held(Resumed(t), gpu) = 0
      /\ gpu = ToSet(System) => Held(Gate(t), gpu) = 1
      /\ ToSet(Gate(t)) = gpu => Held(Resumed(t), gpu) = 2
  BY Found
<1>3. /\ a = {} => Held(Gate(t), a) = 0 /\ Held(Resumed(t), a) = 0
      /\ a = ToSet(System) => Held(Gate(t), a) = 1
      /\ ToSet(Gate(t)) \subseteq a => Held(Resumed(t), a) >= 2
  BY Found
<1>4. tier = "hbm" => a = gpu
  OBVIOUS
<1>5. store \subseteq a
  OBVIOUS
<1> HIDE DEF a
<1>6. CASE l.q = 5
  <2>1. gpu = {}
    BY <1>6 DEF Ready
  <2>2. hit.gpu = 0 /\ (tier = "hbm" => hit.all = 0)
    BY <1>1, <1>2, <1>3, <1>4, <2>1 DEF Asked
  <2>3. label \in {"full", "cold"}
    BY <1>6, StepOf
  <2> QED
    BY <2>2, <2>3 DEF Good, AsLabelled
<1>7. CASE l.q = 3 /\ l.arm = "prefill"
  <2>1. gpu = ToSet(System)
    BY <1>7 DEF Ready, Short, Warm
  <2>2. label = "suffix"
    BY <1>7, StepOf
  <2>3. hit.gpu = 1 /\ (tier = "hbm" => hit.all = 1)
    BY <1>1, <1>2, <1>3, <1>4, <1>7, <2>1 DEF Asked
  <2> QED
    BY <2>2, <2>3 DEF Good, AsLabelled
<1>8. CASE l.q = 3 /\ l.arm # "prefill"
  <2>1. label = "resume"
    BY <1>8, StepOf
  <2>2. Asked(l) = Resumed(t)
    BY <1>8 DEF Asked
  <2>3. CASE l.arm = "pin"
    <3>1. gpu = ToSet(Gate(t))
      BY <1>8, <2>3 DEF Ready, Short, Warm
    <3>2. hit.gpu = 2
      BY <1>1, <1>2, <2>2, <3>1
    <3> QED
      BY <2>1, <2>3, <3>2 DEF Good, AsLabelled, ResumedFrom
  <2>4. CASE l.arm \notin Short
    <3>1. gpu = {} /\ (tier # "hbm" => ToSet(Gate(t)) \subseteq store)
      BY <1>8, <2>4 DEF Ready
    <3>2. hit.gpu = 0 /\ (tier # "hbm" => hit.all >= 2) /\ (tier = "hbm" => hit.all = 0)
      BY <1>1, <1>2, <1>3, <1>4, <1>5, <2>2, <3>1
    <3>3. l.arm # "pin"
      BY <2>4 DEF Short
    <3> QED
      BY <2>1, <3>2, <3>3 DEF Good, AsLabelled, ResumedFrom
  <2> QED
    BY <1>8, <2>3, <2>4 DEF Short
<1> QED
  BY <1>6, <1>7, <1>8

-----------------------------------------------------------------------------
\* Without a script there are no rows of one.
LEMMA NoScriptKeeps ==
  ASSUME ~IsScript', rows' = {}
  PROVE  TrialInv'
BY DEF TrialInv, RowsInv

\* The present step of a script.
LEMMA PresentStep ==
  ASSUME TrialInv, IsScript, todo # << >>
  PROVE  \E f : /\ Labelled(todo, f) /\ IsLabel(f[1]) /\ Head(todo) = StepAt(f[1])
                /\ Tail(todo) = << >> \/ \E g : Labelled(Tail(todo), g) /\ Follows(f[1], g[1])
                /\ ~abandoned => Staged(f[1])
<1>1. PICK f : Labelled(todo, f) /\ (~abandoned => Staged(f[1]))
  BY DEF TrialInv
<1>2. /\ IsLabel(f[1]) /\ Head(todo) = StepAt(f[1])
      /\ Tail(todo) = << >> \/ \E g : Labelled(Tail(todo), g) /\ Follows(f[1], g[1])
  BY <1>1, FirstStep
<1> QED
  BY <1>1, <1>2

\* What holds when a stage is over.
LEMMA StageOver ==
  ASSUME TrialInv, IsScript, todo # << >>, todo' = Tail(todo), UNCHANGED process,
         ~abandoned' => RowsInv',
         \A l, m : IsLabel(l) /\ Head(todo) = StepAt(l) /\ Follows(l, m) /\ IsLabel(m)
                   /\ (~abandoned => Staged(l)) /\ ~abandoned' => Staged(m)'
  PROVE  TrialInv'
<1>1. PICK f : /\ Labelled(todo, f) /\ IsLabel(f[1]) /\ Head(todo) = StepAt(f[1])
               /\ Tail(todo) = << >> \/ \E g : Labelled(Tail(todo), g) /\ Follows(f[1], g[1])
               /\ ~abandoned => Staged(f[1])
  BY PresentStep
<1>2. IsScript'
  BY DEF IsScript
<1>3. CASE Tail(todo) = << >>
  BY <1>2, <1>3 DEF TrialInv
<1>4. CASE Tail(todo) # << >>
  <2>1. PICK g : Labelled(Tail(todo), g) /\ Follows(f[1], g[1])
    BY <1>1, <1>4
  <2>2. IsLabel(g[1])
    BY <1>4, <2>1, FirstStep
  <2>3. ~abandoned' => Staged(g[1])'
    BY <1>1, <2>1, <2>2
  <2> QED
    BY <1>2, <2>1, <2>3 DEF TrialInv
<1> QED
  BY <1>3, <1>4

\* A reset, which is not refused.
LEMMA ResetKeepsTrial ==
  ASSUME TrialInv, ScriptReset
  PROVE  TrialInv'
<1>1. /\ IsScript /\ todo # << >> /\ Head(todo).does = "reset"
      /\ todo' = Tail(todo) /\ UNCHANGED <<process, measured, rows, tier, store, open, abandoned>>
      /\ gpu' = IF \E r \in open : Scheduled(r) THEN gpu ELSE {}
  BY DEF ScriptReset, NextIs, Advance, reset_prefix_cache
<1>2. ~abandoned' => RowsInv'
  BY <1>1 DEF TrialInv, RowsInv, Good, AsLabelled, ResumedFrom
<1>3. ASSUME NEW l, NEW m, IsLabel(l), IsLabel(m), Head(todo) = StepAt(l), Follows(l, m),
             Staged(l)
      PROVE  Staged(m)'
  <2>1. open = {} /\ open' = {} /\ gpu' = {}
    <3>1. open = {}
      BY <1>1, <1>3 DEF Staged, NextIs
    <3> QED
      BY <1>1, <3>1
  <2>2. l.q \in {0, 2, 4} /\ (l.arm \in Short => l.q # 2)
    BY <1>1, <1>3, StepOf DEF IsLabel
  <2>3. m.arm = l.arm /\ m.task = l.task /\ m.q = l.q + 1 /\ m.q \in {1, 3, 5}
    BY <1>3, <2>2 DEF Follows
  <2>4. Ready(l)
    BY <1>3, <2>1 DEF Staged
  <2>5. Ready(m)'
    BY <1>1, <2>1, <2>2, <2>3, <2>4 DEF Ready
  <2>6. Measured(m.arm)'
    BY <1>1, <1>3, <2>3 DEF Staged, Measured, Good, AsLabelled, ResumedFrom
  <2> QED
    BY <2>1, <2>5, <2>6 DEF Staged
<1> QED
  BY <1>1, <1>2, <1>3, StageOver

\* A request is sent.
LEMMA PostKeepsTrial ==
  ASSUME TrialInv, ScriptPost
  PROVE  TrialInv'
<1> DEFINE s == [id |-> Me, parts |-> Head(todo).parts, hit |-> NotYet]
<1>1. /\ IsScript /\ todo # << >> /\ NextIs("send") /\ Mine = {} /\ open' = open \cup {s}
      /\ UNCHANGED <<process, todo, measured, rows, tier, gpu, store, abandoned>>
  BY DEF ScriptPost, NextIs, Post, scriptVars
<1>2. s.id = Me /\ s.parts = Head(todo).parts /\ s.hit = NotYet
  OBVIOUS
<1> HIDE DEF s
<1>3. PICK f : Labelled(todo, f) /\ (~abandoned => Staged(f[1]))
  BY <1>1 DEF TrialInv
<1> DEFINE l == f[1]
<1> HIDE DEF l
<1>4. ASSUME ~abandoned PROVE Staged(l)'
  <2>1. Staged(l)
    BY <1>3, <1>4 DEF l
  <2>2. open = {} /\ open' = {s}
    <3>1. open = {}
      BY <1>1, <2>1 DEF Staged, Mine
    <3> QED
      BY <1>1, <3>1
  <2>3. Ready(l)'
    BY <1>1, <2>1, <2>2 DEF Staged, Ready
  <2>4. NextIs("send")'
    BY <1>1 DEF NextIs, IsScript
  <2>5. Measured(l.arm)'
    BY <1>1, <2>1 DEF Staged, Measured, Good, AsLabelled, ResumedFrom
  <2>6. ~Scheduled(s)
    BY <1>2 DEF Scheduled
  <2> QED
    BY <1>1, <1>2, <2>2, <2>3, <2>4, <2>5, <2>6 DEF Staged
<1>5. ~abandoned' => RowsInv'
  BY <1>1 DEF TrialInv, RowsInv, Good, AsLabelled, ResumedFrom
<1>6. IsScript'
  BY <1>1 DEF IsScript
<1> QED
  BY <1>1, <1>3, <1>4, <1>5, <1>6 DEF TrialInv, l

\* A request is answered.
LEMMA AnswerKeepsTrial ==
  ASSUME ColdInv, PointInv, TrialInv, stream_ttft
  PROVE  TrialInv'
<1>1. /\ IsScript /\ todo # << >> /\ Head(todo).does = "send"
      /\ todo' = Tail(todo) /\ UNCHANGED <<process, rows, tier, gpu, store, abandoned>>
  BY DEF stream_ttft, NextIs, Advance, Answered
<1>2. PICK r \in Mine :
        /\ Scheduled(r) /\ open' = open \ {r}
        /\ IF Head(todo).label = "warm"
           THEN UNCHANGED measured
           ELSE \E hit \in {r.hit, NoTtft} : measured' = Measure(Head(todo).label, hit)
  BY DEF stream_ttft, Answered
<1>3. ~abandoned' => RowsInv'
  BY <1>1 DEF TrialInv, RowsInv, Good, AsLabelled, ResumedFrom
<1>4. ASSUME NEW l, NEW m, IsLabel(l), IsLabel(m), Head(todo) = StepAt(l), Follows(l, m),
             Staged(l), ~abandoned
      PROVE  Staged(m)'
  <2>1. open' = {}
    <3>1. r \in open /\ \A q \in open : q.id = r.id
      BY <1>4 DEF Staged, Mine
    <3>2. open = {r}
      BY <1>4, <3>1 DEF PointInv, Accounted
    <3> QED
      BY <1>2, <3>2
  <2>2. /\ l.q \in {1, 3, 5}
        /\ Head(todo).label = CASE l.q = 1 -> "warm"
                                [] l.q = 3 -> IF l.arm = "prefill" THEN "suffix" ELSE "resume"
                                [] OTHER -> IF l.arm = "prefill" THEN "full" ELSE "cold"
    BY <1>1, <1>4, StepOf
  <2>3. /\ m.arm = l.arm /\ m.task = l.task
        /\ m.q = IF l.arm \in Short /\ l.q = 1 THEN 3 ELSE l.q + 1
    BY <1>4, <2>2 DEF Follows
  <2>4. Served(l, r)
    BY <1>2, <1>4 DEF Staged, Mine
  <2>5. Measured(m.arm)'
    <3>1. Measured(l.arm)
      BY <1>4 DEF Staged
    <3>2. CASE l.q = 1
      <4>1. measured' = measured
        BY <1>2, <2>2, <3>2
      <4> QED
        BY <1>1, <2>3, <3>1, <4>1 DEF Measured, Good, AsLabelled, ResumedFrom
    <3>3. CASE l.q # 1
      <4> DEFINE label == Head(todo).label
      <4>1. label # "warm"
        BY <2>2, <3>3
      <4>2. PICK hit \in {r.hit, NoTtft} : measured' = Measure(label, hit)
        BY <1>2, <4>1
      <4>3. hit # NoTtft => Good(l.arm, label, hit)
        BY <2>4, <3>3, <4>2 DEF Served
      <4> HIDE DEF label
      <4>4. \A x \in DOMAIN measured' :
              \/ x = label /\ measured'[x] = hit
              \/ x \in DOMAIN measured /\ measured'[x] = measured[x]
        BY <4>2 DEF Measure
      <4>5. \A x, h : Good(l.arm, x, h) => Good(m.arm, x, h)'
        BY <1>1, <2>3 DEF Good, AsLabelled, ResumedFrom
      <4> QED
        BY <3>1, <4>3, <4>4, <4>5 DEF Measured
    <3> QED
      BY <3>2, <3>3
  <2>6. Ready(m)'
    <3>1. CASE l.q = 1
      <4>1. gpu = ToSet(Warm(l)) /\ (tier # "hbm" => ToSet(Warm(l)) \subseteq store)
        BY <2>4, <3>1 DEF Served
      <4>2. Warm(m) = Warm(l) /\ (l.arm \notin Short => Warm(l) = Gate(m.task))
        BY <2>3 DEF Warm, Short
      <4>3. m.q = IF l.arm \in Short THEN 3 ELSE 2
        BY <2>3, <3>1
      <4> QED
        BY <1>1, <2>3, <4>1, <4>2, <4>3 DEF Ready
    <3>2. CASE l.q # 1
      <4>1. m.q \in {4, 6}
        BY <2>2, <2>3, <3>2
      <4> QED
        BY <4>1 DEF Ready
    <3> QED
      BY <3>1, <3>2
  <2> QED
    BY <2>1, <2>5, <2>6 DEF Staged
<1> QED
  BY <1>1, <1>3, <1>4, StageOver

\* The row of a trial is written.
LEMMA RowKeepsTrial ==
  ASSUME TrialInv, ScriptRow
  PROVE  TrialInv'
<1> DEFINE row == [arm |-> Head(todo).arm, task |-> Head(todo).task,
                   rep |-> Head(todo).rep, tier |-> tier, hits |-> measured]
<1>1. /\ IsScript /\ todo # << >> /\ Head(todo).does = "row" /\ Printable
      /\ todo' = Tail(todo) /\ rows' = rows \cup {row} /\ measured' = << >>
      /\ UNCHANGED <<process, tier, gpu, store, open, abandoned>>
  BY DEF ScriptRow, NextIs, Advance, serverVars
<1>2. row.arm = Head(todo).arm /\ row.hits = measured
  OBVIOUS
<1> HIDE DEF row
<1>3. \A arm, x, h : Good(arm, x, h) => Good(arm, x, h)'
  BY <1>1 DEF Good, AsLabelled, ResumedFrom
<1>4. PICK f : IsLabel(f[1]) /\ Head(todo) = StepAt(f[1]) /\ (~abandoned => Staged(f[1]))
  BY <1>1, PresentStep
<1>5. ASSUME ~abandoned PROVE RowsInv'
  <2>1. f[1].q = 6 /\ row.arm = f[1].arm
    BY <1>1, <1>2, <1>4, StepOf
  <2>2. \A label \in DOMAIN row.hits : Good(row.arm, label, row.hits[label])
    BY <1>1, <1>2, <1>4, <1>5, <2>1 DEF Staged, Measured, Printable
  <2>3. RowsInv
    BY <1>5 DEF TrialInv
  <2>4. ASSUME NEW r \in rows' PROVE \A label \in DOMAIN r.hits : Good(r.arm, label, r.hits[label])
    BY <1>1, <2>2, <2>3 DEF RowsInv
  <2> QED
    BY <1>3, <2>4 DEF RowsInv
<1>6. ASSUME NEW l, NEW m, IsLabel(l), IsLabel(m), Head(todo) = StepAt(l), Follows(l, m),
             Staged(l)
      PROVE  Staged(m)'
  <2>1. open' = {}
    BY <1>1, <1>6 DEF Staged, NextIs
  <2>2. m.q = 0
    BY <1>1, <1>6, StepOf DEF Follows
  <2>3. Ready(m)'
    BY <2>2 DEF Ready
  <2>4. Measured(m.arm)'
    <3>1. DOMAIN measured' = {}
      BY <1>1
    <3> QED
      BY <3>1 DEF Measured
  <2> QED
    BY <2>1, <2>3, <2>4 DEF Staged
<1> QED
  BY <1>1, <1>5, <1>6, StageOver

\* The server works on the request of a script, and evicts nothing.
LEMMA EngineKeepsTrial ==
  ASSUME JobInv, ColdInv, PointInv, TrialInv, Engine
  PROVE  TrialInv'
<1>1. UNCHANGED <<process, todo, measured, rows, tier, abandoned>>
  BY DEF Engine, Schedule, Abort, Evict, scriptVars
<1>2. CASE ~IsScript
  <2>1. ~IsScript' /\ rows' = {}
    BY <1>1, <1>2 DEF IsScript, TrialInv
  <2> QED
    BY <2>1, NoScriptKeeps
<1>3. CASE IsScript
  <2>1. ~abandoned' => RowsInv'
    BY <1>1 DEF TrialInv, RowsInv, Good, AsLabelled, ResumedFrom
  <2>2. ASSUME NEW l, IsLabel(l), Head(todo) = StepAt(l), Staged(l), ~abandoned
        PROVE  Staged(l)'
    <3>1. PICK r \in open : Schedule(r) \/ Abort(r)
      BY <1>3, NamesOfLoad DEF Engine
    <3>2. r.id = Me /\ NextIs("send") /\ r.parts = Head(todo).parts /\ \A q \in open : q.id = Me
      BY <2>2 DEF Staged
    <3>3. open = {r}
      BY <2>2, <3>2 DEF PointInv, Accounted
    <3>4. Schedule(r) /\ Me # Nobody
      BY <3>1, <3>2 DEF Abort, Me, Nobody
    <3>0. PICK s : s = [r EXCEPT !.hit = IF r.id = Nobody THEN Unread ELSE Hit(r.parts)]
      OBVIOUS
    <3>5. /\ ~Scheduled(r) /\ open' = {s}
          /\ gpu' = gpu \cup ToSet(r.parts)
          /\ store' = IF tier = "hbm" THEN store ELSE store \cup ToSet(r.parts)
      BY <3>0, <3>3, <3>4 DEF Schedule
    <3>6. s.id = Me /\ s.parts = r.parts /\ s.hit = Hit(r.parts)
      <4>1. {"id", "parts", "hit"} \subseteq DOMAIN r
        BY DEF ColdInv, PromptInv
      <4> QED
        BY <3>0, <3>2, <3>4, <4>1
    <3>7. Ready(l)
      BY <2>2, <3>3, <3>5 DEF Staged
    <3>8. /\ l.q \in {1, 3, 5} /\ StepAt(l).does = "send"
          /\ r.parts = IF l.q = 1 THEN Warm(l) ELSE Asked(l)
      BY <2>2, <3>2, StepOf DEF NextIs
    <3>9. Served(l, s)'
      <4>1. CASE l.q = 1
        <5>1. gpu' = ToSet(Warm(l)) /\ (tier # "hbm" => ToSet(Warm(l)) \subseteq store')
          BY <3>5, <3>7, <3>8, <4>1 DEF Ready
        <5> QED
          BY <1>1, <4>1, <5>1 DEF Served
      <4>2. CASE l.q # 1
        <5>1. tier \in {"down", "hbm"} => store = {}
          BY DEF PointInv, WhereInv
        <5>2. l.q \in {3, 5} /\ s.hit = Hit(Asked(l))
          BY <3>6, <3>8, <4>2
        <5>3. Good(l.arm, StepAt(l).label, s.hit)
          BY <2>2, <3>7, <3>8, <5>1, <5>2, GoodHit
        <5>4. Good(l.arm, Head(todo).label, s.hit)
          BY <2>2, <5>3
        <5>5. \A arm, x, h : Good(arm, x, h) => Good(arm, x, h)'
          BY <1>1 DEF Good, AsLabelled, ResumedFrom
        <5>6. Good(l.arm, Head(todo).label, s.hit)'
          BY <1>1, <5>4, <5>5
        <5> QED
          BY <4>2, <5>6 DEF Served
      <4> QED
        BY <4>1, <4>2
    <3>10. Measured(l.arm)'
      BY <1>1, <2>2 DEF Staged, Measured, Good, AsLabelled, ResumedFrom
    <3>11. NextIs("send")' /\ s.parts = Head(todo').parts
      BY <1>1, <3>2, <3>6 DEF NextIs, IsScript
    <3>12. Scheduled(s)
      <4>1. s.hit.gpu # -1
        <5>1. s.hit.gpu = Held(r.parts, gpu)
          BY <3>6 DEF Hit
        <5>2. IsSeq(r.parts)
          BY <3>8, PartsOfResumed, NoneIsSeq DEF Warm, Asked, System, IsSeq
        <5> QED
          BY <5>1, <5>2, HeldUpTo
      <4> QED
        BY <4>1 DEF Scheduled, NotYet
    <3> QED
      BY <3>5, <3>6, <3>9, <3>10, <3>11, <3>12 DEF Staged
  <2>3. CASE todo = << >>
    BY <1>1, <2>1, <2>3, <1>3 DEF TrialInv, IsScript
  <2>4. CASE todo # << >>
    <3>1. PICK f : /\ Labelled(todo, f) /\ IsLabel(f[1]) /\ Head(todo) = StepAt(f[1])
                   /\ ~abandoned => Staged(f[1])
      BY <1>3, <2>4, PresentStep
    <3>2. ~abandoned' => Staged(f[1])'
      BY <1>1, <2>2, <3>1
    <3> QED
      BY <1>1, <1>3, <2>1, <3>1, <3>2 DEF TrialInv, IsScript
  <2> QED
    BY <2>3, <2>4
<1> QED
  BY <1>2, <1>3

\* A step of a script.
LEMMA ScriptKeepsTrial ==
  ASSUME ColdInv, PointInv, TrialInv, ScriptNext
  PROVE  TrialInv'
<1>1. CASE ScriptResetFails \/ ScriptSendFails \/ ScriptRowFails \/ ScriptEnds
  <2>1. process' = Idle /\ rows' = {}
    BY <1>1 DEF ScriptResetFails, ScriptSendFails, ScriptRowFails, ScriptEnds, Raise
  <2>2. ~IsScript'
    BY <2>1 DEF Idle, IsScript
  <2> QED
    BY <2>1, <2>2, NoScriptKeeps
<1> QED
  BY <1>1, ResetKeepsTrial, PostKeepsTrial, AnswerKeepsTrial, RowKeepsTrial DEF ScriptNext

\* A script starts with its first trial, when nobody has a request.
LEMMA StartKeepsTrial ==
  ASSUME JobInv, JobShape, PointInv, TrialInv, NextProcess
  PROVE  TrialInv'
<1> DEFINE p == Head(processes)
<1>1. process = Idle /\ processes # << >> /\ ~IsScript /\ rows = {} /\ UNCHANGED serverVars
  BY DEF NextProcess, Idle, IsScript, TrialInv
<1>2. CASE UNCHANGED scriptVars /\ (process' = p => p.client \notin {"bench_prefill", "suspend_resume"})
           /\ (process' = process \/ process' = p)
  <2>1. ~IsScript' /\ rows' = {}
    BY <1>1, <1>2 DEF IsScript, scriptVars
  <2> QED
    BY <2>1, NoScriptKeeps
<1>3. CASE p.client \in {"bench_prefill", "suspend_resume"} /\ StartScript(p)
  <2>1. p.arms \in Seq(Arms)
    <3>1. PICK P : processes \in Seq(P) /\ \A x \in P : Sized(x)
      BY DEF JobShape, FiniteProcesses
    <3>2. Head(processes) \in P
      BY <1>1, <3>1
    <3> QED
      BY <1>3, <3>1, <3>2 DEF Sized
  <2>2. PICK sample \in [1 .. Sampled -> p.prompts] : todo' = Steps(p.arms, sample)
    BY <1>3 DEF StartScript, Samples
  <2>3. process' = p /\ measured' = << >> /\ rows' = {}
    BY <1>3 DEF StartScript
  <2>4. PICK f : Labelled(todo', f) /\ (Len(todo') > 0 => f[1].q = 0)
    BY <2>1, <2>2, StepsPlan DEF IsPlan
  <2>5. ASSUME todo' # << >>, ~abandoned' PROVE Staged(f[1])'
    <3>1. open' = {}
      <4>1. open = {}
        BY <1>1, <2>5, NoneOpen DEF serverVars
      <4> QED
        BY <1>1, <4>1 DEF serverVars
    <3>2. f[1].q = 0
      <4>1. PICK S : todo' \in Seq(S)
        BY <2>4 DEF Labelled, IsSeq
      <4>2. Len(todo') > 0
        BY <2>5, <4>1
      <4> QED
        BY <2>4, <4>2
    <3>3. DOMAIN measured' = {}
      BY <2>3
    <3> QED
      BY <3>1, <3>2, <3>3 DEF Staged, Measured, Ready
  <2>6. RowsInv'
    BY <2>3 DEF RowsInv
  <2>7. IsScript'
    BY <1>3, <2>3 DEF IsScript
  <2> QED
    BY <2>4, <2>5, <2>6, <2>7 DEF TrialInv
<1> QED
  BY <1>1, <1>2, <1>3 DEF NextProcess, StartLoad

\* No coroutine of a load runs during a script.
LEMMA NoLoadStep ==
  ASSUME JobInv, PointInv, LoadNext
  PROVE  ~IsScript /\ (process' = process \/ process' = Idle)
<1>1. ~IsScript
  <2> SUFFICES ASSUME IsScript PROVE FALSE
    OBVIOUS
  <2>1. /\ ~IsLoad /\ run.main = "off" /\ DOMAIN run.tasks = 1 .. 0
    BY NamesOfLoad
  <2>2. run.inj # "asleep" /\ run.keep \notin {"awake", "sending"}
    BY <2>1 DEF JobInv, PhaseInv, PointInv, WhereInv, IsLoad
  <2>3. ~MainRuns /\ ~Elapse /\ ~PointResetFails
    BY <2>1 DEF MainRuns, Elapse, PointResetFails, LoadTurn, LoadStarts, LoadEnds, Gather, Write,
                PointReset, PostSuspended, SuspendedAnswered, AllSuspended, Join, PointRowFails,
                SuspendFails, LoadRaises
  <2>4. ~InjectorTurn /\ ~KeepRuns
    BY <2>2 DEF InjectorTurn, KeepRuns, KeepPost, KeepAnswered, KeepFails, KeepEnds
  <2> QED
    BY <2>1, <2>3, <2>4 DEF LoadNext
<1>2. CASE Elapse \/ InjectorTurn \/ KeepRuns \/ \E id \in DOMAIN run.tasks : one_request(id)
  BY <1>1, <1>2 DEF Elapse, InjectorTurn, StartTask, KeepRuns, KeepPost, KeepAnswered, KeepFails,
                    KeepEnds, one_request, TaskAnswered, TaskFails, Stays
<1>3. CASE MainRuns \/ PointResetFails
  BY <1>1, <1>3 DEF MainRuns, PointResetFails, LoadTurn, LoadStarts, LoadEnds, Gather, Write,
                PointReset, PostSuspended, SuspendedAnswered, AllSuspended, Join, PointRowFails,
                SuspendFails, LoadRaises, StartTask, Stays, EndLoad
<1> QED
  BY <1>2, <1>3 DEF LoadNext

\* What is no script has no rows of one.
LEMMA OthersKeepTrial ==
  ASSUME JobInv, PointInv, TrialInv,
         Of(LoadNext) \/ bench_m2 \/ Builder \/ ServerStarts \/ PartCloses
         \/ (ServerStartFails /\ tier' # tier)
  PROVE  TrialInv'
<1>1. UNCHANGED scriptVars
  BY DEF Of, bench_m2, Builder, ServerStarts, PartCloses, ServerStartFails
<1>2. ~IsScript /\ (process' = process \/ process' = Idle)
  <2>1. CASE Of(LoadNext)
    BY <2>1, NoLoadStep DEF Of
  <2>2. CASE bench_m2 \/ Builder
    <3>1. process.client \in {"bench_transfer", "build_gate_prompts"}
      BY <2>2, LocalsAlone
    <3>2. ~IsScript
      BY <3>1 DEF IsScript
    <3> QED
      BY <2>2, <3>2 DEF bench_m2, Builder
  <2>3. CASE ServerStarts \/ PartCloses \/ ServerStartFails
    <3>1. process = Idle /\ process' = process
      BY <2>3 DEF ServerStarts, PartCloses, PartOver, ServerStartFails, PointInv, WhereInv
    <3> QED
      BY <3>1 DEF IsScript, Idle
  <2> QED
    BY <2>1, <2>2, <2>3
<1>3. ~IsScript' /\ rows' = {}
  BY <1>1, <1>2 DEF scriptVars, IsScript, Idle, TrialInv
<1> QED
  BY <1>3, NoScriptKeeps

\* A server that does not start, and a step that changes nothing.
LEMMA SameTrial ==
  ASSUME TrialInv, UNCHANGED <<serverVars, process, scriptVars>>
  PROVE  TrialInv'
<1>1. \A arm, x, h : Good(arm, x, h) => Good(arm, x, h)'
  BY DEF Good, AsLabelled, ResumedFrom, serverVars
<1>2. RowsInv => RowsInv'
  BY <1>1 DEF RowsInv, scriptVars
<1>3. ASSUME NEW l, Staged(l) PROVE Staged(l)'
  <2>1. Measured(l.arm)'
    BY <1>1, <1>3 DEF Staged, Measured, scriptVars
  <2>2. Ready(l) => Ready(l)'
    BY DEF Ready, serverVars
  <2>3. ASSUME NEW r, Served(l, r) PROVE Served(l, r)'
    <3>1. Good(l.arm, Head(todo).label, r.hit) => Good(l.arm, Head(todo).label, r.hit)'
      BY <1>1 DEF scriptVars
    <3> QED
      BY <2>3, <3>1 DEF Served, serverVars
  <2>4. NextIs("send") => NextIs("send")'
    BY DEF NextIs, IsScript, scriptVars
  <2> QED
    BY <1>3, <2>1, <2>2, <2>3, <2>4 DEF Staged, scriptVars, serverVars
<1>4. (IsScript' <=> IsScript) /\ todo' = todo /\ rows' = rows /\ abandoned' = abandoned
  BY DEF IsScript, scriptVars, serverVars
<1> QED
  BY <1>2, <1>3, <1>4 DEF TrialInv

\* Every step keeps the trials as their labels say.
LEMMA NextTrial ==
  ASSUME JobInv, ColdInv, JobShape, PointInv, TrialInv, [JobNext]_allVars
  PROVE  TrialInv'
<1>1. CASE NextProcess
  BY <1>1, StartKeepsTrial
<1>2. CASE (ServerStartFails /\ tier' = tier) \/ Kill \/ UNCHANGED allVars
  BY <1>2, SameTrial DEF ServerStartFails, Kill, serverVars, allVars
<1>3. CASE Script
  BY <1>3, ScriptKeepsTrial DEF Script
<1>4. CASE Engine
  BY <1>4, EngineKeepsTrial
<1>5. CASE Of(LoadNext) \/ bench_m2 \/ Builder \/ ServerStarts \/ PartCloses
           \/ (ServerStartFails /\ tier' # tier)
  BY <1>5, OthersKeepTrial
<1> QED
  BY <1>1, <1>2, <1>3, <1>4, <1>5 DEF JobNext, JobRuns, PartEnds, ServerExits

\* Unless a client of this server has given up a request, each time in a row is the
\* time of what its name says (bench_prefill.py:112-117, suspend_resume.py:98-116).
THEOREM TrialsAsLabelledCorrect == JobSpec => []TrialsAsLabelled
<1>1. JobInit => TrialInv
  <2> SUFFICES ASSUME JobInit PROVE TrialInv
    OBVIOUS
  <2>1. process = Idle /\ rows = {}
    BY DEF JobInit, ScriptInit
  <2> QED
    BY <2>1 DEF TrialInv, IsScript, Idle, RowsInv
<1>2. TrialInv => TrialsAsLabelled
  BY DEF TrialInv, RowsInv, Good, TrialsAsLabelled
<1>3. JobInit => PointInv
  BY InitPoint
<1> QED
  BY <1>1, <1>2, <1>3, InitJob, InitCold, NextJob, ShapeKept, NextCold, NextPointKeeps, NextTrial, PTL
     DEF JobSpec

-----------------------------------------------------------------------------
(* Prompts.                                                                *)

\* A message with a call
Calling(m) == m.role = "assistant" /\ m.calls # << >>

\* One call at a time, none of which waits for an approval, with its result behind it
\* but perhaps for the last
Paired(s) ==
  /\ IsSeq(s)
  /\ \A k \in DOMAIN s : Calling(s[k]) =>
       /\ Len(s[k].calls) = 1 /\ s[k].calls[1].tool \notin WriteTools
       /\ k < Len(s) => s[k + 1].answers = s[k].calls[1].id

\* The last call has no result yet
Pending(s) == Len(s) # 0 /\ Calling(s[Len(s)])

\* The places of a sequence are the numbers up to its length.
LEMMA DomainAny ==
  ASSUME NEW s, IsSeq(s)
  PROVE  DOMAIN s = 1 .. Len(s) /\ Len(s) \in Nat
<1>1. PICK S : s \in Seq(S)
  BY DEF IsSeq
<1> QED
  BY <1>1

\* Paired sequences without a pending call can be put behind one another.
LEMMA PairedConcat ==
  ASSUME NEW s, NEW t, Paired(s), ~Pending(s), Paired(t), ~Pending(t)
  PROVE  Paired(s \o t) /\ ~Pending(s \o t)
<1>1. IsSeq(s) /\ IsSeq(t)
  BY DEF Paired
<1> DEFINE u == s \o t
           m == Len(s)
           n == Len(t)
<1>2. /\ IsSeq(u) /\ Len(u) = m + n /\ m \in Nat /\ n \in Nat
      /\ DOMAIN u = 1 .. m + n /\ DOMAIN s = 1 .. m /\ DOMAIN t = 1 .. n
      /\ \A k \in 1 .. m : u[k] = s[k]
      /\ \A k \in 1 .. n : u[m + k] = t[k]
  <2>1. IsSeq(u) /\ Len(u) = m + n
    BY <1>1, ConcatAny
  <2>2. /\ m \in Nat /\ n \in Nat
        /\ \A k \in 1 .. m : u[k] = s[k]
        /\ \A k \in 1 .. n : u[m + k] = t[k]
    BY <1>1, ConcatAny
  <2>3. DOMAIN u = 1 .. Len(u) /\ DOMAIN s = 1 .. m /\ DOMAIN t = 1 .. n
    <3> HIDE DEF u
    <3> QED
      BY <1>1, <2>1, DomainAny DEF m, n
  <2> QED
    BY <2>1, <2>2, <2>3
<1> HIDE DEF u, m, n
<1>3. ASSUME NEW k \in 1 .. m + n, Calling(u[k])
      PROVE  /\ Len(u[k].calls) = 1 /\ u[k].calls[1].tool \notin WriteTools
             /\ k < m + n => u[k + 1].answers = u[k].calls[1].id
             /\ k # m + n
  <2>1. CASE k <= m
    <3>1. k \in 1 .. m /\ u[k] = s[k]
      BY <1>2, <2>1
    <3>2. Calling(s[k]) /\ k # m
      <4>1. Calling(s[k])
        BY <1>3, <3>1
      <4>2. ~(m # 0 /\ Calling(s[m]))
        BY DEF Pending, m
      <4> QED
        BY <1>2, <3>1, <4>1, <4>2
    <3>3. k + 1 \in 1 .. m
      BY <1>2, <3>1, <3>2
    <3>4. u[k + 1] = s[k + 1]
      BY <1>2, <3>3
    <3>5. /\ Len(s[k].calls) = 1 /\ s[k].calls[1].tool \notin WriteTools
          /\ s[k + 1].answers = s[k].calls[1].id
      <4>1. \A x \in 1 .. m : Calling(s[x]) =>
              /\ Len(s[x].calls) = 1 /\ s[x].calls[1].tool \notin WriteTools
              /\ x < m => s[x + 1].answers = s[x].calls[1].id
        BY <1>2 DEF Paired, m
      <4>2. k < m /\ k \in 1 .. m
        BY <1>2, <3>1, <3>2
      <4> QED
        BY <3>2, <4>1, <4>2
    <3> QED
      BY <1>2, <3>1, <3>3, <3>4, <3>5
  <2>2. CASE k > m
    <3>1. PICK j \in 1 .. n : k = m + j
      <4>1. k - m \in 1 .. n /\ k = m + (k - m)
        BY <1>2, <2>2
      <4> QED
        BY <4>1
    <3>2. u[k] = t[j] /\ Calling(t[j]) /\ j # n
      <4>1. u[k] = t[j]
        BY <1>2, <3>1
      <4>2. Calling(t[j])
        BY <1>3, <4>1
      <4>3. ~(n # 0 /\ Calling(t[n]))
        BY DEF Pending, n
      <4> QED
        BY <1>2, <3>1, <4>1, <4>2, <4>3
    <3>3. j + 1 \in 1 .. n /\ k + 1 = m + (j + 1) /\ k < m + n
      BY <1>2, <3>1, <3>2
    <3>4. u[k + 1] = t[j + 1]
      BY <1>2, <3>3
    <3>5. /\ Len(t[j].calls) = 1 /\ t[j].calls[1].tool \notin WriteTools
          /\ t[j + 1].answers = t[j].calls[1].id
      <4>1. \A x \in 1 .. n : Calling(t[x]) =>
              /\ Len(t[x].calls) = 1 /\ t[x].calls[1].tool \notin WriteTools
              /\ x < n => t[x + 1].answers = t[x].calls[1].id
        BY <1>2 DEF Paired, n
      <4>2. j < n /\ j \in 1 .. n
        BY <1>2, <3>1, <3>2
      <4> QED
        BY <3>2, <4>1, <4>2
    <3> QED
      BY <3>2, <3>3, <3>4, <3>5
  <2> QED
    BY <1>2, <2>1, <2>2
<1>4. Paired(u)
  BY <1>2, <1>3 DEF Paired
<1>5. ~Pending(u)
  <2>1. m + n # 0 => m + n \in 1 .. m + n
    BY <1>2
  <2>2. ~(m + n # 0 /\ Calling(u[m + n]))
    BY <1>3, <2>1
  <2> QED
    BY <1>2, <2>2 DEF Pending
<1> QED
  BY <1>4, <1>5 DEF u

\* A message behind a paired sequence, the result of the pending call if there is one.
LEMMA PairedAppend ==
  ASSUME NEW s, NEW m, Paired(s),
         Calling(m) => Len(m.calls) = 1 /\ m.calls[1].tool \notin WriteTools,
         Pending(s) => m.answers = s[Len(s)].calls[1].id
  PROVE  LET t == Append(s, m)
         IN  /\ Paired(t) /\ t[Len(t)] = m
             /\ Pending(t) <=> Calling(m)
<1> DEFINE t == Append(s, m)
           n == Len(s)
<1>1. /\ IsSeq(t) /\ n \in Nat /\ Len(t) = n + 1 /\ t[n + 1] = m
      /\ DOMAIN s = 1 .. n /\ DOMAIN t = 1 .. n + 1
      /\ \A k \in 1 .. n : t[k] = s[k]
  BY AppendAny DEF Paired
<1> HIDE DEF t, n
<1>2. ASSUME NEW k \in 1 .. n + 1, Calling(t[k])
      PROVE  /\ Len(t[k].calls) = 1 /\ t[k].calls[1].tool \notin WriteTools
             /\ k < n + 1 => t[k + 1].answers = t[k].calls[1].id
  <2>1. CASE k = n + 1
    BY <1>1, <1>2, <2>1
  <2>2. CASE k = n
    <3>1. k \in 1 .. n /\ t[k] = s[n] /\ t[k + 1] = m /\ n # 0
      BY <1>1, <1>2, <2>2
    <3>2. Pending(s)
      BY <1>2, <3>1 DEF Pending, n
    <3> QED
      BY <1>1, <1>2, <3>1, <3>2 DEF Paired, n
  <2>3. CASE k < n
    <3>1. k \in 1 .. n /\ k + 1 \in 1 .. n /\ t[k] = s[k] /\ t[k + 1] = s[k + 1]
      BY <1>1, <2>3
    <3> QED
      BY <1>1, <1>2, <2>3, <3>1 DEF Paired, n
  <2> QED
    BY <1>1, <2>1, <2>2, <2>3
<1>3. Paired(t)
  BY <1>1, <1>2 DEF Paired
<1>4. t[Len(t)] = m /\ (Pending(t) <=> Calling(m))
  BY <1>1 DEF Pending
<1> QED
  BY <1>3, <1>4 DEF t

\* Paired sequences put one behind the other, if none of them has a pending call.
LEMMA PairedFlatten ==
  ASSUME NEW n \in Nat, n # 0, NEW ss, ss = [k \in 1 .. n |-> ss[k]],
         \A k \in 1 .. n : Paired(ss[k]) /\ ~Pending(ss[k])
  PROVE  Paired(FlattenSeq(ss)) /\ ~Pending(FlattenSeq(ss))
<1>1. Len(ss) = n
  <2> DEFINE T == {ss[k] : k \in 1 .. n}
  <2>1. ss \in [1 .. n -> T]
    OBVIOUS
  <2> HIDE DEF T
  <2> QED
    BY <2>1
<1> DEFINE flatten == CHOOSE t : Flattened(t, ss, n)
           S == {k \in 0 .. n : k = 0 \/ (Paired(flatten[k]) /\ ~Pending(flatten[k]))}
<1>2. FlattenSeq(ss) = flatten[n]
  BY <1>1 DEF FlattenSeq, Flattened
<1>3. Flattened(flatten, ss, n)
  BY FlattenExists
<1> HIDE DEF flatten
<1>4. \A k \in 1 .. n : flatten[k] = IF k = 1 THEN ss[k] ELSE flatten[k - 1] \o ss[k]
  BY <1>3 DEF Flattened
<1>5. ASSUME NEW k \in 0 .. n, k \in S, k < n PROVE k + 1 \in S
  <2>1. k + 1 \in 1 .. n /\ Paired(ss[k + 1]) /\ ~Pending(ss[k + 1])
    BY <1>5
  <2>2. CASE k = 0
    <3>1. flatten[1] = ss[1]
      BY <1>4, <2>1, <2>2
    <3> QED
      BY <2>1, <2>2, <3>1
  <2>3. CASE k # 0
    <3>0. k + 1 \in 1 .. n /\ k + 1 # 1 /\ (k + 1) - 1 = k
      BY <1>5, <2>3
    <3>1. flatten[k + 1] = flatten[k] \o ss[k + 1]
      BY <1>4, <3>0
    <3>2. Paired(flatten[k]) /\ ~Pending(flatten[k])
      BY <1>5, <2>3
    <3>3. Paired(flatten[k] \o ss[k + 1]) /\ ~Pending(flatten[k] \o ss[k + 1])
      BY <2>1, <3>2, PairedConcat
    <3>4. Paired(flatten[k + 1]) /\ ~Pending(flatten[k + 1])
      BY <3>1, <3>3, Zenon
    <3> QED
      BY <3>0, <3>4
  <2> QED
    BY <2>2, <2>3
<1>6. n \in S
  <2>1. 0 \in S
    OBVIOUS
  <2> HIDE DEF S
  <2>2. \A k \in 0 .. n : k \in S
    BY <1>5, <2>1, UpTo
  <2> QED
    BY <2>2
<1> QED
  BY <1>2, <1>6

\* The history of a conversation: each call has its result among the tool messages
\* next to it, and none waits for an approval
IsHistory(msgs) ==
  /\ msgs \in Seq(Message)
  /\ \A i \in 1 .. Len(msgs) :
       /\ Writes(msgs[i]) = {}
       /\ msgs[i].role = "assistant" => \A c \in DOMAIN msgs[i].calls :
            \E k \in i + 1 .. Len(msgs) :
              /\ k <= i + Len(msgs[i].calls)
              /\ msgs[k].answers = msgs[i].calls[c].id
              /\ \A j \in i + 1 .. k : msgs[j].role = "tool"

\* The least of some places of a sequence.
LEMMA MinOfPlaces ==
  ASSUME NEW S, S \subseteq Nat, S # {}
  PROVE  Min(S) \in S /\ \A y \in S : Min(S) <= y
<1>1. PICK x \in S : \A y \in S : x <= y
  BY NatHasMin
<1> QED
  BY <1>1 DEF Min

\* The results of a message lie in front of the place where the scan for them ends,
\* and all messages up to there are results.
LEMMA ResultsAhead ==
  ASSUME NEW msgs, IsHistory(msgs), NEW i \in 1 .. Len(msgs), msgs[i].role = "assistant"
  PROVE  /\ AfterResults(msgs, i) \in i + 1 .. Len(msgs) + 1
         /\ \A k \in i + 1 .. AfterResults(msgs, i) - 1 : msgs[k].role = "tool"
         /\ \A c \in DOMAIN msgs[i].calls : \E k \in i + 1 .. AfterResults(msgs, i) - 1 :
              msgs[k].answers = msgs[i].calls[c].id
<1> DEFINE S == {j \in i + 1 .. Len(msgs) + 1 :
                   \/ j = Len(msgs) + 1
                   \/ msgs[j].role # "tool"
                   \/ CallIds(msgs[i]) \subseteq {msgs[k].answers : k \in i + 1 .. j - 1}}
           e == AfterResults(msgs, i)
<1>1. Len(msgs) \in Nat
  BY DEF IsHistory
<1>2. S \subseteq Nat /\ Len(msgs) + 1 \in S
  BY <1>1
<1>3. e = Min(S)
  BY DEF AfterResults
<1>4. e \in S /\ \A j \in S : e <= j
  <2> HIDE DEF S, e
  <2> QED
    BY <1>2, <1>3, MinOfPlaces
<1>5. e \in i + 1 .. Len(msgs) + 1
  <2> HIDE DEF e
  <2> QED
    BY <1>4
<1>6. ASSUME NEW k \in i + 1 .. e - 1 PROVE msgs[k].role = "tool"
  <2> HIDE DEF e
  <2>1. k \in i + 1 .. Len(msgs) + 1 /\ ~(e <= k)
    BY <1>1, <1>5
  <2>2. k \notin S
    <3> HIDE DEF S
    <3> QED
      BY <1>4, <2>1
  <2> QED
    BY <2>1, <2>2
<1>7. ASSUME NEW c \in DOMAIN msgs[i].calls
      PROVE  \E k \in i + 1 .. e - 1 : msgs[k].answers = msgs[i].calls[c].id
  <2> HIDE DEF e
  <2>1. PICK k \in i + 1 .. Len(msgs) :
          /\ msgs[k].answers = msgs[i].calls[c].id
          /\ \A j \in i + 1 .. k : msgs[j].role = "tool"
    BY <1>7 DEF IsHistory
  <2>2. CASE e = Len(msgs) + 1
    <3>1. k \in i + 1 .. e - 1
      BY <1>1, <2>1, <2>2
    <3> QED
      BY <2>1, <3>1
  <2>3. CASE e # Len(msgs) + 1 /\ msgs[e].role # "tool"
    <3>1. e \notin i + 1 .. k
      BY <2>1, <2>3
    <3>2. k \in i + 1 .. e - 1
      BY <1>1, <1>5, <2>1, <3>1
    <3> QED
      BY <2>1, <3>2
  <2>4. CASE CallIds(msgs[i]) \subseteq {msgs[x].answers : x \in i + 1 .. e - 1}
    <3>1. msgs[i].calls[c].id \in CallIds(msgs[i])
      BY <1>7 DEF CallIds
    <3> QED
      BY <2>4, <3>1
  <2> QED
    BY <1>4, <2>2, <2>3, <2>4
<1> QED
  BY <1>5, <1>6, <1>7 DEF e

\* A call and its result.
LEMMA CallWithResult ==
  ASSUME NEW a, NEW r, Len(a.calls) = 1, a.calls[1].tool \notin WriteTools,
         r.role = "tool", r.answers = a.calls[1].id
  PROVE  Paired(<<a>> \o <<r>>) /\ ~Pending(<<a>> \o <<r>>)
<1> DEFINE s == <<a>>
           t == <<r>>
           u == s \o t
<1>1. IsSeq(s) /\ IsSeq(t)
  <2>1. s \in Seq({a}) /\ t \in Seq({r})
    OBVIOUS
  <2> QED
    BY <2>1 DEF IsSeq
<1>2. Len(s) = 1 /\ Len(t) = 1 /\ s[1] = a /\ t[1] = r
  OBVIOUS
<1> HIDE DEF s, t
<1>3. IsSeq(u) /\ Len(u) = Len(s) + Len(t)
  BY <1>1, ConcatAny
<1>4. /\ \A k \in 1 .. Len(s) : u[k] = s[k]
      /\ \A k \in 1 .. Len(t) : u[Len(s) + k] = t[k]
  BY <1>1, ConcatAny
<1> HIDE DEF u
<1>5. DOMAIN u = 1 .. Len(u)
  BY <1>3, DomainAny
<1>6. Len(u) = 2 /\ DOMAIN u = {1, 2} /\ u[1] = a /\ u[2] = r
  BY <1>2, <1>3, <1>4, <1>5
<1>7. ~Calling(u[2])
  BY <1>6 DEF Calling
<1>8. Paired(u)
  BY <1>3, <1>6, <1>7 DEF Paired
<1>9. ~Pending(u)
  BY <1>6, <1>7 DEF Pending
<1> QED
  BY <1>8, <1>9 DEF u, s, t

\* The messages of a history.
LEMMA HistoryMessages ==
  ASSUME NEW msgs, IsHistory(msgs)
  PROVE  /\ Len(msgs) \in Nat
         /\ \A i \in 1 .. Len(msgs) : msgs[i] \in Message /\ Writes(msgs[i]) = {}
<1>1. msgs \in Seq(Message) /\ \A i \in 1 .. Len(msgs) : Writes(msgs[i]) = {}
  BY DEF IsHistory
<1> QED
  BY <1>1

\* The calls of a message.
LEMMA CallsOf ==
  ASSUME NEW m \in Message
  PROVE  /\ Len(m.calls) \in Nat /\ DOMAIN m.calls = 1 .. Len(m.calls)
         /\ m.calls # << >> => Len(m.calls) # 0
<1>1. m.calls \in Seq([id : STRING, tool : STRING])
  BY DEF Message
<1> QED
  BY <1>1

\* The parallel calls of a message, one by one, are paired with their results.
LEMMA OneByOnePaired ==
  ASSUME NEW msgs, IsHistory(msgs), NEW i \in 1 .. Len(msgs), IsParallel(msgs[i])
  PROVE  Paired(OneByOne(msgs, i)) /\ ~Pending(OneByOne(msgs, i))
<1> DEFINE m == msgs[i]
           block == [c \in DOMAIN m.calls |->
                       <<[m EXCEPT !.calls = <<m.calls[c]>>]>> \o ResultOf(msgs, i, c)]
           e == AfterResults(msgs, i)
           n == Len(m.calls)
<1>1. m \in Message /\ m.role = "assistant" /\ n > 1 /\ Writes(m) = {}
  BY HistoryMessages DEF IsParallel
<1>2. n \in Nat /\ n # 0 /\ DOMAIN m.calls = 1 .. n
  BY <1>1, CallsOf
<1>3. \A k \in i + 1 .. e - 1 : msgs[k].role = "tool"
  BY <1>1, ResultsAhead
<1>4. \A c \in DOMAIN m.calls : \E k \in i + 1 .. e - 1 : msgs[k].answers = m.calls[c].id
  BY <1>1, ResultsAhead
<1>5. e \in Nat
  <2>1. e \in i + 1 .. Len(msgs) + 1 /\ Len(msgs) \in Nat
    BY <1>1, ResultsAhead, HistoryMessages
  <2> HIDE DEF e
  <2> QED
    BY <2>1
<1>6. ASSUME NEW c \in DOMAIN m.calls PROVE Paired(block[c]) /\ ~Pending(block[c])
  <2> DEFINE at == {k \in i + 1 .. e - 1 : msgs[k].answers = m.calls[c].id}
             a == [m EXCEPT !.calls = <<m.calls[c]>>]
             r == msgs[Min(at)]
  <2>1. at \subseteq Nat /\ at # {}
    <3> HIDE DEF e, m
    <3> QED
      BY <1>4, <1>5, <1>6
  <2>2. Min(at) \in at
    <3> HIDE DEF at
    <3> QED
      BY <2>1, MinOfPlaces
  <2>3. r.role = "tool" /\ r.answers = m.calls[c].id
    <3> HIDE DEF e, m
    <3> QED
      BY <1>3, <2>2
  <2>4. ResultOf(msgs, i, c) = <<r>>
    BY <2>1 DEF ResultOf
  <2>5. a.calls = <<m.calls[c]>>
    <3> HIDE DEF m
    <3> QED
      BY <1>1 DEF Message
  <2>6. Len(a.calls) = 1 /\ a.calls[1] = m.calls[c]
    <3> HIDE DEF a
    <3> QED
      BY <2>5
  <2>7. m.calls[c].tool \notin WriteTools
    BY <1>1, <1>6 DEF Writes
  <2>8. block[c] = <<a>> \o <<r>>
    BY <1>6, <2>4
  <2> HIDE DEF a, r, block, m
  <2>9. Paired(<<a>> \o <<r>>) /\ ~Pending(<<a>> \o <<r>>)
    BY <2>3, <2>6, <2>7, CallWithResult
  <2> QED
    BY <2>8, <2>9
<1>7. OneByOne(msgs, i) = FlattenSeq(block)
  BY DEF OneByOne
<1>8. block = [c \in 1 .. n |-> block[c]]
  <2> HIDE DEF n, m
  <2> QED
    BY <1>2
<1>9. \A c \in 1 .. n : Paired(block[c]) /\ ~Pending(block[c])
  <2> HIDE DEF block, n, m
  <2> QED
    BY <1>2, <1>6
<1> HIDE DEF block, n, m
<1>10. Paired(FlattenSeq(block)) /\ ~Pending(FlattenSeq(block))
  BY <1>2, <1>8, <1>9, PairedFlatten
<1> QED
  BY <1>7, <1>10

\* The locals of split_parallel_tool_calls after a turn for message i
Turn(msgs, s, i) ==
  CASE i < s.next -> s
    [] i >= s.next /\ IsParallel(msgs[i]) ->
         [out |-> s.out \o OneByOne(msgs, i), next |-> AfterResults(msgs, i)]
    [] OTHER -> [out |-> Append(s.out, msgs[i]), next |-> i + 1]

\* What is written is paired, and what it waits for comes next
SplitInv(msgs, s, k) ==
  /\ s.next \in k + 1 .. Len(msgs) + 1
  /\ Paired(s.out)
  /\ Pending(s.out) =>
       /\ s.next <= Len(msgs) /\ msgs[s.next].role = "tool"
       /\ msgs[s.next].answers = s.out[Len(s.out)].calls[1].id

\* A turn keeps this.
LEMMA TurnKeeps ==
  ASSUME NEW msgs, IsHistory(msgs), NEW i \in 1 .. Len(msgs), NEW s, SplitInv(msgs, s, i - 1)
  PROVE  SplitInv(msgs, Turn(msgs, s, i), i)
<1> DEFINE m == msgs[i]
           u == Turn(msgs, s, i)
<1>0. /\ Len(msgs) \in Nat /\ m \in Message /\ Writes(m) = {}
      /\ s.next \in i .. Len(msgs) + 1
  <2>1. Len(msgs) \in Nat /\ m \in Message /\ Writes(m) = {}
    BY HistoryMessages
  <2>2. s.next \in (i - 1) + 1 .. Len(msgs) + 1 /\ (i - 1) + 1 = i
    BY DEF SplitInv
  <2> QED
    BY <2>1, <2>2
<1>1. CASE i < s.next
  <2>1. u = s
    <3>1. ~(i >= s.next)
      BY <1>0, <1>1
    <3> QED
      BY <1>1, <3>1 DEF Turn
  <2>2. s.next \in i + 1 .. Len(msgs) + 1
    BY <1>0, <1>1
  <2> QED
    BY <2>1, <2>2 DEF SplitInv
<1>2. CASE s.next = i /\ IsParallel(m)
  <2> DEFINE out == s.out \o OneByOne(msgs, i)
  <2>1. u = [out |-> out, next |-> AfterResults(msgs, i)]
    BY <1>2 DEF Turn
  <2>2. AfterResults(msgs, i) \in i + 1 .. Len(msgs) + 1
    BY <1>2, ResultsAhead DEF IsParallel
  <2>3. Paired(s.out) /\ ~Pending(s.out)
    BY <1>2 DEF SplitInv, IsParallel
  <2>4. Paired(OneByOne(msgs, i)) /\ ~Pending(OneByOne(msgs, i))
    BY <1>2, OneByOnePaired
  <2>5. Paired(out) /\ ~Pending(out)
    BY <2>3, <2>4, PairedConcat
  <2> HIDE DEF out
  <2>6. u.out = out /\ u.next = AfterResults(msgs, i)
    BY <2>1
  <2> QED
    BY <2>2, <2>5, <2>6 DEF SplitInv
<1>3. CASE s.next = i /\ ~IsParallel(m)
  <2> DEFINE out == Append(s.out, m)
  <2>1. u = [out |-> out, next |-> i + 1]
    BY <1>3 DEF Turn
  <2>2. Paired(s.out) /\ (Pending(s.out) => m.answers = s.out[Len(s.out)].calls[1].id)
    BY <1>3 DEF SplitInv
  <2>3. ASSUME Calling(m)
        PROVE  /\ Len(m.calls) = 1 /\ 1 \in DOMAIN m.calls /\ m.role = "assistant"
               /\ m.calls[1].tool \notin WriteTools
    <3>1. Len(m.calls) = 1 /\ 1 \in DOMAIN m.calls /\ m.role = "assistant"
      <4>1. m.role = "assistant" /\ m.calls # << >> /\ ~(Len(m.calls) > 1)
        BY <1>3, <2>3 DEF Calling, IsParallel
      <4>2. m \in Message
        BY <1>0
      <4> HIDE DEF m
      <4>3. /\ Len(m.calls) \in Nat /\ DOMAIN m.calls = 1 .. Len(m.calls)
            /\ Len(m.calls) # 0
        BY <4>1, <4>2, CallsOf
      <4> DEFINE n == Len(m.calls)
      <4>4. n \in Nat /\ n # 0 /\ ~(n > 1)
        BY <4>1, <4>3
      <4> HIDE DEF n
      <4>5. n = 1
        BY <4>4
      <4> QED
        BY <4>1, <4>3, <4>5 DEF n
    <3>2. m.calls[1].tool \notin WriteTools
      BY <1>0, <3>1 DEF Writes
    <3> QED
      BY <3>1, <3>2
  <2>4. Paired(out) /\ out[Len(out)] = m /\ (Pending(out) <=> Calling(m))
    <3> HIDE DEF m
    <3> QED
      BY <2>2, <2>3, PairedAppend
  <2> HIDE DEF out
  <2>5. u.out = out /\ u.next = i + 1
    BY <2>1
  <2>6. ASSUME Calling(m)
        PROVE  i + 1 <= Len(msgs) /\ msgs[i + 1].role = "tool" /\ msgs[i + 1].answers = m.calls[1].id
    <3>1. PICK k \in i + 1 .. Len(msgs) :
            /\ k <= i + Len(m.calls)
            /\ msgs[k].answers = m.calls[1].id
            /\ \A j \in i + 1 .. k : msgs[j].role = "tool"
      BY <2>3, <2>6 DEF IsHistory
    <3>2. k <= i + 1
      BY <2>3, <2>6, <3>1
    <3>3. k = i + 1
      BY <1>0, <3>2
    <3>4. i + 1 \in i + 1 .. k
      BY <1>0, <3>3
    <3> QED
      BY <1>0, <3>1, <3>3, <3>4
  <2>7. i + 1 \in i + 1 .. Len(msgs) + 1
    BY <1>0
  <2> HIDE DEF m, u
  <2>8. Pending(u.out) => u.out[Len(u.out)] = m /\ Calling(m)
    BY <2>4, <2>5
  <2>9. Paired(u.out) /\ u.next \in i + 1 .. Len(msgs) + 1
    BY <2>4, <2>5, <2>7
  <2>10. ASSUME Pending(u.out)
         PROVE  /\ u.next <= Len(msgs) /\ msgs[u.next].role = "tool"
                /\ msgs[u.next].answers = u.out[Len(u.out)].calls[1].id
    <3>1. u.out[Len(u.out)] = m /\ Calling(m)
      BY <2>8, <2>10
    <3>2. i + 1 <= Len(msgs) /\ msgs[i + 1].role = "tool" /\ msgs[i + 1].answers = m.calls[1].id
      BY <2>6, <3>1
    <3> QED
      BY <2>5, <3>1, <3>2
  <2> QED
    BY <2>9, <2>10 DEF SplitInv, u
<1> QED
  BY <1>0, <1>1, <1>2, <1>3

\* What the turns for each set of messages give, in their order
Turned(t, msgs, n) ==
  t = [P \in SUBSET (1 .. n) |->
         IF P = {} THEN [out |-> << >>, next |-> 1]
         ELSE Turn(msgs, t[P \ {Max(P)}], Max(P))]

\* There is such a table.
LEMMA TurnedExists ==
  ASSUME NEW n \in Nat, NEW msgs
  PROVE  \E t : Turned(t, msgs, n)
<1> DEFINE base == [out |-> << >>, next |-> 1]
           S == {m \in 0 .. n : \E t : Turned(t, msgs, m)}
<1>1. 0 \in S
  <2> DEFINE t == [P \in SUBSET (1 .. 0) |-> base]
  <2>1. 1 .. 0 = {}
    OBVIOUS
  <2>2. t = [P \in SUBSET (1 .. 0) |->
               IF P = {} THEN base ELSE Turn(msgs, t[P \ {Max(P)}], Max(P))]
    BY <2>1
  <2> HIDE DEF t
  <2>3. Turned(t, msgs, 0)
    BY <2>2 DEF Turned
  <2> QED
    BY <2>3
<1>2. ASSUME NEW m \in 0 .. n, m \in S, m < n PROVE m + 1 \in S
  <2>1. PICK t : Turned(t, msgs, m)
    BY <1>2
  <2> DEFINE u == [P \in SUBSET (1 .. m + 1) |->
                     IF m + 1 \in P THEN Turn(msgs, t[P \ {m + 1}], m + 1) ELSE t[P]]
  <2>2. \A P \in SUBSET (1 .. m) :
          t[P] = IF P = {} THEN base ELSE Turn(msgs, t[P \ {Max(P)}], Max(P))
    BY <2>1 DEF Turned
  <2>3. ASSUME NEW P \in SUBSET (1 .. m + 1)
        PROVE  u[P] = IF P = {} THEN base ELSE Turn(msgs, u[P \ {Max(P)}], Max(P))
    <3>1. CASE m + 1 \in P
      <4>1. Max(P) = m + 1
        <5>1. \A y \in P : m + 1 >= y
          BY <1>2
        <5>2. \A x \in P : (\A y \in P : x >= y) => x = m + 1
          BY <1>2, <3>1
        <5> QED
          BY <3>1, <5>1, <5>2 DEF Max
      <4>2. P \ {m + 1} \in SUBSET (1 .. m + 1) /\ m + 1 \notin P \ {m + 1}
        OBVIOUS
      <4>3. u[P \ {m + 1}] = t[P \ {m + 1}]
        BY <4>2
      <4>4. u[P] = Turn(msgs, t[P \ {m + 1}], m + 1)
        BY <3>1
      <4> HIDE DEF u
      <4> QED
        BY <3>1, <4>1, <4>3, <4>4
    <3>2. CASE m + 1 \notin P
      <4>1. P \in SUBSET (1 .. m)
        BY <1>2, <3>2
      <4>2. u[P] = t[P]
        BY <3>2
      <4>3. P \ {Max(P)} \in SUBSET (1 .. m + 1) /\ m + 1 \notin P \ {Max(P)}
        BY <3>2
      <4>4. u[P \ {Max(P)}] = t[P \ {Max(P)}]
        BY <4>3
      <4> HIDE DEF u
      <4> QED
        BY <2>2, <4>1, <4>2, <4>4
    <3> QED
      BY <3>1, <3>2
  <2>4. u = [P \in SUBSET (1 .. m + 1) |-> u[P]]
    OBVIOUS
  <2> HIDE DEF u
  <2>5. u = [P \in SUBSET (1 .. m + 1) |->
               IF P = {} THEN base ELSE Turn(msgs, u[P \ {Max(P)}], Max(P))]
    BY <2>3, <2>4
  <2>6. Turned(u, msgs, m + 1)
    BY <2>5 DEF Turned
  <2>7. m + 1 \in 0 .. n
    BY <1>2
  <2> QED
    BY <2>6, <2>7
<1>3. n \in S
  <2> HIDE DEF S
  <2>1. \A k \in 0 .. n : k \in S
    BY <1>1, <1>2, UpTo
  <2> QED
    BY <2>1
<1> QED
  BY <1>3

\* The largest of some places is one of them.
LEMMA MaxOfPlaces ==
  ASSUME NEW n \in Nat, NEW P \in SUBSET (1 .. n), P # {}
  PROVE  Max(P) \in P
<1> DEFINE low == {n - x : x \in P}
<1>1. PICK y \in low : \A z \in low : y <= z
  <2>1. \A x \in P : n - x \in Nat
    OBVIOUS
  <2>2. low \subseteq Nat /\ low # {}
    BY <2>1
  <2> HIDE DEF low
  <2> QED
    BY <2>2, NatHasMin
<1>2. PICK m \in P : y = n - m
  OBVIOUS
<1>3. \A x \in P : m >= x
  <2> SUFFICES ASSUME NEW x \in P PROVE m >= x
    OBVIOUS
  <2>1. n - x \in low
    OBVIOUS
  <2>2. n - m <= n - x
    BY <1>1, <1>2, <2>1
  <2> QED
    BY <2>2
<1> QED
  BY <1>3 DEF Max

\* A history is split into single calls, each with its result behind it.
LEMMA HistorySplit ==
  ASSUME NEW msgs, IsHistory(msgs)
  PROVE  Paired(split_parallel_tool_calls(msgs)) /\ ~Pending(split_parallel_tool_calls(msgs))
<1> DEFINE n == Len(msgs)
           base == [out |-> << >>, next |-> 1]
           places == [i \in DOMAIN msgs |-> i]
           Rec(t) == t = [P \in SUBSET DOMAIN places |->
                            IF P = {} THEN base
                            ELSE Turn(msgs, t[P \ {Max(P)}], places[Max(P)])]
           table == CHOOSE t : Rec(t)
<1>1. n \in Nat /\ DOMAIN msgs = 1 .. n
  BY DEF IsHistory
<1>2. PICK g : Turned(g, msgs, n)
  BY <1>1, TurnedExists
<1>3. \A P \in SUBSET (1 .. n) : P # {} => Max(P) \in 1 .. n
  <2> SUFFICES ASSUME NEW P \in SUBSET (1 .. n), P # {} PROVE Max(P) \in 1 .. n
    OBVIOUS
  <2>1. Max(P) \in P
    BY <1>1, MaxOfPlaces
  <2> QED
    BY <2>1
<1>4. Rec(g)
  <2>1. ASSUME NEW P \in SUBSET (1 .. n)
        PROVE  g[P] = IF P = {} THEN base ELSE Turn(msgs, g[P \ {Max(P)}], places[Max(P)])
    <3>1. g[P] = IF P = {} THEN base ELSE Turn(msgs, g[P \ {Max(P)}], Max(P))
      BY <1>2 DEF Turned
    <3>2. P # {} => places[Max(P)] = Max(P)
      BY <1>1, <1>3
    <3> QED
      BY <3>1, <3>2
  <2>2. g = [P \in SUBSET (1 .. n) |-> g[P]]
    BY <1>2 DEF Turned
  <2>3. DOMAIN places = 1 .. n
    BY <1>1
  <2> HIDE DEF places, base
  <2> QED
    BY <2>1, <2>2, <2>3
<1>5. Rec(table)
  <2> HIDE DEF Rec
  <2> QED
    BY <1>4
<1>6. split_parallel_tool_calls(msgs) = table[DOMAIN places].out
  BY DEF split_parallel_tool_calls, FoldLeft, MapThenFoldSet, Turn
<1>7. \A P \in SUBSET (1 .. n) :
        table[P] = IF P = {} THEN base ELSE Turn(msgs, table[P \ {Max(P)}], Max(P))
  <2>1. DOMAIN places = 1 .. n /\ \A i \in 1 .. n : places[i] = i
    BY <1>1
  <2> HIDE DEF table, places, base
  <2> QED
    BY <1>3, <1>5, <2>1
<1> HIDE DEF table, Rec
<1> DEFINE good == {k \in 0 .. n : SplitInv(msgs, table[1 .. k], k)}
<1>8. 0 \in good
  <2>1. 1 .. 0 = {} /\ {} \in SUBSET (1 .. n)
    OBVIOUS
  <2>2. table[1 .. 0] = base
    BY <1>7, <2>1
  <2>3. IsSeq(<< >>) /\ Len(<< >>) = 0 /\ DOMAIN << >> = {}
    BY NoneIsSeq
  <2>4. Paired(<< >>) /\ ~Pending(<< >>)
    BY <2>3 DEF Paired, Pending
  <2>5. SplitInv(msgs, base, 0)
    BY <1>1, <2>4 DEF SplitInv
  <2> QED
    BY <1>1, <2>2, <2>5
<1>9. ASSUME NEW k \in 0 .. n, k \in good, k < n PROVE k + 1 \in good
  <2> DEFINE l == k + 1
  <2>1. l \in 1 .. n /\ l - 1 = k /\ 1 .. l \in SUBSET (1 .. n) /\ 1 .. l # {} /\ l \in 1 .. l
    <3>1. l \in 1 .. n /\ l - 1 = k
      BY <1>9
    <3> HIDE DEF l
    <3> QED
      BY <1>1, <3>1
  <2>2. (1 .. l) \ {l} = 1 .. k
    OBVIOUS
  <2> HIDE DEF l
  <2>3. Max(1 .. l) = l
    <3>1. \A x \in 1 .. l : l >= x
      BY <2>1
    <3>2. \A x \in 1 .. l : (\A y \in 1 .. l : x >= y) => x = l
      BY <2>1
    <3> QED
      BY <2>1, <3>1, <3>2 DEF Max
  <2>4. table[1 .. l] = Turn(msgs, table[(1 .. l) \ {l}], l)
    BY <1>7, <2>1, <2>3
  <2>5. table[1 .. l] = Turn(msgs, table[1 .. k], l)
    BY <2>2, <2>4
  <2>6. SplitInv(msgs, table[1 .. k], l - 1)
    BY <1>9, <2>1
  <2>7. SplitInv(msgs, table[1 .. l], l)
    BY <2>1, <2>5, <2>6, TurnKeeps
  <2> QED
    BY <2>1, <2>7 DEF l
<1>10. SplitInv(msgs, table[1 .. n], n)
  <2> HIDE DEF good
  <2>1. \A k \in 0 .. n : k \in good
    BY <1>1, <1>8, <1>9, UpTo
  <2>2. n \in good
    BY <1>1, <2>1
  <2> QED
    BY <2>2 DEF good
<1>11. Paired(table[1 .. n].out) /\ ~Pending(table[1 .. n].out)
  <2>1. table[1 .. n].next \in n + 1 .. n + 1
    BY <1>10 DEF SplitInv
  <2>2. ~(table[1 .. n].next <= n)
    BY <1>1, <2>1
  <2> QED
    BY <1>10, <2>2 DEF SplitInv
<1>12. DOMAIN places = 1 .. n
  BY <1>1
<1> QED
  BY <1>6, <1>11, <1>12

\* What a conversation holds in front of its gate is a history: the results of a
\* message in front of the gate are in front of it, too, since the gate is no result.
LEMMA HistoryOf ==
  ASSUME NEW msgs, IsConversation(msgs), HasGate(msgs)
  PROVE  IsHistory(SubSeq(msgs, 1, find_gate_index(msgs) - 1))
<1> DEFINE g == find_gate_index(msgs)
           n == Len(msgs)
           S == {k \in DOMAIN msgs : Writes(msgs[k]) # {}} \cup {n + 1}
           h == SubSeq(msgs, 1, g - 1)
<1>1. msgs \in Seq(Message) /\ n \in Nat /\ DOMAIN msgs = 1 .. n
  BY DEF IsConversation
<1>2. g \in 1 .. n /\ g = Min(S)
  BY <1>1 DEF HasGate, find_gate_index
<1>3. g \in S /\ \A k \in S : g <= k
  <2>1. S \subseteq Nat /\ S # {}
    BY <1>1
  <2> HIDE DEF S, g
  <2> QED
    BY <1>2, <2>1, MinOfPlaces
<1>4. Writes(msgs[g]) # {}
  <2> HIDE DEF g, n
  <2>1. g \in S
    <3> HIDE DEF S
    <3> QED
      BY <1>3
  <2>2. g # n + 1
    BY <1>1, <1>2
  <2> QED
    BY <2>1, <2>2
<1>5. msgs[g].role = "assistant"
  BY <1>4 DEF Writes
<1> HIDE DEF g
<1>6. ASSUME NEW k \in 1 .. g - 1 PROVE k \in 1 .. n /\ Writes(msgs[k]) = {}
  <2>1. k \in 1 .. n /\ ~(g <= k)
    BY <1>1, <1>2
  <2>2. k \notin S
    <3> HIDE DEF S
    <3> QED
      BY <1>3, <2>1
  <2> QED
    BY <1>1, <2>1, <2>2
<1>7. h \in Seq(Message) /\ Len(h) = g - 1 /\ \A k \in 1 .. g - 1 : h[k] = msgs[k]
  <2> DEFINE m == g - 1
  <2>1. m \in Nat /\ m <= n
    BY <1>1, <1>2
  <2> HIDE DEF m
  <2>2. SubSeq(msgs, 1, m) = [k \in 1 .. m |-> msgs[k]]
    BY <1>1, <2>1
  <2>3. [k \in 1 .. m |-> msgs[k]] \in Seq(Message)
    BY <1>1, <2>1
  <2>4. Len([k \in 1 .. m |-> msgs[k]]) = m
    BY <2>1
  <2> QED
    BY <2>2, <2>3, <2>4 DEF m
<1> HIDE DEF h
<1>8. ASSUME NEW i \in 1 .. g - 1, msgs[i].role = "assistant", NEW c \in DOMAIN msgs[i].calls
      PROVE  \E k \in i + 1 .. g - 1 :
               /\ k <= i + Len(msgs[i].calls)
               /\ msgs[k].answers = msgs[i].calls[c].id
               /\ \A j \in i + 1 .. k : msgs[j].role = "tool"
  <2>1. i \in 1 .. n - 1
    BY <1>1, <1>2
  <2>2. PICK k \in i + 1 .. n :
          /\ k <= i + Len(msgs[i].calls)
          /\ msgs[k].answers = msgs[i].calls[c].id
          /\ \A j \in i + 1 .. k : msgs[j].role = "tool"
    <3> HIDE DEF n
    <3>1. \A x \in 1 .. n - 1 : msgs[x].role = "assistant" =>
            \A d \in DOMAIN msgs[x].calls :
              \E k \in x + 1 .. n :
                /\ k <= x + Len(msgs[x].calls)
                /\ msgs[k].answers = msgs[x].calls[d].id
                /\ \A j \in x + 1 .. k : msgs[j].role = "tool"
      BY DEF IsConversation, n
    <3> QED
      BY <1>8, <2>1, <3>1
  <2>3. g \notin i + 1 .. k
    BY <1>5, <2>2
  <2>4. k \in i + 1 .. g - 1
    BY <1>1, <1>2, <2>2, <2>3
  <2> QED
    BY <2>2, <2>4
<1>9. ASSUME NEW i \in 1 .. Len(h)
      PROVE  /\ Writes(h[i]) = {}
             /\ h[i].role = "assistant" => \A c \in DOMAIN h[i].calls :
                  \E k \in i + 1 .. Len(h) :
                    /\ k <= i + Len(h[i].calls)
                    /\ h[k].answers = h[i].calls[c].id
                    /\ \A j \in i + 1 .. k : h[j].role = "tool"
  <2>1. i \in 1 .. g - 1 /\ h[i] = msgs[i]
    BY <1>7
  <2>2. ASSUME h[i].role = "assistant", NEW c \in DOMAIN h[i].calls
        PROVE  \E k \in i + 1 .. Len(h) :
                 /\ k <= i + Len(h[i].calls)
                 /\ h[k].answers = h[i].calls[c].id
                 /\ \A j \in i + 1 .. k : h[j].role = "tool"
    <3>1. PICK k \in i + 1 .. g - 1 :
            /\ k <= i + Len(msgs[i].calls)
            /\ msgs[k].answers = msgs[i].calls[c].id
            /\ \A j \in i + 1 .. k : msgs[j].role = "tool"
      BY <1>8, <2>1, <2>2
    <3>2. k \in 1 .. g - 1 /\ \A j \in i + 1 .. k : j \in 1 .. g - 1
      <4> DEFINE m == g - 1
      <4>1. m \in Nat /\ i \in 1 .. m /\ k \in i + 1 .. m
        BY <1>1, <1>2, <2>1
      <4> HIDE DEF m
      <4>2. k \in 1 .. m /\ \A j \in i + 1 .. k : j \in 1 .. m
        BY <4>1
      <4> QED
        BY <4>2 DEF m
    <3>3. h[k] = msgs[k] /\ \A j \in i + 1 .. k : h[j] = msgs[j]
      BY <1>7, <3>2
    <3> QED
      BY <1>7, <2>1, <3>1, <3>3
  <2> QED
    BY <1>6, <2>1, <2>2
<1>10. IsHistory(h)
  BY <1>7, <1>9 DEF IsHistory
<1> QED
  BY <1>10 DEF h, g

\* The builder's locals: what is left are recorded conversations, and every prompt in
\* the file has a gate met before, which no other prompt has
BuildInv ==
  /\ build = [on |-> build.on, sims |-> build.sims, seen |-> build.seen,
              written |-> build.written]
  /\ build.sims \in Seq(Conversations)
  /\ IsSeq(build.written)
  /\ \A x \in DOMAIN build.written :
       /\ build.written[x].key \in build.seen
       /\ Paired(build.written[x].messages) /\ ~Pending(build.written[x].messages)
       /\ \A y \in DOMAIN build.written :
            build.written[y].key = build.written[x].key => y = x

\* A builder that is off, or starts, has written nothing.
LEMMA BuildStarts ==
  /\ build = BuildOff => BuildInv
  /\ build' = BuildOff => BuildInv'
  /\ StartBuild => BuildInv'
<1>1. IsSeq(<< >>) /\ DOMAIN << >> = {} /\ << >> \in Seq(Conversations)
  BY NoneIsSeq
<1>2. ASSUME build = BuildOff PROVE BuildInv
  BY <1>1, <1>2 DEF BuildInv, BuildOff
<1>3. ASSUME build' = BuildOff PROVE BuildInv'
  BY <1>1, <1>3 DEF BuildInv, BuildOff
<1>4. ASSUME StartBuild PROVE BuildInv'
  <2>1. PICK sims \in [1 .. Simulations -> Conversations] :
          build' = [BuildOff EXCEPT !.on = TRUE, !.sims = sims]
    BY <1>4 DEF StartBuild
  <2>2. sims \in Seq(Conversations)
    BY ConversationAssumption
  <2>3. build' = [on |-> TRUE, sims |-> sims, seen |-> {}, written |-> << >>]
    BY <2>1 DEF BuildOff
  <2> QED
    BY <1>1, <2>2, <2>3 DEF BuildInv
<1> QED
  BY <1>2, <1>3, <1>4

\* Each simulation keeps the file in order.
LEMMA BuilderKeeps ==
  ASSUME BuildInv, BuildNext
  PROVE  BuildInv'
<1>0. /\ build.sims # << >> /\ build.sims \in Seq(Conversations)
      /\ build = [on |-> build.on, sims |-> build.sims, seen |-> build.seen, written |-> build.written]
  BY DEF BuildInv, BuildNext, Skip, TemplateFails, WritePrompt
<1>1. Sim \in Conversations /\ Tail(build.sims) \in Seq(Conversations)
  BY <1>0 DEF Sim
<1>2. CASE Skip
  <2>1. build' = [on |-> build.on, sims |-> Tail(build.sims), seen |-> build.seen,
                  written |-> build.written]
    BY <1>0, <1>2 DEF Skip
  <2> QED
    BY <1>1, <2>1 DEF BuildInv
<1>3. CASE TemplateFails
  <2>1. build' = [on |-> build.on, sims |-> Tail(build.sims), seen |-> build.seen \cup {Key(Sim)},
                  written |-> build.written]
    BY <1>0, <1>3 DEF TemplateFails
  <2> QED
    BY <1>1, <2>1 DEF BuildInv
<1>4. CASE WritePrompt
  <2> DEFINE old == build.written
             e == [key |-> Key(Sim), messages |-> History(Sim)]
             new == Append(old, e)
  <2>1. build' = [on |-> build.on, sims |-> Tail(build.sims), seen |-> build.seen \cup {Key(Sim)},
                  written |-> new]
    BY <1>0, <1>4 DEF WritePrompt
  <2>2. Key(Sim) \notin build.seen /\ HasGate(Sim.messages)
    BY <1>4 DEF WritePrompt, IsNew
  <2>3. Paired(e.messages) /\ ~Pending(e.messages)
    <3>1. IsConversation(Sim.messages)
      BY <1>1, ConversationAssumption
    <3>2. IsHistory(SubSeq(Sim.messages, 1, find_gate_index(Sim.messages) - 1))
      BY <2>2, <3>1, HistoryOf
    <3>3. Paired(History(Sim)) /\ ~Pending(History(Sim))
      BY <3>2, HistorySplit DEF History
    <3>4. e.messages = History(Sim)
      OBVIOUS
    <3> QED
      BY <3>3, <3>4
  <2>4. e.key = Key(Sim)
    OBVIOUS
  <2>5. /\ IsSeq(new) /\ Len(old) \in Nat /\ Len(new) = Len(old) + 1
        /\ DOMAIN old = 1 .. Len(old)
        /\ \A k \in 1 .. Len(old) : new[k] = old[k]
        /\ new[Len(old) + 1] = e
    <3> HIDE DEF e
    <3> QED
      BY AppendAny DEF BuildInv
  <2> HIDE DEF new, e
  <2>6. DOMAIN new = 1 .. Len(new)
    BY <2>5, DomainAny
  <2>7. ASSUME NEW x \in 1 .. Len(old)
        PROVE  /\ old[x].key \in build.seen /\ old[x].key # e.key
               /\ Paired(old[x].messages) /\ ~Pending(old[x].messages)
               /\ \A y \in 1 .. Len(old) : old[y].key = old[x].key => y = x
    BY <2>2, <2>4, <2>5 DEF BuildInv
  <2>8. ASSUME NEW x \in DOMAIN new
        PROVE  /\ new[x].key \in build.seen \cup {e.key}
               /\ Paired(new[x].messages) /\ ~Pending(new[x].messages)
               /\ \A y \in DOMAIN new : new[y].key = new[x].key => y = x
    <3>1. x \in 1 .. Len(old) \/ x = Len(old) + 1
      BY <2>5, <2>6
    <3>2. \A y \in DOMAIN new : y \in 1 .. Len(old) \/ y = Len(old) + 1
      BY <2>5, <2>6
    <3>3. CASE x \in 1 .. Len(old)
      BY <2>5, <2>7, <3>2, <3>3
    <3>4. CASE x = Len(old) + 1
      BY <2>3, <2>5, <2>7, <3>2, <3>4
    <3> QED
      BY <3>1, <3>3, <3>4
  <2> QED
    BY <1>1, <2>1, <2>4, <2>5, <2>8 DEF BuildInv
<1> QED
  BY <1>2, <1>3, <1>4 DEF BuildNext

\* Every step of a job keeps the file in order.
LEMMA NextBuild == BuildInv /\ [JobNext]_allVars => BuildInv'
<1> SUFFICES ASSUME BuildInv, [JobNext]_allVars PROVE BuildInv'
  OBVIOUS
<1>1. CASE UNCHANGED build
  BY <1>1 DEF BuildInv
<1>2. CASE Builder
  <2>1. CASE BuildNext
    BY <2>1, BuilderKeeps
  <2>2. CASE BuildEnds
    BY <2>2, BuildStarts DEF BuildEnds
  <2> QED
    BY <1>2, <2>1, <2>2 DEF Builder
<1>3. CASE NextProcess
  <2>1. CASE UNCHANGED build
    BY <1>1, <2>1
  <2>2. CASE StartBuild
    BY <2>2, BuildStarts
  <2> QED
    BY <1>3, <2>1, <2>2 DEF NextProcess, localVars
<1>4. CASE \/ ServerStarts \/ ServerStartFails \/ Kill \/ PartCloses
           \/ bench_m2 \/ Engine \/ UNCHANGED allVars
  BY <1>1, <1>4 DEF ServerStarts, ServerStartFails, Kill, PartCloses, bench_m2, Engine, localVars,
                    allVars
<1>5. CASE Script \/ Of(LoadNext)
  BY <1>1, <1>5 DEF Script, Of, localVars
<1> QED
  BY <1>2, <1>3, <1>4, <1>5 DEF JobNext, JobRuns, PartEnds, ServerExits

\* A prompt of the builder can be rendered and stops before the approval: one call to a
\* message, its own result behind it, none that waits for an approval, and no two
\* prompts of the same gate, for any conversations that answer their calls.
THEOREM PromptsWellFormedCorrect == JobSpec => []PromptsWellFormed
<1>1. JobInit => BuildInv
  BY BuildStarts DEF JobInit
<1>2. BuildInv => PromptsWellFormed
  <2> SUFFICES ASSUME BuildInv, NEW x \in DOMAIN build.written
               PROVE  LET msgs == build.written[x].messages
                      IN /\ \A k \in DOMAIN msgs :
                              msgs[k].role = "assistant" /\ msgs[k].calls # << >> =>
                                /\ Len(msgs[k].calls) = 1
                                /\ msgs[k].calls[1].tool \notin WriteTools
                                /\ k < Len(msgs) /\ msgs[k + 1].answers = msgs[k].calls[1].id
                         /\ \A y \in DOMAIN build.written :
                              build.written[y].key = build.written[x].key => y = x
    BY DEF PromptsWellFormed
  <2> DEFINE msgs == build.written[x].messages
  <2>1. /\ Paired(msgs) /\ ~Pending(msgs)
        /\ \A y \in DOMAIN build.written :
             build.written[y].key = build.written[x].key => y = x
    BY DEF BuildInv
  <2> HIDE DEF msgs
  <2>2. DOMAIN msgs = 1 .. Len(msgs) /\ Len(msgs) \in Nat
    BY <2>1, DomainAny DEF Paired
  <2>3. ASSUME NEW k \in DOMAIN msgs, msgs[k].role = "assistant", msgs[k].calls # << >>
        PROVE  /\ Len(msgs[k].calls) = 1
               /\ msgs[k].calls[1].tool \notin WriteTools
               /\ k < Len(msgs) /\ msgs[k + 1].answers = msgs[k].calls[1].id
    <3>1. Calling(msgs[k])
      BY <2>3 DEF Calling
    <3>2. /\ Len(msgs[k].calls) = 1 /\ msgs[k].calls[1].tool \notin WriteTools
          /\ k < Len(msgs) => msgs[k + 1].answers = msgs[k].calls[1].id
      BY <2>1, <3>1 DEF Paired
    <3>3. k # Len(msgs)
      <4>1. k = Len(msgs) => Len(msgs) # 0 /\ Calling(msgs[Len(msgs)])
        BY <2>2, <3>1
      <4> QED
        BY <2>1, <4>1 DEF Pending
    <3>4. k < Len(msgs)
      BY <2>2, <3>3
    <3> QED
      BY <3>2, <3>4
  <2> QED
    BY <2>1, <2>3 DEF msgs
<1> QED
  BY <1>1, <1>2, NextBuild, PTL DEF JobSpec
=============================================================================
