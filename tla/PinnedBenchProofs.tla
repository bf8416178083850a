-------------------------- MODULE PinnedBenchProofs --------------------------
(***************************************************************************)
(* Proofs about PinnedBench for every list of points, every number of      *)
(* contexts and background requests, every pool and every prompt, and for  *)
(* requests that the server keeps, any number of them and for any time,    *)
(* after the client gave them up.  A background request leaves one row,    *)
(* whatever happens.  Of a point that no such request has disturbed: it    *)
(* starts from nothing, the pins are the suspended contexts, and an        *)
(* answered probe hits unless a touch has unpinned a block of its context. *)
(*                                                                         *)
(* The engine may admit, decode, preempt and finish what it was sent at    *)
(* any time.  Firm says what is certain all the same: who may be in the    *)
(* engine (Turn), which requests have not been sent yet (Ahead), which     *)
(* control is in force.  Calm says what the dict lists and what is cached, *)
(* as long as nothing lingers.  ContextsSound follows the blocks of the    *)
(* suspended contexts: pinned while they sleep, and, once a probe has      *)
(* unpinned what it shares with a later context, in the queue until the    *)
(* next probe takes it up again.                                           *)
(***************************************************************************)
EXTENDS PinnedBench, BlockPoolProofs

-----------------------------------------------------------------------------
(* The requests of a point.                                                *)

\* Sends, probes and background requests are different calls.
LEMMA RoleFacts ==
  /\ Len(Sends) \in Nat /\ Len(Probes) = Len(Sends)
  /\ DOMAIN Sends = 1 .. Len(Sends) /\ DOMAIN Probes = 1 .. Len(Sends)
  /\ \A i \in 1 .. Len(Sends) :
       /\ Sends[i] \in Requests /\ Probes[i] \in Requests
       /\ Sends[i] \notin Load /\ Probes[i] \notin Load
       /\ PromptOf[Sends[i]] = PromptOf[Probes[i]]
       /\ \A j \in 1 .. Len(Sends) :
            /\ Sends[i] = Sends[j] => i = j
            /\ Probes[i] = Probes[j] => i = j
            /\ Sends[i] # Probes[j]
  /\ Load \subseteq Requests
<1>1. /\ Sends \in Seq(Requests) /\ Probes \in Seq(Requests) /\ Len(Probes) = Len(Sends)
      /\ IsInjective(Sends \o Probes) /\ ToSet(Sends \o Probes) \cap Load = {}
      /\ \A i \in DOMAIN Sends : PromptOf[Sends[i]] = PromptOf[Probes[i]]
      /\ Load \subseteq Requests
  BY BenchAssumption
<1>2. /\ Len(Sends) \in Nat /\ DOMAIN Sends = 1 .. Len(Sends) /\ DOMAIN Probes = 1 .. Len(Sends)
      /\ \A i \in 1 .. Len(Sends) : Sends[i] \in Requests /\ Probes[i] \in Requests
  BY <1>1
<1>3. \A i \in 1 .. Len(Sends) : i \in DOMAIN (Sends \o Probes) /\ (Sends \o Probes)[i] = Sends[i]
  BY <1>1, ConcatPlaces
<1>4. \A i \in 1 .. Len(Sends) : /\ Len(Sends) + i \in DOMAIN (Sends \o Probes)
                                 /\ (Sends \o Probes)[Len(Sends) + i] = Probes[i]
  BY <1>1, ConcatPlaces
<1> DEFINE all == Sends \o Probes
<1>5. IsInjective(all) /\ ToSet(all) \cap Load = {}
  BY <1>1
<1> HIDE DEF all
<1>6. \A i \in 1 .. Len(Sends) :
        /\ i \in DOMAIN all /\ all[i] = Sends[i]
        /\ Len(Sends) + i \in DOMAIN all /\ all[Len(Sends) + i] = Probes[i]
  BY <1>3, <1>4 DEF all
<1>7. ASSUME NEW i \in 1 .. Len(Sends)
      PROVE  Sends[i] \notin Load /\ Probes[i] \notin Load
  BY <1>5, <1>6 DEF ToSet
<1>8. ASSUME NEW i \in 1 .. Len(Sends), NEW j \in 1 .. Len(Sends)
      PROVE  /\ Sends[i] = Sends[j] => i = j
             /\ Probes[i] = Probes[j] => i = j
             /\ Sends[i] # Probes[j]
  <2>1. Sends[i] = Sends[j] => i = j
    BY <1>5, <1>6 DEF IsInjective
  <2>2. Probes[i] = Probes[j] => Len(Sends) + i = Len(Sends) + j
    BY <1>5, <1>6 DEF IsInjective
  <2>3. Sends[i] = Probes[j] => i = Len(Sends) + j
    BY <1>5, <1>6 DEF IsInjective
  <2> QED
    BY <1>2, <2>1, <2>2, <2>3
<1> QED
  BY <1>1, <1>2, <1>7, <1>8

-----------------------------------------------------------------------------
(* The inductive invariant of the measurement.                             *)

Stages ==
  {"off", "reset", "arm", "send", "disarm", "load", "gather", "probe", "done", "crashed"}

\* The requests whose answer run_point() may await.
Turn(r) ==
  \/ stage \in {"load", "gather"} /\ r \in Load
  \/ stage = "send" /\ k <= N /\ r = Sends[k]
  \/ stage = "probe" /\ k <= N /\ r = Probes[k]

BenchType ==
  /\ point \in DOMAIN Points /\ stage \in Stages /\ k \in 1 .. N + 1
  /\ client \in [Requests -> {"new", "open", "answered", "failed"}]
  /\ lingering \subseteq Requests
  /\ ~disturbed => lingering = {}

\* What a request holds, what its client knows, and what it may still do.
ClientSound ==
  \A r \in Requests :
    /\ req_to_blocks[r] # << >> => client[r] = "open" \/ r \in lingering
    /\ r \in finished => client[r] # "new" /\ r \notin lingering
    /\ client[r] = "answered" => r \in finished
    /\ client[r] = "open" => Turn(r) /\ r \notin lingering

\* The requests whose turn has not come.
Ahead ==
  /\ stage \in {"off", "reset", "arm"} => k = 1 /\ \A r \in Requests : client[r] = "new"
  /\ stage = "send" => \A i \in 1 .. N : i > k => client[Sends[i]] = "new"
  /\ stage \in {"send", "disarm", "load", "gather"} =>
       \A i \in 1 .. N : client[Probes[i]] = "new"
  /\ stage = "probe" => \A i \in 1 .. N : i > k => client[Probes[i]] = "new"
  /\ stage \in {"disarm", "load", "gather"} => k = 1

\* The control in force.
CtrlSound ==
  /\ stage \in {"reset", "arm", "load", "gather", "probe"} => ctrl.mode = "off"
  /\ stage \in {"send", "disarm"} =>
       IF arm = "pinned" THEN ctrl = [mode |-> "first_n", n |-> N] ELSE ctrl.mode = "off"

RowsSound ==
  /\ results \in [Load -> Nat]
  /\ \A q \in Load :
       /\ results[q] = IF client[q] \in {"answered", "failed"} THEN 1 ELSE 0
       /\ stage = "probe" => client[q] # "open"

PoolInv == Sound /\ HeldContent /\ Facts!Owned /\ Facts!Tracked

\* What holds whatever lingers in the engine.
Firm == PoolInv /\ BenchType /\ ClientSound /\ Ahead /\ CtrlSound /\ RowsSound

\* How many contexts are suspended.
Suspended ==
  IF arm # "pinned" \/ stage = "arm" THEN 0
  ELSE IF stage # "send" THEN N
  ELSE IF k <= N /\ Sends[k] \in finished THEN k ELSE k - 1

\* The entries of the dict are theirs.
KeysSound ==
  stage \in {"arm", "send", "disarm", "load", "gather"} =>
    /\ Len(pinned_by_request) = Suspended
    /\ \A j \in 1 .. Suspended : pinned_by_request[j].req = Sends[j]

Cold ==
  /\ \A b \in Blocks : Idle(b) /\ ~Reusable(b)
  /\ Len(free_block_queue) = Cardinality(Blocks)

NothingSent == stage = "send" /\ k = 1 /\ \A r \in Requests : client[r] = "new"

ColdSound == stage = "arm" \/ NothingSent => Cold

\* What holds as long as nothing lingers there.
Calm == KeysSound /\ ColdSound

BenchInv == Firm /\ (Undisturbed => Calm)

\* The present point.
LEMMA PointFacts ==
  ASSUME BenchType
  PROVE  /\ N \in 0 .. Len(Sends) /\ N \in Nat /\ Len(Sends) \in Nat /\ N <= MaxPins
         /\ arm \in {"stock", "pinned"} /\ k \in Nat /\ k >= 1 /\ k <= N + 1
<1>1. Points[point] \in ToSet(Points)
  BY DEF BenchType, ToSet
<1>2. arm \in {"stock", "pinned"} /\ N \in 0 .. Len(Sends)
  BY <1>1, BenchAssumption DEF arm, N
<1>3. Len(Sends) \in Nat /\ Len(Sends) <= MaxPins /\ MaxPins \in Nat
  BY BenchAssumption, PromptAssumption
<1> QED
  BY <1>2, <1>3 DEF BenchType

-----------------------------------------------------------------------------
(* The pool under the measurement.                                         *)

\* A step of the pool keeps its invariant.
LEMMA PoolSteps == PoolInv /\ [Next]_vars => PoolInv'
<1> SUFFICES ASSUME PoolInv, [Next]_vars PROVE PoolInv'
  OBVIOUS
<1>1. (Sound /\ Facts!Owned)' /\ [Pool!Next]_Pool!vars
  BY NextSound DEF PoolInv
<1>2. Facts!Tracked'
  BY <1>1, SamePool, PoolAssumed, Facts!NextTracked DEF PoolInv
<1>3. HeldContent'
  BY NextContent DEF PoolInv
<1> QED
  BY <1>1, <1>2, <1>3 DEF PoolInv

\* Steps that only change which requests have finished.
LEMMA FinishedSteps ==
  ASSUME PoolInv, UNCHANGED <<poolVars, ctrl>>, finished' \subseteq Requests,
         \A r \in finished' : req_to_blocks[r] = << >>
  PROVE  PoolInv'
<1>0. /\ UNCHANGED <<free_block_queue, ref_cnt, block_hash, req_to_blocks>>
      /\ UNCHANGED <<pinned_block_ids, pinned_by_request, repinned, ctrl>>
  BY DEF poolVars
<1>1. Sound'
  BY <1>0 DEF PoolInv, Sound, QueueSound, QueuedOnce, HeldSound, DictSound, Departed
<1>2. HeldContent'
  BY <1>0 DEF PoolInv, HeldContent, Content
<1>3. Queued' = Queued /\ ReusableBlocks' = ReusableBlocks /\ Held' = Held /\ Withheld' = Withheld
  BY <1>0 DEF Queued, ReusableBlocks, Reusable, Held, Withheld, EntryOf
<1>4. Facts!Owned'
  BY <1>0, <1>3 DEF PoolInv, Facts!Owned, Facts!TypeOK, Facts!RefCntCountsHolders,
     Facts!Holders, Facts!OneOwner, Facts!PinnedHasContent, Facts!Idle, Facts!Controls
<1>5. Facts!Tracked'
  BY <1>0, <1>3 DEF PoolInv, Facts!Tracked, Facts!NoBlockLost, Facts!Idle
<1> QED
  BY <1>1, <1>2, <1>4, <1>5 DEF PoolInv

\* A request may leave the engine at any time, finished or let go of.
LEMMA LeaveSteps ==
  ASSUME PoolInv, NEW r \in Requests, Release(r),
         finished' = finished \/ finished' = finished \cup {r}
  PROVE  /\ PoolInv' /\ ctrl' = ctrl /\ req_to_blocks'[r] = << >>
         /\ \A q \in Requests : q # r => req_to_blocks'[q] = req_to_blocks[q]
         /\ repinned \subseteq repinned'
<1>1. /\ \A q \in Requests : req_to_blocks'[q] = IF q = r THEN << >> ELSE req_to_blocks[q]
      /\ Pool!Release(r) /\ QueueSound' /\ HeldSound' /\ DictSound'
      /\ DOMAIN block_hash' = Blocks
  BY ReleaseSteps DEF PoolInv
<1>2. Departed'
  BY <1>1 DEF Departed, PoolInv, Sound, Facts!Owned, Facts!TypeOK
<1>3. Pool!Next
  <2>1. r \in Preemptible
    BY BenchAssumption
  <2>2. Pool!Preempt(r) \/ Pool!Finish(r)
    BY <1>1, <2>1 DEF Pool!Preempt, Pool!Finish
  <2> QED
    BY <2>2 DEF Pool!Next
<1>4. Facts!Owned' /\ Facts!Tracked'
  BY <1>3, SamePool, PoolAssumed, Facts!NextOwned, Facts!NextTracked DEF PoolInv
<1>5. HeldContent'
  BY ReleaseContent DEF PoolInv
<1>6. ctrl' = ctrl /\ repinned \subseteq repinned'
  BY DEF Release, ss_pin_request, Pin, free_blocks
<1> QED
  BY <1>1, <1>2, <1>4, <1>5, <1>6 DEF PoolInv, Sound

\* While the control is off, a release pins nothing.
LEMMA ReleaseOff ==
  ASSUME NEW r, Release(r), ctrl.mode = "off"
  PROVE  UNCHANGED <<pinned_block_ids, pinned_by_request, repinned>>
BY DEF Release, ss_should_pin, free_blocks

\* What a step that changes no variable of the pool leaves as it was.
LEMMA StillPool ==
  ASSUME PoolInv, UNCHANGED vars
  PROVE  /\ PoolInv' /\ Cold' = Cold
         /\ req_to_blocks' = req_to_blocks /\ finished' = finished /\ ctrl' = ctrl
         /\ pinned_by_request' = pinned_by_request /\ repinned' = repinned
<1>1. UNCHANGED <<poolVars, ctrl, finished>>
  BY DEF vars
<1>2. PoolInv'
  BY PoolSteps
<1>3. Cold' = Cold
  BY <1>1 DEF poolVars, Cold, Idle, Reusable
<1> QED
  BY <1>1, <1>2, <1>3 DEF poolVars

\* A name may only be used again when the request it stood for has left.
LEMMA VacateSteps ==
  ASSUME PoolInv, NEW r \in Requests, Vacate(r)
  PROVE  /\ PoolInv' /\ ctrl' = ctrl /\ finished' = finished
         /\ lingering' = lingering \ {r}
         /\ r \in lingering => req_to_blocks'[r] = << >>
         /\ r \notin lingering => UNCHANGED vars
         /\ \A q \in Requests : q # r => req_to_blocks'[q] = req_to_blocks[q]
<1>1. CASE r \in lingering /\ req_to_blocks[r] # << >>
  <2>1. Release(r) /\ finished' = finished
    BY <1>1 DEF Vacate
  <2> QED
    BY <1>1, <2>1, LeaveSteps DEF Vacate
<1>2. CASE ~(r \in lingering /\ req_to_blocks[r] # << >>)
  <2>1. UNCHANGED vars
    BY <1>2 DEF Vacate
  <2> QED
    BY <1>2, <2>1, StillPool DEF Vacate
<1> QED
  BY <1>1, <1>2

\* A request that is alone in the engine is the last user of all its blocks.
LEMMA AloneKeeps ==
  ASSUME PoolInv, NEW r \in Requests, req_to_blocks[r] # << >>,
         \A q \in Requests \ {r} : req_to_blocks[q] = << >>
  PROVE  Among(LastUsedBy(r), ReusableBlocks) # << >>
<1>1. /\ req_to_blocks[r] \in Seq(Blocks) /\ Len(req_to_blocks[r]) >= Len(PromptOf[r])
      /\ Len(PromptOf[r]) \in Nat /\ Len(PromptOf[r]) >= 1
  BY PromptFacts, PromptAssumption DEF PoolInv, Sound, HeldSound, HeldContent
<1> DEFINE b == req_to_blocks[r][1]
<1>2. b \in Blocks /\ 1 \in DOMAIN req_to_blocks[r] /\ b \in Held[r]
  <2> DEFINE s == req_to_blocks[r]
  <2>1. s \in Seq(Blocks) /\ Len(s) >= 1
    BY <1>1
  <2> HIDE DEF s
  <2>2. 1 \in DOMAIN s /\ s[1] \in Blocks
    BY <2>1
  <2> QED
    BY <2>2 DEF s, Held, ToSet
<1>3. b \in ReusableBlocks
  <2>1. block_hash[b] = Content(r, 1)
    BY <1>2 DEF PoolInv, HeldContent
  <2>2. 1 \in 1 .. Len(PromptOf[r]) /\ 1 <= Len(PromptOf[r])
    BY <1>1
  <2>3. Content(r, 1) # None
    BY <2>2, KeyFacts DEF Content
  <2> QED
    BY <1>2, <2>1, <2>3 DEF ReusableBlocks, Reusable
<1>4. ref_cnt[b] = 1
  <2>1. Facts!Holders(b) = {r}
    BY <1>2 DEF Facts!Holders, Held, ToSet
  <2>2. ref_cnt[b] = Facts!Cardinality(Facts!Holders(b))
    BY <1>2 DEF PoolInv, Facts!Owned, Facts!RefCntCountsHolders
  <2>3. Cardinality({r}) = 1
    BY FS_Singleton
  <2> QED
    BY <2>1, <2>2, <2>3, SameCardinality
<1>5. LastUsedBy(r) \in Seq(Blocks) /\ b \in ToSet(LastUsedBy(r))
  BY <1>2, <1>4, LastUsedFacts DEF PoolInv, Sound, Pool!LastUsedBy
<1>6. b \in ToSet(Among(LastUsedBy(r), ReusableBlocks))
  BY <1>3, <1>5, AmongFacts
<1> QED
  BY <1>6 DEF ToSet

\* A send that finishes in the pinned arm is pinned, under an entry of its own;
\* every other release pins nothing.
LEMMA ReleaseKeys ==
  ASSUME BenchInv, Undisturbed, NEW r \in Requests, client[r] = "open", r \notin finished, Release(r)
  PROVE  /\ repinned' = {}
         /\ IF stage = "send" /\ arm = "pinned"
            THEN /\ Len(pinned_by_request') = k
                 /\ pinned_by_request'[k].req = Sends[k]
                 /\ \A j \in 1 .. k - 1 : pinned_by_request'[j] = pinned_by_request[j]
            ELSE pinned_by_request' = pinned_by_request
<1>0. Firm /\ Calm /\ lingering = {} /\ repinned = {}
  BY DEF BenchInv, Firm, BenchType, Undisturbed
<1>1. Turn(r)
  BY <1>0 DEF Firm, ClientSound
<1>2. CASE stage = "send" /\ arm = "pinned"
  <2>1. /\ k <= N /\ r = Sends[k] /\ ctrl = [mode |-> "first_n", n |-> N]
        /\ Len(pinned_by_request) = k - 1
        /\ \A j \in 1 .. k - 1 : pinned_by_request[j].req = Sends[j]
    BY <1>0, <1>1, <1>2 DEF Turn, Firm, CtrlSound, Calm, KeysSound, Suspended
  <2>2. k \in Nat /\ k >= 1 /\ N \in Nat /\ N <= Len(Sends) /\ k \in 1 .. Len(Sends)
    BY <1>0, <2>1, PointFacts DEF Firm
  <2>3. ss_should_pin
    BY <2>1, <2>2 DEF ss_should_pin
  <2>4. \A q \in Requests \ {r} : req_to_blocks[q] = << >>
    BY <1>0, <1>2, <2>1 DEF Firm, ClientSound, Turn
  <2> DEFINE kept == Among(LastUsedBy(r), ReusableBlocks)
             entry == [req |-> r, kept |-> kept]
  <2>5. kept # << >>
    BY <1>0, <2>4, AloneKeeps DEF Release, Firm
  <2>6. pinned_by_request \in Seq(Entry) /\ DOMAIN pinned_by_request = 1 .. k - 1
    BY <1>0, <2>1 DEF Firm, PoolInv, Sound, DictSound
  <2>7. \A j \in DOMAIN pinned_by_request : pinned_by_request[j].req # r
    <3> SUFFICES ASSUME NEW j \in 1 .. k - 1, pinned_by_request[j].req = r PROVE FALSE
      BY <2>6
    <3>1. Sends[j] = Sends[k] /\ j \in 1 .. Len(Sends) /\ j # k
      BY <2>1, <2>2
    <3> QED
      BY <2>2, <3>1, RoleFacts
  <2>8. EntryOf(r) = {}
    BY <2>7 DEF EntryOf, ToSet
  <2>9. Pin(r, kept, Among(LastUsedBy(r), Blocks \ ReusableBlocks))
    BY <2>3 DEF Release, ss_pin_request
  <2> HIDE DEF kept
  <2>10. repinned' = {}
    BY <1>0, <2>8, <2>9 DEF Pin
  <2>11. pinned_by_request' = Append(pinned_by_request, entry)
    BY <2>5, <2>7, <2>9 DEF Pin, Store
  <2> HIDE DEF entry
  <2>12. Len(pinned_by_request') = k /\ pinned_by_request'[k] = entry
    <3>1. Len(pinned_by_request) + 1 = k
      BY <2>1, <2>2
    <3> QED
      BY <2>6, <2>11, <3>1
  <2>13. \A j \in 1 .. k - 1 : pinned_by_request'[j] = pinned_by_request[j]
    <3> DEFINE dict == pinned_by_request
    <3>1. dict \in Seq(Entry) /\ Len(dict) = k - 1 /\ k \in Nat
      BY <2>1, <2>2, <2>6
    <3> HIDE DEF dict
    <3>2. \A j \in 1 .. Len(dict) : Append(dict, entry)[j] = dict[j]
      BY <3>1
    <3> QED
      BY <2>11, <3>1, <3>2 DEF dict
  <2>14. entry.req = Sends[k]
    BY <2>1 DEF entry
  <2> QED
    BY <1>2, <2>10, <2>12, <2>13, <2>14
<1>3. CASE ~(stage = "send" /\ arm = "pinned")
  <2>1. ctrl.mode = "off"
    BY <1>0, <1>1, <1>3 DEF Turn, Firm, CtrlSound
  <2> QED
    BY <1>0, <1>3, <2>1, ReleaseOff
<1> QED
  BY <1>2, <1>3

-----------------------------------------------------------------------------
(* The measurement starts in the invariant.                                *)

\* Before the first point nothing was sent.
LEMMA InitBench == BenchInit => BenchInv
<1> SUFFICES ASSUME BenchInit PROVE BenchInv
  OBVIOUS
<1>1. /\ Init /\ point = 1 /\ stage = "off" /\ k = 1 /\ client = Unsent /\ results = NoRows
      /\ lingering = {}
  BY DEF BenchInit
<1>2. PoolInv
  <2>1. Sound /\ Facts!Owned /\ Facts!Tracked
    BY <1>1, InitSound, SamePool, PoolAssumed, Facts!InitOwned
  <2>2. HeldContent
    BY <1>1 DEF Init, HeldContent
  <2> QED
    BY <2>1, <2>2 DEF PoolInv
<1>3. BenchType
  <2>1. 1 \in DOMAIN Points
    BY BenchAssumption
  <2>2. Points[1] \in ToSet(Points)
    BY <2>1 DEF ToSet
  <2>3. N \in 0 .. Len(Sends)
    BY <1>1, <2>2, BenchAssumption DEF N
  <2>4. 1 \in 1 .. N + 1
    BY <2>3, RoleFacts
  <2> QED
    BY <1>1, <2>1, <2>4 DEF BenchType, Stages, Unsent
<1>4. ClientSound
  BY <1>1 DEF Init, ClientSound, Unsent
<1>5. Ahead /\ CtrlSound /\ Calm
  BY <1>1 DEF Ahead, CtrlSound, Calm, KeysSound, ColdSound, NothingSent, Unsent
<1>6. RowsSound
  BY <1>1, RoleFacts DEF RowsSound, NoRows, Unsent
<1> QED
  BY <1>2, <1>3, <1>4, <1>5, <1>6 DEF BenchInv, Firm

-----------------------------------------------------------------------------
(* The steps of the harness.                                               *)

\* A loop over sus[:N] sends the request of its turn.
LEMMA PostSteps ==
  ASSUME BenchInv, PostSend \/ PostProbe
  PROVE  BenchInv'
<1>1. PICK reqs \in {Sends, Probes} : Post(stage, reqs) /\ stage \in {"send", "probe"}
                                      /\ reqs = IF stage = "send" THEN Sends ELSE Probes
  BY DEF PostSend, PostProbe, Post
<1>2. UNCHANGED <<point, stage, k, results, disturbed, arm, N>> /\ Vacate(reqs[k])
  BY <1>1 DEF Post, arm, N
<1>3. k \in 1 .. Len(Sends) /\ k <= N /\ N \in Nat /\ k \in Nat /\ N <= Len(Sends)
  BY <1>1, PointFacts DEF BenchInv, Firm, Post
<1>4. /\ reqs[k] \in Requests /\ reqs[k] \notin Load
      /\ \A i \in 1 .. Len(Sends) : i # k => Sends[i] # reqs[k] /\ Probes[i] # reqs[k]
      /\ stage = "send" => \A i \in 1 .. Len(Sends) : Probes[i] # reqs[k]
  BY <1>1, <1>3, RoleFacts
<1> DEFINE r == reqs[k]
<1>5. /\ PoolInv' /\ ctrl' = ctrl /\ finished' = finished
      /\ lingering' = lingering \ {r} /\ (r \notin lingering => UNCHANGED vars)
      /\ \A q \in Requests : q # r => req_to_blocks'[q] = req_to_blocks[q]
  BY <1>2, <1>4, VacateSteps DEF BenchInv, Firm
<1>6. client[r] = "new" /\ client' = [client EXCEPT ![r] = "open"]
  BY <1>1 DEF Post
<1> HIDE DEF r
<1>7. r = reqs[k]
  BY DEF r
<1>8. /\ client \in [Requests -> {"new", "open", "answered", "failed"}]
      /\ lingering \subseteq Requests /\ (~disturbed => lingering = {})
  BY DEF BenchInv, Firm, BenchType
<1>9. BenchType'
  <2>1. client' \in [Requests -> {"new", "open", "answered", "failed"}]
    BY <1>6, <1>8
  <2> QED
    BY <1>2, <1>5, <1>8, <2>1 DEF BenchInv, Firm, BenchType
<1>10. ClientSound'
  <2>1. \A q \in Requests : Turn(q)' <=> Turn(q)
    BY <1>2 DEF Turn
  <2>2. Turn(r)
    BY <1>1, <1>3, <1>7 DEF Turn
  <2> QED
    BY <1>4, <1>5, <1>6, <1>7, <1>8, <2>1, <2>2 DEF BenchInv, Firm, ClientSound
<1>11. Ahead'
  BY <1>1, <1>2, <1>3, <1>4, <1>6, <1>7, <1>8 DEF BenchInv, Firm, Ahead
<1>12. CtrlSound' /\ RowsSound'
  <2>1. CtrlSound'
    BY <1>2, <1>5 DEF BenchInv, Firm, CtrlSound
  <2> QED
    BY <1>2, <1>4, <1>6, <1>7, <1>8, <2>1, RoleFacts DEF BenchInv, Firm, RowsSound
<1>13. ASSUME Undisturbed' PROVE Calm'
  <2>1. ~disturbed /\ lingering = {}
    BY <1>2, <1>8, <1>13 DEF Undisturbed
  <2>2. UNCHANGED vars
    BY <1>5, <2>1
  <2>3. pinned_by_request' = pinned_by_request /\ repinned' = repinned
    BY <2>2, StillPool DEF BenchInv, Firm
  <2>4. Calm
    BY <1>13, <2>1, <2>3 DEF Undisturbed, BenchInv
  <2>5. KeysSound'
    BY <1>2, <1>5, <2>3, <2>4 DEF Calm, KeysSound, Suspended
  <2>6. ~NothingSent'
    BY <1>4, <1>6, <1>7, <1>8 DEF NothingSent
  <2> QED
    BY <1>1, <1>2, <2>5, <2>6 DEF Calm, ColdSound
<1> QED
  BY <1>5, <1>9, <1>10, <1>11, <1>12, <1>13 DEF BenchInv, Firm

\* The answer of a send or of a probe ends its turn.
LEMMA AnswerSteps ==
  ASSUME BenchInv, SendAnswered \/ ProbeAnswered
  PROVE  BenchInv'
<1> DEFINE r == IF stage = "send" THEN Sends[k] ELSE Probes[k]
<1>1. /\ stage \in {"send", "probe"} /\ k <= N /\ client[r] = "open" /\ r \in finished
      /\ client' = [client EXCEPT ![r] = "answered"] /\ k' = k + 1
      /\ UNCHANGED <<vars, point, stage, results, given>>
  BY DEF SendAnswered, ProbeAnswered, Answered
<1>2. UNCHANGED <<arm, N, lingering, disturbed>>
  BY <1>1 DEF arm, N, given
<1>3. /\ PoolInv' /\ Cold' = Cold /\ req_to_blocks' = req_to_blocks /\ finished' = finished
      /\ ctrl' = ctrl /\ pinned_by_request' = pinned_by_request /\ repinned' = repinned
  BY <1>1, StillPool DEF BenchInv, Firm
<1>4. k \in 1 .. Len(Sends) /\ k <= N /\ N \in Nat /\ k \in Nat /\ N <= Len(Sends)
  BY <1>1, PointFacts DEF BenchInv, Firm
<1>5. /\ r \in Requests /\ r \notin Load
      /\ \A i \in 1 .. Len(Sends) : i # k => Sends[i] # r /\ Probes[i] # r
      /\ stage = "send" => \A i \in 1 .. Len(Sends) : Probes[i] # r
      /\ stage = "probe" => \A i \in 1 .. Len(Sends) : Sends[i] # r
  BY <1>1, <1>4, RoleFacts
<1>6. /\ client \in [Requests -> {"new", "open", "answered", "failed"}]
  BY DEF BenchInv, Firm, BenchType
<1>7. r = (IF stage = "send" THEN Sends[k] ELSE Probes[k])
  OBVIOUS
<1> HIDE DEF r
<1>8. BenchType'
  <2>1. k + 1 \in 1 .. N + 1
    BY <1>4
  <2>2. client' \in [Requests -> {"new", "open", "answered", "failed"}]
    BY <1>1, <1>6
  <2> QED
    BY <1>1, <1>2, <2>1, <2>2 DEF BenchInv, Firm, BenchType
<1>9. ClientSound'
  <2>1. \A q \in Requests : client[q] = "open" => q = r
    BY <1>1, <1>7 DEF BenchInv, Firm, ClientSound, Turn
  <2>2. req_to_blocks[r] = << >>
    BY <1>1, <1>5 DEF BenchInv, Firm, PoolInv, Sound, Departed
  <2>3. ASSUME NEW q \in Requests
        PROVE  /\ req_to_blocks'[q] # << >> => q \in lingering'
               /\ q \in finished' => client'[q] # "new" /\ q \notin lingering'
               /\ client'[q] = "answered" => q \in finished'
               /\ client'[q] # "open"
    BY <1>1, <1>2, <1>3, <1>5, <1>6, <2>1, <2>2 DEF BenchInv, Firm, ClientSound
  <2> QED
    BY <2>3 DEF ClientSound
<1>10. Ahead'
  BY <1>1, <1>2, <1>4, <1>5, <1>6, <1>7 DEF BenchInv, Firm, Ahead
<1>11. CtrlSound' /\ RowsSound'
  <2>1. CtrlSound'
    BY <1>1, <1>2, <1>3 DEF BenchInv, Firm, CtrlSound
  <2> QED
    BY <1>1, <1>5, <1>6, <2>1, RoleFacts DEF BenchInv, Firm, RowsSound
<1>12. ASSUME Undisturbed', KeysSound PROVE KeysSound'
  <2>1. CASE stage = "probe"
    BY <1>1, <2>1 DEF KeysSound
  <2>2. CASE stage = "send" /\ arm # "pinned"
    BY <1>1, <1>2, <1>3, <1>12, <2>2 DEF KeysSound, Suspended
  <2>3. CASE stage = "send" /\ arm = "pinned"
    <3>1. Suspended = k
      BY <1>1, <1>7, <2>3 DEF Suspended
    <3>2. k + 1 <= N => Sends[k + 1] \notin finished
      <4> SUFFICES ASSUME k + 1 <= N PROVE Sends[k + 1] \notin finished
        OBVIOUS
      <4>1. k + 1 \in 1 .. N /\ k + 1 > k /\ k + 1 \in 1 .. Len(Sends)
        BY <1>4
      <4>2. client[Sends[k + 1]] = "new" /\ Sends[k + 1] \in Requests
        BY <2>3, <4>1, RoleFacts DEF BenchInv, Firm, Ahead
      <4> QED
        BY <4>2 DEF BenchInv, Firm, ClientSound
    <3>3. Suspended' = k
      BY <1>1, <1>2, <1>3, <1>4, <2>3, <3>2 DEF Suspended
    <3> QED
      BY <1>1, <1>3, <1>12, <2>3, <3>1, <3>3 DEF KeysSound
  <2> QED
    BY <1>1, <2>1, <2>2, <2>3
<1>13. ColdSound'
  <2>1. ~NothingSent'
    BY <1>1, <1>5, <1>6 DEF NothingSent
  <2> QED
    BY <1>1, <2>1 DEF ColdSound
<1>14. Undisturbed' => Calm'
  <2>1. Undisturbed' => Undisturbed
    BY <1>2, <1>3 DEF Undisturbed
  <2> QED
    BY <1>12, <1>13, <2>1 DEF BenchInv, Calm
<1> QED
  BY <1>3, <1>8, <1>9, <1>10, <1>11, <1>14 DEF BenchInv, Firm

\* The load starts a task of its own for each background request.
LEMMA StartSteps ==
  ASSUME BenchInv, NEW q \in Load, StartTask(q)
  PROVE  BenchInv'
<1>1. /\ stage = "load" /\ client[q] = "new" /\ client' = [client EXCEPT ![q] = "open"]
      /\ Vacate(q) /\ UNCHANGED <<point, stage, k, results, disturbed>>
  BY DEF StartTask
<1>2. UNCHANGED <<arm, N>>
  BY <1>1 DEF arm, N
<1>3. /\ client \in [Requests -> {"new", "open", "answered", "failed"}]
      /\ q \in Requests /\ N <= Len(Sends) /\ N \in Nat /\ Len(Sends) \in Nat
      /\ lingering \subseteq Requests /\ (~disturbed => lingering = {})
  BY PointFacts, RoleFacts DEF BenchInv, Firm, BenchType
<1>4. /\ PoolInv' /\ ctrl' = ctrl /\ finished' = finished
      /\ lingering' = lingering \ {q} /\ (q \notin lingering => UNCHANGED vars)
      /\ \A r \in Requests : r # q => req_to_blocks'[r] = req_to_blocks[r]
  BY <1>1, <1>3, VacateSteps DEF BenchInv, Firm
<1>5. BenchType'
  <2>1. client' \in [Requests -> {"new", "open", "answered", "failed"}]
    BY <1>1, <1>3
  <2> QED
    BY <1>1, <1>2, <1>3, <1>4, <2>1 DEF BenchInv, Firm, BenchType
<1>6. ClientSound'
  <2>1. \A r \in Requests : Turn(r)' <=> Turn(r)
    BY <1>1, <1>2 DEF Turn
  <2>2. Turn(q)
    BY <1>1 DEF Turn
  <2> QED
    BY <1>1, <1>3, <1>4, <2>1, <2>2 DEF BenchInv, Firm, ClientSound
<1>7. Ahead'
  <2>1. \A i \in 1 .. N : Probes[i] # q
    BY <1>3, RoleFacts
  <2> QED
    BY <1>1, <1>2, <1>3, <2>1 DEF BenchInv, Firm, Ahead
<1>8. CtrlSound' /\ RowsSound'
  <2>1. CtrlSound'
    BY <1>1, <1>2, <1>4 DEF BenchInv, Firm, CtrlSound
  <2> QED
    BY <1>1, <1>3, <2>1, RoleFacts DEF BenchInv, Firm, RowsSound
<1>9. ASSUME Undisturbed' PROVE Calm'
  <2>1. ~disturbed /\ lingering = {}
    BY <1>1, <1>3, <1>9 DEF Undisturbed
  <2>2. UNCHANGED vars
    BY <1>4, <2>1
  <2>3. pinned_by_request' = pinned_by_request /\ repinned' = repinned
    BY <2>2, StillPool DEF BenchInv, Firm
  <2>4. Calm
    BY <1>9, <2>1, <2>3 DEF Undisturbed, BenchInv
  <2> QED
    BY <1>1, <1>2, <1>4, <2>3, <2>4
       DEF Calm, KeysSound, Suspended, ColdSound, NothingSent
<1> QED
  BY <1>4, <1>5, <1>6, <1>7, <1>8, <1>9 DEF BenchInv, Firm

\* The task of an answered request ends with a row.
LEMMA TaskAnswerSteps ==
  ASSUME BenchInv, NEW q \in Load, TaskAnswered(q)
  PROVE  BenchInv'
<1>1. /\ stage \in {"load", "gather"} /\ client[q] = "open" /\ q \in finished
      /\ client' = [client EXCEPT ![q] = "answered"]
      /\ results' = [results EXCEPT ![q] = @ + 1]
      /\ UNCHANGED <<vars, point, stage, k, lingering, disturbed>>
  BY DEF TaskAnswered, Answered, one_request, AppendRow, given
<1>2. UNCHANGED <<arm, N>>
  BY <1>1 DEF arm, N
<1>3. /\ PoolInv' /\ Cold' = Cold /\ req_to_blocks' = req_to_blocks /\ finished' = finished
      /\ ctrl' = ctrl /\ pinned_by_request' = pinned_by_request /\ repinned' = repinned
  BY <1>1, StillPool DEF BenchInv, Firm
<1>4. /\ client \in [Requests -> {"new", "open", "answered", "failed"}]
      /\ q \in Requests /\ N <= Len(Sends) /\ N \in Nat /\ Len(Sends) \in Nat
  BY PointFacts, RoleFacts DEF BenchInv, Firm, BenchType
<1>5. BenchType'
  <2>1. client' \in [Requests -> {"new", "open", "answered", "failed"}]
    BY <1>1, <1>4
  <2> QED
    BY <1>1, <1>2, <2>1 DEF BenchInv, Firm, BenchType
<1>6. ClientSound'
  <2>1. \A r \in Requests : Turn(r)' <=> Turn(r)
    BY <1>1, <1>2 DEF Turn
  <2>2. req_to_blocks[q] = << >>
    BY <1>1 DEF BenchInv, Firm, PoolInv, Sound, Departed
  <2> QED
    BY <1>1, <1>3, <1>4, <2>1, <2>2 DEF BenchInv, Firm, ClientSound
<1>7. Ahead'
  <2>1. \A i \in 1 .. N : Probes[i] # q
    BY <1>4, RoleFacts
  <2> QED
    BY <1>1, <1>2, <1>4, <2>1 DEF BenchInv, Firm, Ahead
<1>8. CtrlSound' /\ RowsSound'
  <2>1. CtrlSound'
    BY <1>1, <1>2, <1>3 DEF BenchInv, Firm, CtrlSound
  <2> QED
    BY <1>1, <1>4, <2>1, RoleFacts DEF BenchInv, Firm, RowsSound
<1>9. ASSUME Undisturbed' PROVE Calm'
  <2>1. Calm
    BY <1>1, <1>3, <1>9 DEF Undisturbed, BenchInv
  <2> QED
    BY <1>1, <1>2, <1>3, <2>1 DEF Calm, KeysSound, Suspended, ColdSound, NothingSent
<1> QED
  BY <1>3, <1>5, <1>6, <1>7, <1>8, <1>9 DEF BenchInv, Firm

\* The loops end: every context is suspended, the load is started, the load is over.
LEMMA MoveSteps ==
  ASSUME BenchInv, AllSent \/ LoadEnds \/ Gather
  PROVE  BenchInv'
<1>1. /\ stage \in {"send", "load", "gather"}
      /\ UNCHANGED <<vars, point, client, results, lingering, disturbed>>
      /\ stage = "send" => stage' = "disarm" /\ k > N /\ k' = 1
      /\ stage = "load" => stage' = "gather" /\ k' = k
      /\ stage = "gather" => stage' = "probe" /\ k' = k /\ \A q \in Load : client[q] # "open"
  BY DEF AllSent, LoadEnds, Gather, Goto, given
<1>2. UNCHANGED <<arm, N>>
  BY <1>1 DEF arm, N
<1>3. /\ PoolInv' /\ Cold' = Cold /\ req_to_blocks' = req_to_blocks /\ finished' = finished
      /\ ctrl' = ctrl /\ pinned_by_request' = pinned_by_request /\ repinned' = repinned
  BY <1>1, StillPool DEF BenchInv, Firm
<1>4. /\ N \in Nat /\ k \in Nat /\ k <= N + 1 /\ k >= 1
  BY PointFacts DEF BenchInv, Firm
<1>5. BenchType'
  <2>1. k' \in 1 .. N + 1
    BY <1>1, <1>4
  <2> QED
    BY <1>1, <1>2, <2>1 DEF BenchInv, Firm, BenchType, Stages
<1>6. ClientSound'
  <2>1. stage # "load" => \A r \in Requests : client[r] # "open"
    BY <1>1, <1>4 DEF BenchInv, Firm, ClientSound, Turn
  <2>2. stage = "load" => \A r \in Requests : Turn(r) => Turn(r)'
    BY <1>1 DEF Turn
  <2> QED
    BY <1>1, <1>3, <2>1, <2>2 DEF BenchInv, Firm, ClientSound
<1>7. Ahead'
  BY <1>1, <1>2, <1>4 DEF BenchInv, Firm, Ahead
<1>8. CtrlSound' /\ RowsSound'
  BY <1>1, <1>2, <1>3 DEF BenchInv, Firm, CtrlSound, RowsSound
<1>9. ASSUME Undisturbed' PROVE Calm'
  <2>1. Calm
    BY <1>1, <1>3, <1>9 DEF Undisturbed, BenchInv
  <2>2. stage = "send" => k = N + 1
    BY <1>1, <1>4
  <2>3. Suspended' = Suspended
    BY <1>1, <1>2, <1>3, <1>4, <2>2 DEF Suspended
  <2> QED
    BY <1>1, <1>3, <2>1, <2>3 DEF Calm, KeysSound, ColdSound, NothingSent
<1> QED
  BY <1>3, <1>5, <1>6, <1>7, <1>8, <1>9 DEF BenchInv, Firm

\* run_point() writes the control file while it awaits nothing.
LEMMA ControlFileSteps ==
  ASSUME BenchInv, CtrlOff \/ Arm \/ Disarm
  PROVE  BenchInv'
<1>1. /\ stage \in {"off", "arm", "disarm"} /\ UNCHANGED <<poolVars, finished>>
      /\ UNCHANGED <<point, k, client, results, lingering, disturbed>>
      /\ stage = "off" => stage' = "reset" /\ ctrl' = [mode |-> "off", n |-> 0]
      /\ stage = "disarm" => stage' = "load" /\ ctrl' = [mode |-> "off", n |-> 0]
      /\ stage = "arm" => /\ stage' = "send"
                          /\ ctrl' = IF arm = "pinned" THEN [mode |-> "first_n", n |-> N]
                                     ELSE ctrl
  BY DEF CtrlOff, Arm, Disarm, Goto, SetControl, vars, given
<1>2. UNCHANGED <<arm, N>>
  BY <1>1 DEF arm, N
<1>3. /\ N \in Nat /\ N \in 0 .. MaxPins /\ k \in Nat /\ k <= N + 1 /\ k >= 1
  BY PointFacts, PromptAssumption DEF BenchInv, Firm
<1>4. /\ req_to_blocks' = req_to_blocks /\ pinned_by_request' = pinned_by_request
      /\ finished' = finished /\ repinned' = repinned /\ Cold' = Cold
  BY <1>1 DEF poolVars, Cold, Idle, Reusable
<1>5. PoolInv'
  <2>1. ctrl' \in Controls \/ ctrl' = ctrl
    BY <1>1, <1>3 DEF Controls
  <2>2. [Next]_vars
    BY <1>1, <2>1 DEF Next, SetControl, vars
  <2> QED
    BY <2>2, PoolSteps DEF BenchInv, Firm
<1>6. BenchType'
  BY <1>1, <1>2 DEF BenchInv, Firm, BenchType, Stages
<1>7. \A r \in Requests : client[r] # "open"
  BY <1>1 DEF BenchInv, Firm, ClientSound, Turn
<1>8. ClientSound'
  BY <1>1, <1>4, <1>7 DEF BenchInv, Firm, ClientSound
<1>9. Ahead'
  <2>1. ASSUME stage = "arm"
        PROVE  (\A i \in 1 .. N : client[Sends[i]] = "new" /\ client[Probes[i]] = "new")
    <3>1. \A r \in Requests : client[r] = "new"
      BY <2>1 DEF BenchInv, Firm, Ahead
    <3>2. N <= Len(Sends) /\ Len(Sends) \in Nat
      BY PointFacts DEF BenchInv, Firm
    <3> QED
      BY <1>3, <3>1, <3>2, RoleFacts
  <2> QED
    BY <1>1, <1>2, <2>1 DEF BenchInv, Firm, Ahead
<1>10. CtrlSound' /\ RowsSound'
  BY <1>1, <1>2 DEF BenchInv, Firm, CtrlSound, RowsSound
<1>11. ASSUME Calm PROVE KeysSound'
  <2>1. stage = "arm" => k = 1 /\ \A r \in Requests : r \notin finished
    BY DEF BenchInv, Firm, Ahead, ClientSound
  <2>2. stage = "arm" /\ k <= N => Sends[k] \notin finished
    <3>1. stage = "arm" /\ k <= N => k \in 1 .. Len(Sends)
      BY <1>3, PointFacts DEF BenchInv, Firm
    <3> QED
      BY <2>1, <3>1, RoleFacts
  <2>3. stage # "off" => Suspended' = Suspended
    BY <1>1, <1>2, <1>3, <1>4, <2>1, <2>2 DEF Suspended
  <2> QED
    BY <1>1, <1>4, <1>11, <2>3 DEF Calm, KeysSound
<1>12. ASSUME Calm PROVE ColdSound'
  BY <1>1, <1>4, <1>12 DEF Calm, ColdSound, NothingSent
<1>13. Undisturbed' => Calm'
  <2>1. Undisturbed' => Undisturbed
    BY <1>1, <1>4 DEF Undisturbed
  <2> QED
    BY <1>11, <1>12, <2>1 DEF BenchInv, Calm
<1> QED
  BY <1>5, <1>6, <1>8, <1>9, <1>10, <1>13 DEF BenchInv, Firm

\* A reset that finds the engine empty empties the dict and leaves nothing cached:
\* what was disturbed before is calm again.
LEMMA ResetPointSteps ==
  ASSUME BenchInv, Reset
  PROVE  BenchInv'
<1>1. /\ stage = "reset" /\ stage' = "arm" /\ ResetPrefixCache
      /\ UNCHANGED <<point, k, client, results, lingering>>
      /\ ~disturbed' => lingering = {}
  BY DEF Reset, Goto
<1>2. UNCHANGED <<arm, N>>
  BY <1>1 DEF arm, N
<1>3. /\ req_to_blocks' = req_to_blocks /\ pinned_by_request' = << >> /\ ctrl' = ctrl
      /\ finished' = finished /\ repinned' = repinned /\ ref_cnt' = ref_cnt
      /\ pinned_block_ids' = {}
  BY <1>1 DEF ResetPrefixCache, ss_unpin_all
<1>4. PoolInv'
  <2>1. [Next]_vars
    BY <1>1 DEF Next
  <2> QED
    BY <2>1, PoolSteps DEF BenchInv, Firm
<1>5. /\ k = 1 /\ \A r \in Requests : client[r] = "new"
  BY <1>1 DEF BenchInv, Firm, Ahead
<1>6. BenchType'
  BY <1>1, <1>2 DEF BenchInv, Firm, BenchType, Stages
<1>7. ClientSound' /\ Ahead'
  BY <1>1, <1>3, <1>5 DEF BenchInv, Firm, ClientSound, Ahead
<1>8. CtrlSound' /\ RowsSound'
  BY <1>1, <1>3 DEF BenchInv, Firm, CtrlSound, RowsSound
<1>9. KeysSound'
  BY <1>1, <1>3 DEF KeysSound, Suspended
<1>10. ASSUME Undisturbed' PROVE Cold'
  <2>1. lingering = {} /\ repinned = {} /\ repinned' = {}
    BY <1>1, <1>3, <1>10 DEF Undisturbed
  <2>2. \A r \in Requests : req_to_blocks[r] = << >>
    BY <1>5, <2>1 DEF BenchInv, Firm, ClientSound
  <2>3. \A b \in Blocks : Idle(b)
    <3>1. ASSUME NEW b \in Blocks PROVE Facts!Idle(b)
      <4>1. \A r \in Requests : b \notin Held[r]
        BY <2>2 DEF Held, ToSet
      <4> QED
        BY <4>1, PoolAssumed, Facts!IdleMeansUnheld DEF BenchInv, Firm, PoolInv, Facts!Owned
    <3> QED
      BY <3>1 DEF Facts!Idle, Idle
  <2>4. Queued' = Blocks
    BY <1>3, <1>4, <2>1, <2>3 DEF PoolInv, Facts!Tracked, Facts!NoBlockLost, Facts!Owned,
                                 Facts!TypeOK, Idle, Facts!Idle
  <2>5. Len(free_block_queue') = Cardinality(Blocks)
    <3>1. free_block_queue' \in Seq(Blocks) /\ IsInjective(free_block_queue')
      BY <1>4 DEF PoolInv, Sound, QueueSound, QueuedOnce
    <3> QED
      BY <2>4, <3>1, InjectiveLength DEF Queued
  <2>6. block_hash' = [b \in Blocks |-> None]
    BY <1>1, <2>5 DEF ResetPrefixCache
  <2> QED
    BY <1>3, <2>3, <2>5, <2>6 DEF Cold, Idle, Reusable
<1>11. Undisturbed' => Calm'
  BY <1>9, <1>10 DEF Calm, ColdSound
<1> QED
  BY <1>4, <1>6, <1>7, <1>8, <1>11 DEF BenchInv, Firm

\* The run ends at a post that fails or at a row that cannot be printed.
LEMMA RunEndSteps ==
  ASSUME BenchInv, ResetFails \/ RowFails
  PROVE  BenchInv'
<1>1. /\ stage \in {"reset", "probe"} /\ stage' = "crashed"
      /\ UNCHANGED <<point, k, client, results, lingering, disturbed>>
      /\ ResetPrefixCache \/ UNCHANGED vars
      /\ stage = "probe" => k > N
  BY DEF ResetFails, RowFails, Goto, given
<1>2. UNCHANGED <<arm, N>>
  BY <1>1 DEF arm, N
<1>3. req_to_blocks' = req_to_blocks /\ finished' = finished
  BY <1>1 DEF ResetPrefixCache, vars, poolVars
<1>4. PoolInv'
  <2>1. [Next]_vars
    BY <1>1 DEF Next
  <2> QED
    BY <2>1, PoolSteps DEF BenchInv, Firm
<1>5. BenchType'
  BY <1>1, <1>2 DEF BenchInv, Firm, BenchType, Stages
<1>6. ClientSound'
  <2>1. N \in Nat /\ k \in Nat
    BY PointFacts DEF BenchInv, Firm
  <2>2. \A r \in Requests : client[r] # "open"
    BY <1>1, <2>1 DEF BenchInv, Firm, ClientSound, Turn
  <2> QED
    BY <1>1, <1>3, <2>2 DEF BenchInv, Firm, ClientSound
<1>7. Ahead' /\ CtrlSound' /\ Calm'
  BY <1>1 DEF Ahead, CtrlSound, Calm, KeysSound, ColdSound, NothingSent
<1>8. RowsSound'
  BY <1>1 DEF BenchInv, Firm, RowsSound
<1> QED
  BY <1>4, <1>5, <1>6, <1>7, <1>8 DEF BenchInv, Firm

\* The next point starts its requests anew; only what was given up is in the engine.
LEMMA NextPointSteps ==
  ASSUME BenchInv, NextPoint
  PROVE  BenchInv'
<1>1. stage = "probe" /\ k > N /\ N \in Nat /\ k \in Nat
  BY PointFacts DEF NextPoint, BenchInv, Firm
<1>2. \A r \in Requests : client[r] # "open" /\ (req_to_blocks[r] # << >> => r \in lingering)
  BY <1>1 DEF BenchInv, Firm, ClientSound, Turn
<1>3. CASE point < Len(Points)
  <2>1. /\ point' = point + 1 /\ stage' = "off" /\ k' = 1 /\ client' = Unsent
        /\ results' = NoRows /\ finished' = {}
        /\ UNCHANGED <<poolVars, ctrl, lingering, disturbed>>
    BY <1>3 DEF NextPoint, given
  <2>2. PoolInv'
    BY <2>1, FinishedSteps DEF BenchInv, Firm
  <2>3. req_to_blocks' = req_to_blocks
    BY <2>1 DEF poolVars
  <2>4. point' \in DOMAIN Points
    BY <1>3, <2>1, BenchAssumption DEF BenchInv, Firm, BenchType
  <2>5. N' \in Nat
    <3>1. Points[point'] \in ToSet(Points)
      BY <2>4 DEF ToSet
    <3>2. N' \in 0 .. Len(Sends)
      BY <3>1, BenchAssumption DEF N
    <3> QED
      BY <3>2, RoleFacts
  <2>6. BenchType'
    <3>1. \A n \in Nat : 1 \in 1 .. n + 1
      OBVIOUS
    <3>2. 1 \in (1 .. N + 1)'
      BY <2>5, <3>1
    <3>3. lingering' \subseteq Requests /\ (~disturbed' => lingering' = {})
      BY <2>1 DEF BenchInv, Firm, BenchType
    <3> QED
      BY <2>1, <2>4, <3>2, <3>3 DEF BenchType, Stages, Unsent
  <2>7. ClientSound'
    BY <1>2, <2>1, <2>3 DEF ClientSound, Unsent
  <2>8. Ahead' /\ CtrlSound' /\ Calm'
    BY <2>1 DEF Ahead, CtrlSound, Calm, KeysSound, ColdSound, NothingSent, Unsent
  <2>9. RowsSound'
    BY <2>1, RoleFacts DEF RowsSound, NoRows, Unsent
  <2> QED
    BY <2>2, <2>6, <2>7, <2>8, <2>9 DEF BenchInv, Firm
<1>4. CASE ~(point < Len(Points))
  <2>1. stage' = "done" /\ UNCHANGED <<vars, point, k, client, results, lingering, disturbed>>
    BY <1>4 DEF NextPoint, given
  <2>2. UNCHANGED <<arm, N>>
    BY <2>1 DEF arm, N
  <2>3. /\ PoolInv' /\ req_to_blocks' = req_to_blocks /\ finished' = finished
    BY <2>1, StillPool DEF BenchInv, Firm
  <2>4. BenchType'
    BY <2>1, <2>2 DEF BenchInv, Firm, BenchType, Stages
  <2>5. ClientSound'
    BY <1>2, <2>1, <2>3 DEF BenchInv, Firm, ClientSound
  <2>6. Ahead' /\ CtrlSound' /\ Calm'
    BY <2>1 DEF Ahead, CtrlSound, Calm, KeysSound, ColdSound, NothingSent
  <2>7. RowsSound'
    BY <2>1 DEF BenchInv, Firm, RowsSound
  <2> QED
    BY <2>3, <2>4, <2>5, <2>6, <2>7 DEF BenchInv, Firm
<1> QED
  BY <1>3, <1>4

-----------------------------------------------------------------------------
(* The steps of the engine.                                                *)

\* An admission touches nothing but the pool.
LEMMA EngineAdmitSteps ==
  ASSUME BenchInv, NEW r \in Requests, EngineAdmit(r)
  PROVE  BenchInv'
<1>1. /\ InEngine(r) /\ Admit(r) /\ UNCHANGED <<point, stage, k, client, results>>
      /\ UNCHANGED <<pinned_by_request, ctrl, finished, repinned, lingering, disturbed>>
  BY DEF EngineAdmit, Admit, given
<1>2. UNCHANGED <<arm, N>>
  BY <1>1 DEF arm, N
<1>3. \A q \in Requests : q # r => req_to_blocks'[q] = req_to_blocks[q]
  BY <1>1 DEF Admit, BenchInv, Firm, PoolInv, Sound, HeldSound
<1>4. PoolInv'
  <2>1. [Next]_vars
    BY <1>1 DEF Next
  <2> QED
    BY <2>1, PoolSteps DEF BenchInv, Firm
<1>5. BenchType'
  BY <1>1, <1>2 DEF BenchInv, Firm, BenchType
<1>6. ClientSound'
  <2>1. \A q \in Requests : Turn(q)' <=> Turn(q)
    BY <1>1, <1>2 DEF Turn
  <2> QED
    BY <1>1, <1>3, <2>1 DEF BenchInv, Firm, ClientSound, InEngine
<1>7. Ahead' /\ CtrlSound' /\ RowsSound'
  BY <1>1, <1>2 DEF BenchInv, Firm, Ahead, CtrlSound, RowsSound
<1>8. ASSUME Undisturbed' PROVE Calm'
  <2>1. Calm /\ lingering = {}
    BY <1>1, <1>8 DEF Undisturbed, BenchInv, Firm, BenchType
  <2>2. client[r] = "open"
    BY <1>1, <2>1 DEF InEngine
  <2>3. KeysSound'
    BY <1>1, <1>2, <2>1 DEF Calm, KeysSound, Suspended
  <2>4. ColdSound'
    BY <1>1, <2>2 DEF BenchInv, Firm, ClientSound, Turn, ColdSound, NothingSent
  <2> QED
    BY <2>3, <2>4 DEF Calm
<1> QED
  BY <1>4, <1>5, <1>6, <1>7, <1>8 DEF BenchInv, Firm

\* A background request that decodes touches nothing but the pool.
LEMMA EngineGrowSteps ==
  ASSUME BenchInv, NEW r \in Load, EngineGrow(r)
  PROVE  BenchInv'
<1>1. /\ InEngine(r) /\ Grow(r) /\ UNCHANGED <<point, stage, k, client, results>>
      /\ UNCHANGED <<pinned_by_request, ctrl, finished, repinned, lingering, disturbed>>
      /\ r \in Requests
  BY RoleFacts DEF EngineGrow, Grow, benchVars
<1>2. UNCHANGED <<arm, N>>
  BY <1>1 DEF arm, N
<1>3. \A q \in Requests : q # r => req_to_blocks'[q] = req_to_blocks[q]
  BY <1>1 DEF Grow, BenchInv, Firm, PoolInv, Sound, HeldSound
<1>4. PoolInv'
  <2>1. [Next]_vars
    BY <1>1 DEF Next
  <2> QED
    BY <2>1, PoolSteps DEF BenchInv, Firm
<1>5. BenchType'
  BY <1>1, <1>2 DEF BenchInv, Firm, BenchType
<1>6. ClientSound'
  <2>1. \A q \in Requests : Turn(q)' <=> Turn(q)
    BY <1>1, <1>2 DEF Turn
  <2> QED
    BY <1>1, <1>3, <2>1 DEF BenchInv, Firm, ClientSound, InEngine
<1>7. Ahead' /\ CtrlSound' /\ RowsSound'
  BY <1>1, <1>2 DEF BenchInv, Firm, Ahead, CtrlSound, RowsSound
<1>8. ASSUME Undisturbed' PROVE Calm'
  <2>1. Calm /\ lingering = {}
    BY <1>1, <1>8 DEF Undisturbed, BenchInv, Firm, BenchType
  <2>2. client[r] = "open"
    BY <1>1, <2>1 DEF InEngine
  <2>3. KeysSound'
    BY <1>1, <1>2, <2>1 DEF Calm, KeysSound, Suspended
  <2>4. ColdSound'
    BY <1>1, <2>2 DEF BenchInv, Firm, ClientSound, Turn, ColdSound, NothingSent
  <2> QED
    BY <2>3, <2>4 DEF Calm
<1> QED
  BY <1>4, <1>5, <1>6, <1>7, <1>8 DEF BenchInv, Firm

\* A send that finishes in the pinned arm becomes the next entry of the dict.
LEMMA EngineFinishSteps ==
  ASSUME BenchInv, NEW r \in Requests, EngineFinish(r)
  PROVE  BenchInv'
<1>1. /\ client[r] = "open" /\ r \notin finished /\ Release(r)
      /\ finished' = finished \cup {r}
      /\ UNCHANGED <<point, stage, k, client, results, lingering, disturbed>>
  BY DEF EngineFinish, Finish, benchVars
<1>2. UNCHANGED <<arm, N>>
  BY <1>1 DEF arm, N
<1>3. /\ PoolInv' /\ ctrl' = ctrl /\ req_to_blocks'[r] = << >>
      /\ \A q \in Requests : q # r => req_to_blocks'[q] = req_to_blocks[q]
      /\ repinned \subseteq repinned'
  BY <1>1, LeaveSteps DEF BenchInv, Firm
<1>4. BenchType'
  BY <1>1, <1>2 DEF BenchInv, Firm, BenchType
<1>5. ClientSound'
  <2>1. \A q \in Requests : Turn(q)' <=> Turn(q)
    BY <1>1, <1>2 DEF Turn
  <2> QED
    BY <1>1, <1>3, <2>1 DEF BenchInv, Firm, ClientSound
<1>6. Ahead' /\ CtrlSound' /\ RowsSound'
  BY <1>1, <1>2, <1>3 DEF BenchInv, Firm, Ahead, CtrlSound, RowsSound
<1>7. Turn(r)
  BY <1>1 DEF BenchInv, Firm, ClientSound
<1>8. ASSUME Undisturbed' PROVE Calm'
  <2>1. Undisturbed /\ KeysSound
    BY <1>1, <1>3, <1>8 DEF Undisturbed, BenchInv, Calm
  <2>2. ColdSound'
    BY <1>1, <1>7 DEF Turn, ColdSound, NothingSent
  <2>3. CASE stage = "send" /\ arm = "pinned"
    <3>1. k <= N /\ r = Sends[k] /\ k \in Nat /\ k >= 1
      BY <1>7, <2>3, PointFacts DEF Turn, BenchInv, Firm
    <3>2. Suspended = k - 1 /\ Suspended' = k
      BY <1>1, <1>2, <2>3, <3>1 DEF Suspended
    <3>3. \A j \in 1 .. k - 1 : pinned_by_request[j].req = Sends[j]
      BY <2>1, <2>3, <3>2 DEF KeysSound
    <3>4. /\ Len(pinned_by_request') = k
          /\ pinned_by_request'[k].req = Sends[k]
          /\ \A j \in 1 .. k - 1 : pinned_by_request'[j] = pinned_by_request[j]
      BY <1>1, <2>1, <2>3, ReleaseKeys
    <3>5. \A j \in 1 .. k : j = k \/ j \in 1 .. k - 1
      BY <3>1
    <3>6. \A j \in 1 .. k : pinned_by_request'[j].req = Sends[j]
      BY <3>3, <3>4, <3>5
    <3>7. KeysSound'
      BY <3>2, <3>4, <3>6 DEF KeysSound
    <3> QED
      BY <2>2, <3>7 DEF Calm
  <2>4. CASE ~(stage = "send" /\ arm = "pinned")
    <3>1. pinned_by_request' = pinned_by_request
      BY <1>1, <2>1, <2>4, ReleaseKeys
    <3>2. stage \in {"load", "gather", "send", "probe"}
      BY <1>7 DEF Turn
    <3>3. KeysSound'
      BY <1>1, <1>2, <2>1, <2>4, <3>1, <3>2 DEF KeysSound, Suspended
    <3> QED
      BY <2>2, <3>3 DEF Calm
  <2> QED
    BY <2>3, <2>4
<1> QED
  BY <1>3, <1>4, <1>5, <1>6, <1>8 DEF BenchInv, Firm

\* Unless something lingers, only the load decodes, and it does so while the control
\* is off: whoever is preempted for it is not pinned.
LEMMA EnginePreemptSteps ==
  ASSUME BenchInv, NEW r \in Requests, EnginePreempt(r)
  PROVE  /\ BenchInv'
         /\ Undisturbed' =>
              /\ Undisturbed /\ client[r] = "open" /\ stage \in {"load", "gather"}
              /\ r \in Load /\ pinned_by_request' = pinned_by_request
<1>1. /\ InEngine(r) /\ Release(r) /\ UNCHANGED <<finished, point, stage, k, client, results>>
      /\ UNCHANGED <<lingering, disturbed>>
  BY DEF EnginePreempt, Preempt, benchVars
<1>2. PICK q \in Load : req_to_blocks[q] # << >>
  BY DEF EnginePreempt
<1>3. UNCHANGED <<arm, N>>
  BY <1>1 DEF arm, N
<1>4. /\ PoolInv' /\ ctrl' = ctrl /\ req_to_blocks'[r] = << >>
      /\ \A p \in Requests : p # r => req_to_blocks'[p] = req_to_blocks[p]
      /\ repinned \subseteq repinned'
  BY <1>1, LeaveSteps DEF BenchInv, Firm
<1>5. BenchType'
  BY <1>1, <1>3 DEF BenchInv, Firm, BenchType
<1>6. ClientSound'
  <2>1. \A p \in Requests : Turn(p)' <=> Turn(p)
    BY <1>1, <1>3 DEF Turn
  <2> QED
    BY <1>1, <1>4, <2>1 DEF BenchInv, Firm, ClientSound
<1>7. Ahead' /\ CtrlSound' /\ RowsSound'
  BY <1>1, <1>3, <1>4 DEF BenchInv, Firm, Ahead, CtrlSound, RowsSound
<1>8. ASSUME Undisturbed'
      PROVE  /\ Undisturbed /\ client[r] = "open" /\ stage \in {"load", "gather"}
             /\ r \in Load /\ pinned_by_request' = pinned_by_request
  <2>1. Undisturbed /\ lingering = {}
    BY <1>1, <1>4, <1>8 DEF Undisturbed, BenchInv, Firm, BenchType
  <2>2. client[r] = "open" /\ client[q] = "open" /\ r \notin finished /\ q \in Requests
    BY <1>1, <1>2, <2>1, RoleFacts DEF InEngine, BenchInv, Firm, ClientSound
  <2>3. Turn(q) /\ Turn(r) /\ (k <= N => k \in 1 .. Len(Sends))
    BY <2>2, PointFacts DEF BenchInv, Firm, ClientSound
  <2>4. stage \in {"load", "gather"}
    BY <2>3, RoleFacts DEF Turn
  <2>5. r \in Load
    BY <2>3, <2>4 DEF Turn
  <2>6. pinned_by_request' = pinned_by_request
    BY <1>1, <2>1, <2>2, <2>4, ReleaseKeys
  <2> QED
    BY <2>1, <2>2, <2>4, <2>5, <2>6
<1>9. ASSUME Undisturbed' PROVE Calm'
  <2>1. Calm /\ pinned_by_request' = pinned_by_request /\ stage \in {"load", "gather"}
    BY <1>8, <1>9 DEF BenchInv
  <2> QED
    BY <1>1, <1>3, <2>1 DEF Calm, KeysSound, Suspended, ColdSound, NothingSent
<1> QED
  BY <1>4, <1>5, <1>6, <1>7, <1>8, <1>9 DEF BenchInv, Firm

\* The server lets go of what the client gave up: the point was disturbed before.
LEMMA EngineLetsGoSteps ==
  ASSUME BenchInv, NEW r \in Requests, EngineLetsGo(r)
  PROVE  BenchInv' /\ ~Undisturbed'
<1>1. /\ r \in lingering /\ Vacate(r)
      /\ UNCHANGED <<point, stage, k, client, results, disturbed>>
  BY DEF EngineLetsGo
<1>2. UNCHANGED <<arm, N>>
  BY <1>1 DEF arm, N
<1>3. /\ PoolInv' /\ ctrl' = ctrl /\ finished' = finished
      /\ lingering' = lingering \ {r} /\ req_to_blocks'[r] = << >>
      /\ \A q \in Requests : q # r => req_to_blocks'[q] = req_to_blocks[q]
  BY <1>1, VacateSteps DEF BenchInv, Firm
<1>4. disturbed'
  BY <1>1 DEF BenchInv, Firm, BenchType
<1>5. BenchType'
  BY <1>1, <1>2, <1>3, <1>4 DEF BenchInv, Firm, BenchType
<1>6. ClientSound'
  <2>1. \A q \in Requests : Turn(q)' <=> Turn(q)
    BY <1>1, <1>2 DEF Turn
  <2> QED
    BY <1>1, <1>3, <2>1 DEF BenchInv, Firm, ClientSound
<1>7. Ahead' /\ CtrlSound' /\ RowsSound'
  BY <1>1, <1>2, <1>3 DEF BenchInv, Firm, Ahead, CtrlSound, RowsSound
<1> QED
  BY <1>3, <1>4, <1>5, <1>6, <1>7 DEF BenchInv, Firm, Undisturbed

-----------------------------------------------------------------------------
(* Failures: an error, a status or a timeout, at any time.                 *)

\* A request that fails leaves the engine, in the pinned arm possibly pinned, or
\* lingers there, and the point is then disturbed.
LEMMA FailFacts ==
  ASSUME BenchInv, NEW r \in Requests, Fail(r)
  PROVE  /\ PoolInv' /\ ctrl' = ctrl
         /\ \A q \in Requests : q # r => req_to_blocks'[q] = req_to_blocks[q]
         /\ client[r] = "open" /\ client' = [client EXCEPT ![r] = "failed"]
         /\ finished \subseteq finished' /\ finished' \subseteq finished \cup {r}
         /\ lingering \subseteq lingering' /\ lingering' \subseteq lingering \cup {r}
         /\ r \in lingering' \/ req_to_blocks'[r] = << >>
         /\ r \in finished' => r \notin lingering'
         /\ ~disturbed' => lingering' = {}
         /\ Undisturbed' =>
              /\ Undisturbed /\ Drop(r) /\ r \in finished'
              /\ stage # "send" => pinned_by_request' = pinned_by_request
<1>1. /\ client[r] = "open" /\ client' = [client EXCEPT ![r] = "failed"]
      /\ Linger(r) \/ (Drop(r) /\ UNCHANGED <<lingering, disturbed>>)
  BY DEF Fail, given
<1>2. r \notin lingering /\ (~disturbed => lingering = {})
  BY <1>1 DEF BenchInv, Firm, ClientSound, BenchType
<1>3. CASE Linger(r)
  <2>1. /\ UNCHANGED vars /\ disturbed' = TRUE /\ lingering' = lingering \cup {r}
        /\ r \notin finished
    BY <1>3 DEF Linger
  <2> QED
    BY <1>1, <2>1, StillPool DEF BenchInv, Firm, Undisturbed
<1>4. CASE Drop(r) /\ UNCHANGED <<lingering, disturbed>>
  <2>1. CASE r \in finished /\ UNCHANGED vars
    <3>1. req_to_blocks[r] = << >>
      BY <2>1 DEF BenchInv, Firm, PoolInv, Sound, Departed
    <3>2. /\ PoolInv' /\ req_to_blocks' = req_to_blocks /\ finished' = finished
          /\ ctrl' = ctrl /\ pinned_by_request' = pinned_by_request /\ repinned' = repinned
      BY <2>1, StillPool DEF BenchInv, Firm
    <3> QED
      BY <1>1, <1>2, <1>4, <2>1, <3>1, <3>2 DEF Undisturbed
  <2>2. CASE r \notin finished /\ Finish(r)
    <3>1. Release(r) /\ finished' = finished \cup {r}
      BY <2>2 DEF Finish
    <3>2. /\ PoolInv' /\ ctrl' = ctrl /\ req_to_blocks'[r] = << >>
          /\ \A q \in Requests : q # r => req_to_blocks'[q] = req_to_blocks[q]
          /\ repinned \subseteq repinned'
      BY <3>1, LeaveSteps DEF BenchInv, Firm
    <3>3. Undisturbed' => Undisturbed
      BY <1>4, <3>2 DEF Undisturbed
    <3>4. Undisturbed' /\ stage # "send" => pinned_by_request' = pinned_by_request
      BY <1>1, <2>2, <3>1, <3>3, ReleaseKeys
    <3> QED
      BY <1>1, <1>2, <1>4, <2>2, <3>1, <3>2, <3>3, <3>4
  <2>3. CASE /\ r \notin finished /\ req_to_blocks[r] = << >>
             /\ finished' = finished \cup {r} /\ UNCHANGED <<poolVars, ctrl>>
    <3>1. finished' \subseteq Requests
      <4>1. finished \subseteq Requests
        BY DEF BenchInv, Firm, PoolInv, Facts!Owned, Facts!TypeOK
      <4> QED
        BY <2>3, <4>1
    <3>2. \A q \in finished' : req_to_blocks[q] = << >>
      BY <2>3 DEF BenchInv, Firm, PoolInv, Sound, Departed
    <3>3. PoolInv'
      BY <2>3, <3>1, <3>2, FinishedSteps DEF BenchInv, Firm
    <3>4. UNCHANGED <<req_to_blocks, pinned_by_request, repinned, ctrl>>
      BY <2>3 DEF poolVars
    <3> QED
      BY <1>1, <1>2, <1>4, <2>3, <3>3, <3>4 DEF Undisturbed
  <2> QED
    BY <1>4, <2>1, <2>2, <2>3 DEF Drop
<1> QED
  BY <1>1, <1>3, <1>4

\* The send that fails ends the run.
LEMMA SendFailsSteps ==
  ASSUME BenchInv, SendFails
  PROVE  BenchInv'
<1> DEFINE r == Sends[k]
<1>1. /\ k <= N /\ stage = "send" /\ stage' = "crashed" /\ Fail(r)
      /\ UNCHANGED <<point, k, results>>
  BY DEF SendFails, Goto
<1>2. r \in Requests /\ r \notin Load
  <2>1. k \in 1 .. Len(Sends)
    BY <1>1, PointFacts DEF BenchInv, Firm
  <2> QED
    BY <2>1, RoleFacts
<1>3. r = Sends[k]
  OBVIOUS
<1> HIDE DEF r
<1>4. /\ PoolInv' /\ client[r] = "open" /\ client' = [client EXCEPT ![r] = "failed"]
      /\ \A q \in Requests : q # r => req_to_blocks'[q] = req_to_blocks[q]
      /\ finished \subseteq finished' /\ finished' \subseteq finished \cup {r}
      /\ lingering \subseteq lingering' /\ lingering' \subseteq lingering \cup {r}
      /\ r \in lingering' \/ req_to_blocks'[r] = << >>
      /\ r \in finished' => r \notin lingering'
      /\ ~disturbed' => lingering' = {}
  BY <1>1, <1>2, FailFacts
<1>5. UNCHANGED <<arm, N>>
  BY <1>1 DEF arm, N
<1>6. /\ client \in [Requests -> {"new", "open", "answered", "failed"}]
      /\ lingering \subseteq Requests
  BY DEF BenchInv, Firm, BenchType
<1>7. BenchType'
  BY <1>1, <1>2, <1>4, <1>5, <1>6 DEF BenchInv, Firm, BenchType, Stages
<1>8. ClientSound'
  <2>1. \A q \in Requests : client[q] = "open" => q = r
    BY <1>1, <1>3 DEF BenchInv, Firm, ClientSound, Turn
  <2> QED
    BY <1>1, <1>2, <1>4, <1>6, <2>1 DEF BenchInv, Firm, ClientSound
<1>9. Ahead' /\ CtrlSound' /\ Calm'
  BY <1>1 DEF Ahead, CtrlSound, Calm, KeysSound, ColdSound, NothingSent
<1>10. RowsSound'
  BY <1>1, <1>2, <1>4, <1>6, RoleFacts DEF BenchInv, Firm, RowsSound
<1> QED
  BY <1>4, <1>7, <1>8, <1>9, <1>10 DEF BenchInv, Firm

\* A probe that fails is passed over.
LEMMA ProbeFailsSteps ==
  ASSUME BenchInv, ProbeFails
  PROVE  BenchInv'
<1> DEFINE r == Probes[k]
<1>1. /\ k <= N /\ stage = "probe" /\ Fail(r) /\ k' = k + 1
      /\ UNCHANGED <<point, stage, results>>
  BY DEF ProbeFails
<1>2. k \in 1 .. Len(Sends) /\ N \in Nat /\ k \in Nat /\ N <= Len(Sends)
  BY <1>1, PointFacts DEF BenchInv, Firm
<1>3. /\ r \in Requests /\ r \notin Load /\ r = Probes[k]
      /\ \A i \in 1 .. Len(Sends) : i # k => Probes[i] # r
  BY <1>2, RoleFacts
<1> HIDE DEF r
<1>4. /\ PoolInv' /\ ctrl' = ctrl
      /\ client[r] = "open" /\ client' = [client EXCEPT ![r] = "failed"]
      /\ \A q \in Requests : q # r => req_to_blocks'[q] = req_to_blocks[q]
      /\ finished \subseteq finished' /\ finished' \subseteq finished \cup {r}
      /\ lingering \subseteq lingering' /\ lingering' \subseteq lingering \cup {r}
      /\ r \in lingering' \/ req_to_blocks'[r] = << >>
      /\ r \in finished' => r \notin lingering'
      /\ ~disturbed' => lingering' = {}
  BY <1>1, <1>3, FailFacts
<1>5. UNCHANGED <<arm, N>>
  BY <1>1 DEF arm, N
<1>6. /\ client \in [Requests -> {"new", "open", "answered", "failed"}]
      /\ lingering \subseteq Requests
  BY DEF BenchInv, Firm, BenchType
<1>7. BenchType'
  <2>1. k + 1 \in 1 .. N + 1
    BY <1>1, <1>2
  <2>2. client' \in [Requests -> {"new", "open", "answered", "failed"}]
    BY <1>4, <1>6
  <2> QED
    BY <1>1, <1>3, <1>4, <1>5, <1>6, <2>1, <2>2 DEF BenchInv, Firm, BenchType
<1>8. ClientSound'
  <2>1. \A q \in Requests : client[q] = "open" => q = r
    BY <1>1, <1>3 DEF BenchInv, Firm, ClientSound, Turn
  <2> QED
    BY <1>1, <1>3, <1>4, <1>6, <2>1 DEF BenchInv, Firm, ClientSound
<1>9. Ahead'
  BY <1>1, <1>2, <1>3, <1>4, <1>5, <1>6 DEF BenchInv, Firm, Ahead
<1>10. CtrlSound' /\ Calm'
  BY <1>1, <1>4 DEF BenchInv, Firm, CtrlSound, Calm, KeysSound, ColdSound, NothingSent
<1>11. RowsSound'
  BY <1>1, <1>3, <1>4, <1>6, RoleFacts DEF BenchInv, Firm, RowsSound
<1> QED
  BY <1>4, <1>7, <1>8, <1>9, <1>10, <1>11 DEF BenchInv, Firm

\* The task of a request that fails ends with a row as well.
LEMMA TaskFailsSteps ==
  ASSUME BenchInv, NEW r \in Load, TaskFails(r)
  PROVE  BenchInv'
<1>1. /\ stage \in {"load", "gather"} /\ Fail(r)
      /\ results' = [results EXCEPT ![r] = @ + 1]
      /\ UNCHANGED <<point, stage, k>>
  BY DEF TaskFails, one_request, AppendRow
<1>2. /\ r \in Requests /\ N <= Len(Sends) /\ N \in Nat /\ Len(Sends) \in Nat
      /\ client \in [Requests -> {"new", "open", "answered", "failed"}]
      /\ lingering \subseteq Requests
  BY PointFacts, RoleFacts DEF BenchInv, Firm, BenchType
<1>3. /\ PoolInv' /\ ctrl' = ctrl
      /\ client[r] = "open" /\ client' = [client EXCEPT ![r] = "failed"]
      /\ \A q \in Requests : q # r => req_to_blocks'[q] = req_to_blocks[q]
      /\ finished \subseteq finished' /\ finished' \subseteq finished \cup {r}
      /\ lingering \subseteq lingering' /\ lingering' \subseteq lingering \cup {r}
      /\ r \in lingering' \/ req_to_blocks'[r] = << >>
      /\ r \in finished' => r \notin lingering'
      /\ ~disturbed' => lingering' = {}
      /\ Undisturbed' => Undisturbed /\ pinned_by_request' = pinned_by_request
  BY <1>1, <1>2, FailFacts
<1>4. UNCHANGED <<arm, N>>
  BY <1>1 DEF arm, N
<1>5. BenchType'
  <2>1. client' \in [Requests -> {"new", "open", "answered", "failed"}]
    BY <1>2, <1>3
  <2> QED
    BY <1>1, <1>2, <1>3, <1>4, <2>1 DEF BenchInv, Firm, BenchType
<1>6. ClientSound'
  <2>1. \A q \in Requests : Turn(q)' <=> Turn(q)
    BY <1>1, <1>4 DEF Turn
  <2> QED
    BY <1>1, <1>2, <1>3, <2>1 DEF BenchInv, Firm, ClientSound
<1>7. Ahead'
  <2>1. \A i \in 1 .. N : Probes[i] # r
    BY <1>2, RoleFacts
  <2> QED
    BY <1>1, <1>2, <1>3, <1>4, <2>1 DEF BenchInv, Firm, Ahead
<1>8. CtrlSound' /\ RowsSound'
  <2>1. CtrlSound'
    BY <1>1, <1>3, <1>4 DEF BenchInv, Firm, CtrlSound
  <2> QED
    BY <1>1, <1>2, <1>3, <2>1 DEF BenchInv, Firm, RowsSound
<1>9. ASSUME Undisturbed' PROVE Calm'
  <2>1. Calm /\ pinned_by_request' = pinned_by_request
    BY <1>3, <1>9 DEF BenchInv
  <2> QED
    BY <1>1, <1>4, <2>1 DEF Calm, KeysSound, Suspended, ColdSound, NothingSent
<1> QED
  BY <1>3, <1>5, <1>6, <1>7, <1>8, <1>9 DEF BenchInv, Firm

-----------------------------------------------------------------------------
(* The invariant, and what a point relies on.                              *)

\* Every step of the harness, of its tasks and of the engine keeps the invariant.
LEMMA NextBench == BenchInv /\ [BenchNext]_allVars => BenchInv'
<1> SUFFICES ASSUME BenchInv, [BenchNext]_allVars PROVE BenchInv'
  OBVIOUS
<1>1. CASE RunPoint
  BY <1>1, PostSteps, AnswerSteps, StartSteps, MoveSteps, ControlFileSteps,
     ResetPointSteps, RunEndSteps, NextPointSteps DEF RunPoint
<1>2. CASE Engine
  BY <1>2, EngineAdmitSteps, EngineFinishSteps, EnginePreemptSteps, EngineLetsGoSteps
     DEF Engine
<1>3. CASE ResetFails \/ SendFails \/ ProbeFails
  BY <1>3, RunEndSteps, SendFailsSteps, ProbeFailsSteps
<1>4. ASSUME NEW q \in Load, EngineGrow(q) \/ TaskAnswered(q) \/ TaskFails(q)
      PROVE  BenchInv'
  BY <1>4, EngineGrowSteps, TaskAnswerSteps, TaskFailsSteps
<1>5. CASE UNCHANGED allVars
  <2>1. /\ UNCHANGED vars
        /\ UNCHANGED <<point, stage, k, client, results, lingering, disturbed>>
    BY <1>5 DEF allVars, benchVars
  <2>2. UNCHANGED <<arm, N>>
    BY <2>1 DEF arm, N
  <2>3. /\ PoolInv' /\ Cold' = Cold /\ req_to_blocks' = req_to_blocks
        /\ finished' = finished /\ ctrl' = ctrl /\ pinned_by_request' = pinned_by_request
        /\ repinned' = repinned
    BY <2>1, StillPool DEF BenchInv, Firm
  <2>4. BenchType'
    BY <2>1, <2>2 DEF BenchInv, Firm, BenchType
  <2>5. ClientSound' /\ Ahead' /\ CtrlSound' /\ RowsSound'
    BY <2>1, <2>2, <2>3 DEF BenchInv, Firm, ClientSound, Turn, Ahead, CtrlSound, RowsSound
  <2>6. Calm' <=> Calm
    BY <2>1, <2>2, <2>3 DEF Calm, KeysSound, Suspended, ColdSound, NothingSent
  <2>7. Undisturbed' <=> Undisturbed
    BY <2>1, <2>3 DEF Undisturbed
  <2> QED
    BY <2>3, <2>4, <2>5, <2>6, <2>7 DEF BenchInv, Firm
<1> QED
  BY <1>1, <1>2, <1>3, <1>4, <1>5 DEF BenchNext

\* The inductive invariant of the measurement.
LEMMA BenchAlways == BenchSpec => []BenchInv
BY InitBench, NextBench, PTL DEF BenchSpec

\* Every point that nothing disturbs starts from nothing: when its first prompt is
\* sent, no block caches anything and the whole pool is queued, whatever was pinned,
\* timed out or left unanswered before, and however long the server kept it, as
\* long as it had let go of it when the reset came.
THEOREM StartsColdCorrect == BenchSpec => []StartsCold
<1>1. BenchInv => StartsCold
  BY DEF BenchInv, Calm, ColdSound, NothingSent, Cold, StartsCold
<1> QED
  BY <1>1, BenchAlways, PTL

\* During the load of an undisturbed pinned point the dict lists its N contexts in the
\* order they were sent, and in the stock arm it is empty.
THEOREM PinsCorrect == BenchSpec => []PinsAreTheSuspended
<1>1. ASSUME BenchInv, Measuring, Undisturbed
      PROVE  [j \in DOMAIN pinned_by_request |-> pinned_by_request[j].req]
               = IF arm = "pinned" THEN SubSeq(Sends, 1, N) ELSE << >>
  <2>1. /\ Len(pinned_by_request) = Suspended
        /\ \A j \in 1 .. Suspended : pinned_by_request[j].req = Sends[j]
        /\ Suspended = IF arm = "pinned" THEN N ELSE 0
    BY <1>1 DEF Measuring, BenchInv, Calm, KeysSound, Suspended
  <2>2. DOMAIN pinned_by_request = 1 .. Suspended
    BY <1>1, <2>1 DEF BenchInv, Firm, PoolInv, Sound, DictSound
  <2>3. CASE arm = "pinned"
    <3>1. N \in Nat /\ N <= Len(Sends) /\ Sends \in Seq(Requests)
      BY <1>1, PointFacts, BenchAssumption DEF BenchInv, Firm
    <3>2. SubSeq(Sends, 1, N) = [j \in 1 .. N |-> Sends[j]]
      BY <3>1, RoleFacts
    <3> QED
      BY <2>1, <2>2, <2>3, <3>2
  <2>4. CASE arm # "pinned"
    BY <2>1, <2>2, <2>4
  <2> QED
    BY <2>3, <2>4
<1>2. BenchInv => PinsAreTheSuspended
  BY <1>1 DEF PinsAreTheSuspended
<1> QED
  BY <1>2, BenchAlways, PTL

\* When the probes start, every request of the load that was started has left one
\* row, answered, failed or timed out, and no other request has left any.
THEOREM OneRowCorrect == BenchSpec => []OneRowPerTask
<1>1. BenchInv => OneRowPerTask
  <2> SUFFICES ASSUME BenchInv, stage = "probe", NEW q \in Load
               PROVE  results[q] = IF client[q] = "new" THEN 0 ELSE 1
    BY DEF OneRowPerTask
  <2>1. client[q] \in {"new", "answered", "failed"}
    BY RoleFacts DEF BenchInv, Firm, BenchType, RowsSound
  <2> QED
    BY <2>1 DEF BenchInv, Firm, RowsSound
<1> QED
  BY <1>1, BenchAlways, PTL

-----------------------------------------------------------------------------
(* What stays cached outside the queue.                                    *)

Kept(key) == \E b \in Blocks \ Queued : block_hash[b] = key

\* A prompt that starts with another one's first blocks has the same keys.
LEMMA PrefixKey ==
  ASSUME NEW q \in Requests, NEW r \in Requests, NEW i \in 1 .. Len(PromptOf[q]),
         IsPrefix(SubSeq(PromptOf[q], 1, i), PromptOf[r])
  PROVE  i \in 1 .. Len(PromptOf[r]) /\ SubSeq(PromptOf[r], 1, i) = SubSeq(PromptOf[q], 1, i)
<1> DEFINE key == SubSeq(PromptOf[q], 1, i)
<1>1. Len(PromptOf[q]) \in Nat /\ Len(PromptOf[r]) \in Nat /\ Len(key) = i
  BY PromptFacts, KeyFacts
<1>2. key \in Seq(ToSet(PromptOf[q]))
  BY <1>1, PromptFacts, SubSeqFacts
<1> HIDE DEF key
<1>3. SubSeq(key, 1, Len(key)) = key
  BY <1>2
<1>4. Len(key) <= Len(PromptOf[r]) /\ SubSeq(key, 1, Len(key)) = SubSeq(PromptOf[r], 1, Len(key))
  BY DEF IsPrefix, key
<1> QED
  BY <1>1, <1>3, <1>4 DEF key

\* What a request holds caches its prompt.
LEMMA HeldKept ==
  ASSUME PoolInv, NEW r \in Requests, req_to_blocks[r] # << >>,
         NEW i \in 1 .. Len(PromptOf[r])
  PROVE  Kept(SubSeq(PromptOf[r], 1, i))
<1> DEFINE s == req_to_blocks[r]
<1>1. s \in Seq(Blocks) /\ Len(s) >= Len(PromptOf[r]) /\ Len(PromptOf[r]) \in Nat
  BY PromptFacts DEF PoolInv, Sound, HeldSound, HeldContent
<1>2. \A j \in DOMAIN s : block_hash[s[j]] = Content(r, j)
  BY DEF PoolInv, HeldContent
<1>3. i <= Len(PromptOf[r]) /\ i \in Nat /\ i >= 1
  BY <1>1
<1>4. \A b \in Queued : b \notin ToSet(s)
  BY IdleUnheld DEF PoolInv
<1> HIDE DEF s
<1>5. i \in DOMAIN s /\ s[i] \in Blocks /\ s[i] \in ToSet(s)
  BY <1>1, <1>3 DEF ToSet
<1>6. block_hash[s[i]] = SubSeq(PromptOf[r], 1, i)
  BY <1>2, <1>3, <1>5 DEF Content
<1> QED
  BY <1>4, <1>5, <1>6 DEF Kept

\* An admission takes its new blocks from the queue, so that whatever is kept
\* outside of it stays, and the request's own prompt is kept from then on.
LEMMA AdmitKept ==
  ASSUME PoolInv, NEW r \in Requests, Admit(r)
  PROVE  /\ \A key : Kept(key) => Kept(key)'
         /\ \A i \in 1 .. Len(PromptOf[r]) : Kept(SubSeq(PromptOf[r], 1, i))'
<1>1. PICK hit, new : Admits(r, hit, new)
  BY AdmitFacts DEF PoolInv
<1>2. /\ Queued' = Queued \ (ToSet(hit) \cup ToSet(new)) /\ ToSet(new) \subseteq Queued
      /\ block_hash' = Rehash(r, hit, new)
  BY <1>1 DEF Admits
<1>3. ASSUME NEW key, Kept(key) PROVE Kept(key)'
  <2>1. PICK b \in Blocks \ Queued : block_hash[b] = key
    BY <1>3 DEF Kept
  <2>2. b \notin Queued' /\ block_hash'[b] = key
    BY <1>2, <2>1 DEF Rehash
  <2> QED
    BY <2>1, <2>2 DEF Kept
<1>4. ASSUME NEW i \in 1 .. Len(PromptOf[r]) PROVE Kept(SubSeq(PromptOf[r], 1, i))'
  <2> DEFINE s == hit \o new
  <2>1. /\ HeldContent' /\ Len(PromptOf[r]) \in Nat /\ Len(PromptOf[r]) >= 1
    BY AdmitContent, PromptFacts, PromptAssumption DEF PoolInv
  <2>2. req_to_blocks'[r] = s /\ s \in Seq(Blocks) /\ ToSet(s) = ToSet(hit) \cup ToSet(new)
    BY <1>1 DEF Admits, PoolInv, Sound, HeldSound
  <2>3. ToSet(s) # {}
    BY <1>1, <2>2 DEF Admits
  <2> HIDE DEF s
  <2>4. s # << >>
    BY <2>3 DEF ToSet
  <2>5. Len(s) >= Len(PromptOf[r]) /\ \A j \in DOMAIN s : block_hash'[s[j]] = Content(r, j)
    BY <2>1, <2>2, <2>4 DEF HeldContent, Content
  <2>6. i \in DOMAIN s /\ s[i] \in Blocks /\ s[i] \in ToSet(s) /\ i <= Len(PromptOf[r])
    BY <2>1, <2>2, <2>5 DEF ToSet
  <2>7. block_hash'[s[i]] = SubSeq(PromptOf[r], 1, i)
    BY <2>5, <2>6 DEF Content
  <2>8. s[i] \notin Queued'
    BY <1>2, <2>2, <2>6
  <2> QED
    BY <2>6, <2>7, <2>8 DEF Kept
<1> QED
  BY <1>3, <1>4

\* A decoding request takes the head of the queue.
LEMMA GrowKept ==
  ASSUME PoolInv, NEW r \in Requests, Grow(r), NEW key, Kept(key)
  PROVE  Kept(key)'
<1>1. PICK b \in Blocks \ Queued : block_hash[b] = key
  BY DEF Kept
<1>2. free_block_queue \in Seq(Blocks) /\ free_block_queue # << >> /\ DOMAIN block_hash = Blocks
  BY DEF Grow, PoolInv, Sound, QueueSound
<1>3. /\ block_hash' = [block_hash EXCEPT ![Head(free_block_queue)] = None]
      /\ free_block_queue' = Tail(free_block_queue)
  BY DEF Grow
<1> DEFINE s == free_block_queue
<1>4. s \in Seq(Blocks) /\ s # << >>
  BY <1>2
<1> HIDE DEF s
<1>5. Head(s) \in ToSet(s) /\ ToSet(Tail(s)) \subseteq ToSet(s)
  <2>1. Len(s) >= 1 /\ 1 \in DOMAIN s /\ Head(s) = s[1]
    BY <1>4
  <2>2. ASSUME NEW j \in DOMAIN Tail(s) PROVE Tail(s)[j] \in ToSet(s)
    <3>1. j + 1 \in DOMAIN s /\ Tail(s)[j] = s[j + 1]
      BY <1>4
    <3> QED
      BY <3>1 DEF ToSet
  <2> QED
    BY <2>1, <2>2 DEF ToSet
<1>6. b \notin Queued' /\ block_hash'[b] = key
  BY <1>1, <1>2, <1>3, <1>5 DEF Queued, s
<1> QED
  BY <1>1, <1>6 DEF Kept

\* A release that pins keeps whatever is cached; any other gives up at most the
\* prefixes of the prompt of its request.
LEMMA ReleaseKept ==
  ASSUME PoolInv, NEW r \in Requests, Release(r), NEW q \in Requests,
         NEW i \in 1 .. Len(PromptOf[q]), Kept(SubSeq(PromptOf[q], 1, i)),
         ss_should_pin \/ ~IsPrefix(SubSeq(PromptOf[q], 1, i), PromptOf[r])
  PROVE  Kept(SubSeq(PromptOf[q], 1, i))'
<1> DEFINE key == SubSeq(PromptOf[q], 1, i)
<1>1. PICK b \in Blocks \ Queued : block_hash[b] = key
  BY DEF Kept
<1>2. key # None
  BY KeyFacts
<1> HIDE DEF key
<1>3. Pool!Release(r) /\ block_hash' = block_hash
  BY ReleaseSteps DEF Release, PoolInv
<1>4. ss_should_pin <=> Pool!ss_should_pin
  BY ShouldPinAgrees DEF PoolInv, Sound
<1>5. b \in ReusableBlocks
  BY <1>1, <1>2 DEF ReusableBlocks, Reusable
<1>6. b \notin Queued'
  <2>1. CASE ss_should_pin
    BY <1>1, <1>3, <1>4, <1>5, <2>1 DEF Pool!Release, Pool!ss_pin_request, Pool!Pin
  <2>2. CASE ~ss_should_pin
    <3> SUFFICES ASSUME b \in Queued' PROVE FALSE
      OBVIOUS
    <3>1. b \in Pool!LastUsedBy(r)
      BY <1>1, <1>3, <1>4, <2>2 DEF Pool!Release, Pool!free_blocks
    <3>2. b \in Held[r]
      BY <3>1 DEF Pool!LastUsedBy
    <3>3. PICK j \in DOMAIN req_to_blocks[r] : req_to_blocks[r][j] = b
      BY <3>2 DEF Held, ToSet
    <3>4. req_to_blocks[r] \in Seq(Blocks) /\ Len(PromptOf[r]) \in Nat
      BY PromptFacts DEF PoolInv, Sound, HeldSound
    <3>5. j \in Nat /\ j >= 1
      BY <3>4
    <3>6. key = Content(r, j)
      BY <1>1, <3>3 DEF PoolInv, HeldContent
    <3>7. j \in 1 .. Len(PromptOf[r]) /\ key = SubSeq(PromptOf[r], 1, j)
      BY <1>2, <3>4, <3>5, <3>6 DEF Content
    <3>8. IsPrefix(key, PromptOf[r])
      BY <3>7, SharedKey DEF key
    <3> QED
      BY <2>2, <3>8 DEF key
  <2> QED
    BY <2>1, <2>2
<1>7. Kept(key)'
  BY <1>1, <1>3, <1>6 DEF Kept
<1> QED
  BY <1>7 DEF key

\* A prompt that is cached from start to end is a hit.
LEMMA FullHit ==
  ASSUME NEW r \in Requests,
         \A i \in 1 .. Len(PromptOf[r]) : Cached(SubSeq(PromptOf[r], 1, i)) # {}
  PROVE  HitLength(r) = HitLimit(r)
<1>1. HitLimit(r) \in 0 .. Len(PromptOf[r]) /\ Len(PromptOf[r]) \in Nat
  BY PromptFacts
<1> DEFINE lengths == {0} \cup {i \in 1 .. HitLimit(r) :
                        \A j \in 1 .. i : Cached(SubSeq(PromptOf[r], 1, j)) # {}}
<1>2. lengths = 0 .. HitLimit(r)
  <2>1. \A i \in 1 .. HitLimit(r) : \A j \in 1 .. i : j \in 1 .. Len(PromptOf[r])
    BY <1>1
  <2>2. \A i \in 0 .. HitLimit(r) : i = 0 \/ i \in 1 .. HitLimit(r)
    BY <1>1
  <2>3. \A i \in 1 .. HitLimit(r) : i \in lengths
    BY <2>1
  <2>4. 0 \in 0 .. HitLimit(r) /\ \A i \in 1 .. HitLimit(r) : i \in 0 .. HitLimit(r)
    BY <1>1
  <2> QED
    BY <2>2, <2>3, <2>4
<1>3. HitLength(r) = Max(lengths)
  BY DEF HitLength
<1> HIDE DEF lengths
<1>4. /\ Max(0 .. HitLimit(r)) \in 0 .. HitLimit(r)
      /\ \A y \in 0 .. HitLimit(r) : Max(0 .. HitLimit(r)) >= y
  <2>1. HitLimit(r) \in Nat /\ 0 .. HitLimit(r) # {}
    BY <1>1
  <2> QED
    BY <2>1, MaxOfPlaces
<1>5. HitLimit(r) \in 0 .. HitLimit(r) /\ HitLimit(r) \in Nat
  BY <1>1
<1> QED
  BY <1>2, <1>3, <1>4, <1>5

-----------------------------------------------------------------------------
(* The pinned arm keeps its contexts until they are resumed.               *)

Key(n, i) == SubSeq(PromptOf[Sends[n]], 1, i)

ContextKept(n) == \A i \in 1 .. Len(PromptOf[Sends[n]]) : Kept(Key(n, i))

\* A touch may have unpinned a block of the context.
Explained(n) == TouchedByLoad(n) \/ Interrupted(n)

\* The first context whose probe has not finished.
NextUp == IF k <= N /\ Probes[k] \in finished THEN k + 1 ELSE k

\* A block that the probe before has unpinned: it is in the queue, where nothing
\* but the next admission can take it.
Passed(n, i) ==
  /\ NextUp > 1 /\ Cached(Key(n, i)) # {}
  /\ IsPrefix(Key(n, i), PromptOf[Sends[NextUp - 1]])
  /\ req_to_blocks[Probes[NextUp]] = << >>

StillSuspended ==
  \A n \in NextUp .. N :
    Explained(n) \/ \A i \in 1 .. Len(PromptOf[Sends[n]]) : Kept(Key(n, i)) \/ Passed(n, i)

ProbeHits ==
  /\ k <= N
  /\ \/ req_to_blocks[Probes[k]] # << >>
     \/ Probes[k] \in finished /\ client[Probes[k]] = "open"
  => Probes[k] \in resident \/ Explained(k)

ContextsSound ==
  arm = "pinned" /\ Undisturbed =>
    /\ stage \in {"send", "disarm", "load", "gather"} =>
         \A n \in 1 .. Len(pinned_by_request) : TouchedByLoad(n) \/ ContextKept(n)
    /\ stage = "probe" => StillSuspended /\ ProbeHits

\* The answered probes of the point.
TtftsSound ==
  /\ probe_ttfts \in Seq([context : Nat, hit : BOOLEAN])
  /\ stage \notin {"probe", "done", "crashed"} => probe_ttfts = << >>
  /\ arm = "pinned" /\ Undisturbed =>
       \A j \in DOMAIN probe_ttfts : probe_ttfts[j].hit \/ Explained(probe_ttfts[j].context)

ResidentSound == ContextsSound /\ TtftsSound

\* A context that the load did not touch has no block in common with what the load
\* has started.
LEMMA ApartKeys ==
  ASSUME NEW n \in 1 .. Len(Sends), NEW i \in 1 .. Len(PromptOf[Sends[n]]),
         NEW q \in Load, client[q] # "new", ~TouchedByLoad(n)
  PROVE  ~IsPrefix(Key(n, i), PromptOf[q])
<1> SUFFICES ASSUME IsPrefix(Key(n, i), PromptOf[q]) PROVE FALSE
  OBVIOUS
<1> DEFINE s == PromptOf[Sends[n]]
           t == PromptOf[q]
<1>1. Sends[n] \in Requests /\ q \in Requests /\ n \in DOMAIN Sends
  BY RoleFacts
<1>2. i \in 1 .. Len(t) /\ SubSeq(t, 1, i) = SubSeq(s, 1, i)
  BY <1>1, PrefixKey DEF Key
<1>3. s \in Seq(ToSet(s)) /\ t \in Seq(ToSet(t)) /\ Len(s) \in Nat /\ Len(t) \in Nat
  BY <1>1, PromptFacts
<1>4. i \in 1 .. Len(s)
  OBVIOUS
<1>5. s[1] # t[1]
  BY DEF TouchedByLoad
<1> HIDE DEF s, t
<1>6. SubSeq(s, 1, i)[1] = s[1]
  BY <1>3, <1>4
<1>7. SubSeq(t, 1, i)[1] = t[1]
  BY <1>2, <1>3
<1> QED
  BY <1>2, <1>5, <1>6, <1>7

\* What the probes before a context left to the queue, the next probe takes up again,
\* unless it does not start alike.
LEMMA TakenUp ==
  ASSUME NEW n \in 1 .. Len(Sends), NEW i \in 1 .. Len(PromptOf[Sends[n]]), ~Interrupted(n),
         NEW j \in 1 .. n - 1, j > 1, IsPrefix(Key(n, i), PromptOf[Sends[j - 1]])
  PROVE  IsPrefix(Key(n, i), PromptOf[Sends[j]])
<1>1. j - 1 \in 1 .. n - 1 /\ j - 1 < j
  BY RoleFacts
<1> QED
  BY <1>1 DEF Interrupted, Key

\* A release never takes a request out of the history of those pinned twice.
LEMMA ReleaseRepinned ==
  ASSUME NEW r, Release(r)
  PROVE  repinned \subseteq repinned'
BY DEF Release, ss_pin_request, Pin, free_blocks

\* Only a reset ends a disturbance, and within a point a request that was sent stays so.
LEMMA StepFacts ==
  ASSUME BenchInv, [BenchNext]_allVars
  PROVE  /\ Undisturbed' /\ ~Undisturbed => Reset
         /\ ~NextPoint => /\ UNCHANGED <<point, arm, N>>
                          /\ \A n : Explained(n) => Explained(n)'
                          /\ \A n : TouchedByLoad(n) => TouchedByLoad(n)'
<1>1. ASSUME ~Reset
      PROVE  (disturbed' = disturbed \/ disturbed' = TRUE) /\ repinned \subseteq repinned'
  <2>1. ASSUME NEW r, Vacate(r) PROVE repinned \subseteq repinned'
    BY <2>1, ReleaseRepinned DEF Vacate, vars, poolVars
  <2>2. ASSUME NEW r, Fail(r)
        PROVE  (disturbed' = disturbed \/ disturbed' = TRUE) /\ repinned \subseteq repinned'
    BY <2>2, ReleaseRepinned DEF Fail, Drop, Linger, Finish, given, vars, poolVars
  <2>3. CASE CtrlOff \/ Arm \/ Disarm
    BY <2>3 DEF CtrlOff, Arm, Disarm, SetControl, given, vars, poolVars
  <2>4. CASE SendAnswered \/ AllSent \/ LoadEnds \/ Gather \/ ProbeAnswered \/ RowFails
    BY <2>4 DEF SendAnswered, AllSent, LoadEnds, Gather, ProbeAnswered, RowFails, given,
                vars, poolVars
  <2>5. CASE PostSend \/ PostProbe \/ \E q \in Load : StartTask(q)
    BY <2>1, <2>5 DEF PostSend, PostProbe, Post, StartTask
  <2>6. CASE NextPoint
    BY <2>6 DEF NextPoint, given, vars, poolVars
  <2>7. CASE ResetFails
    BY <2>7 DEF ResetFails, ResetPrefixCache, given, vars, poolVars
  <2>8. CASE SendFails \/ ProbeFails
    BY <2>2, <2>8 DEF SendFails, ProbeFails
  <2>9. ASSUME NEW r \in Requests, EngineAdmit(r) \/ EngineLetsGo(r)
        PROVE  disturbed' = disturbed /\ repinned \subseteq repinned'
    BY <2>1, <2>9 DEF EngineAdmit, Admit, EngineLetsGo, given
  <2>10. ASSUME NEW r \in Requests, EngineFinish(r) \/ EnginePreempt(r)
         PROVE  disturbed' = disturbed /\ repinned \subseteq repinned'
    BY <2>10, ReleaseRepinned DEF EngineFinish, EnginePreempt, Finish, Preempt, benchVars
  <2>11. ASSUME NEW q \in Load, EngineGrow(q) \/ TaskAnswered(q) \/ TaskFails(q)
         PROVE  (disturbed' = disturbed \/ disturbed' = TRUE) /\ repinned \subseteq repinned'
    BY <2>2, <2>11 DEF EngineGrow, Grow, TaskAnswered, TaskFails, benchVars, given, vars, poolVars
  <2>12. CASE UNCHANGED allVars
    BY <2>12 DEF allVars, benchVars, vars, poolVars
  <2> QED
    BY <1>1, <2>3, <2>4, <2>5, <2>6, <2>7, <2>8, <2>9, <2>10, <2>11, <2>12
       DEF BenchNext, RunPoint, Engine
<1>2. ASSUME ~NextPoint
      PROVE  point' = point /\ \A q \in Load : client[q] # "new" => client'[q] # "new"
  <2>1. /\ client \in [Requests -> {"new", "open", "answered", "failed"}]
        /\ Load \subseteq Requests
    BY RoleFacts DEF BenchInv, Firm, BenchType
  <2>2. CASE RunPoint
    BY <1>2, <2>1, <2>2 DEF RunPoint, CtrlOff, Reset, Arm, PostSend, SendAnswered, AllSent,
       Disarm, StartTask, LoadEnds, Gather, PostProbe, ProbeAnswered, RowFails, Post
  <2>3. CASE Engine
    BY <2>3 DEF Engine, EngineAdmit, EngineFinish, EnginePreempt, EngineLetsGo, benchVars
  <2>4. CASE ResetFails \/ SendFails \/ ProbeFails
    BY <2>1, <2>4 DEF ResetFails, SendFails, ProbeFails, Fail
  <2>5. ASSUME NEW q \in Load, EngineGrow(q) \/ TaskAnswered(q) \/ TaskFails(q)
        PROVE  point' = point /\ \A p \in Load : client[p] # "new" => client'[p] # "new"
    BY <2>1, <2>5 DEF EngineGrow, TaskAnswered, TaskFails, one_request, Fail, benchVars
  <2>6. CASE UNCHANGED allVars
    BY <2>6 DEF allVars, benchVars
  <2> QED
    BY <2>2, <2>3, <2>4, <2>5, <2>6 DEF BenchNext
<1>3. ASSUME ~NextPoint PROVE \A n : TouchedByLoad(n) => TouchedByLoad(n)'
  BY <1>2, <1>3 DEF TouchedByLoad
<1>4. ASSUME ~NextPoint PROVE \A n : Explained(n) => Explained(n)'
  BY <1>3, <1>4 DEF Explained, Interrupted
<1>5. ASSUME ~NextPoint PROVE UNCHANGED <<point, arm, N>>
  BY <1>2, <1>5 DEF arm, N
<1>6. ASSUME Undisturbed', ~Reset PROVE Undisturbed
  <2>1. repinned = {}
    BY <1>1, <1>6 DEF Undisturbed
  <2>2. ~disturbed
    BY <1>1, <1>6, Zenon DEF Undisturbed
  <2> QED
    BY <2>1, <2>2 DEF Undisturbed
<1> QED
  BY <1>3, <1>4, <1>5, <1>6

\* Unless the point is disturbed, a request is sent into an engine that does not know it.
LEMMA FreshName ==
  ASSUME BenchInv, NEW r, Vacate(r), Undisturbed', disturbed' = disturbed
  PROVE  UNCHANGED <<poolVars, finished>>
<1>1. lingering = {}
  BY DEF BenchInv, Firm, BenchType, Undisturbed
<1> QED
  BY <1>1 DEF Vacate, vars

\* Steps that leave the pool as it is keep what is kept.
LEMMA StillKept ==
  ASSUME UNCHANGED poolVars
  PROVE  /\ \A key : Kept(key)' <=> Kept(key)
         /\ \A key : Cached(key)' = Cached(key)
         /\ \A n : ContextKept(n)' <=> ContextKept(n)
         /\ req_to_blocks' = req_to_blocks /\ pinned_by_request' = pinned_by_request
BY DEF poolVars, Kept, Queued, Cached, ContextKept

\* What is kept is cached.
LEMMA KeptIsCached ==
  ASSUME NEW key, Kept(key)
  PROVE  Cached(key) # {}
BY DEF Kept, Cached

\* A failure gives up at most the prefixes of the prompt of its request, and what
\* is cached stays so.
LEMMA DropKept ==
  ASSUME BenchInv, NEW r \in Requests, Drop(r)
  PROVE  /\ \A q \in Requests : \A i \in 1 .. Len(PromptOf[q]) :
              Kept(SubSeq(PromptOf[q], 1, i))
                /\ ~IsPrefix(SubSeq(PromptOf[q], 1, i), PromptOf[r])
              => Kept(SubSeq(PromptOf[q], 1, i))'
         /\ \A key : Cached(key)' = Cached(key)
<1>1. CASE UNCHANGED poolVars
  BY <1>1, StillKept
<1>2. CASE Finish(r)
  <2>1. Release(r) /\ block_hash' = block_hash
    BY <1>2 DEF Finish, Release
  <2> QED
    BY <2>1, ReleaseKept DEF BenchInv, Firm, Cached
<1> QED
  BY <1>1, <1>2 DEF Drop, vars

\* The steps up to the load that leave the pool alone, and those that end the run.
LEMMA QuietResident ==
  ASSUME BenchInv, ContextsSound, [BenchNext]_allVars,
         CtrlOff \/ Reset \/ Arm \/ PostSend \/ SendAnswered \/ AllSent \/ Disarm \/ LoadEnds
           \/ ResetFails \/ RowFails \/ SendFails
           \/ \E q \in Load : StartTask(q) \/ TaskAnswered(q)
  PROVE  ContextsSound'
<1> SUFFICES ASSUME arm' = "pinned", Undisturbed' PROVE ContextsSound'
  BY DEF ContextsSound
<1>1. /\ ~NextPoint
      /\ \/ stage' \in {"reset", "arm", "crashed"}
         \/ UNCHANGED poolVars /\ stage = "arm" /\ stage' = "send" /\ disturbed' = disturbed
         \/ /\ UNCHANGED poolVars /\ stage \in {"send", "disarm", "load", "gather"}
            /\ stage' \in {"send", "disarm", "load", "gather"} /\ ~Reset
  <2>1. CASE PostSend \/ \E q \in Load : StartTask(q)
    <3>1. stage \in {"send", "load"} /\ stage' = stage /\ UNCHANGED poolVars
      BY <2>1, FreshName DEF PostSend, StartTask, Post
    <3> QED
      BY <3>1 DEF NextPoint, Reset, Goto
  <2>2. CASE CtrlOff \/ Reset \/ Arm \/ Disarm
    BY <2>2 DEF CtrlOff, Reset, Arm, Disarm, Goto, NextPoint, SetControl, given, vars
  <2>3. CASE SendAnswered \/ AllSent \/ LoadEnds \/ \E q \in Load : TaskAnswered(q)
    BY <2>3 DEF SendAnswered, AllSent, LoadEnds, TaskAnswered, one_request, Goto, NextPoint,
                Reset, vars
  <2>4. CASE ResetFails \/ RowFails \/ SendFails
    BY <2>4 DEF ResetFails, RowFails, SendFails, Goto, NextPoint
  <2> QED
    BY <2>1, <2>2, <2>3, <2>4
<1>2. UNCHANGED arm /\ \A n : TouchedByLoad(n) => TouchedByLoad(n)'
  BY <1>1, StepFacts
<1>3. CASE stage' \in {"reset", "arm", "crashed"}
  BY <1>3 DEF ContextsSound
<1>4. CASE UNCHANGED poolVars /\ stage = "arm" /\ stage' = "send" /\ disturbed' = disturbed
  <2>1. Undisturbed
    BY <1>4 DEF Undisturbed, poolVars
  <2>2. Len(pinned_by_request) = 0 /\ pinned_by_request' = pinned_by_request
    BY <1>4, <2>1 DEF BenchInv, Calm, KeysSound, Suspended, poolVars
  <2> QED
    BY <1>4, <2>2 DEF ContextsSound
<1>5. CASE /\ UNCHANGED poolVars /\ stage \in {"send", "disarm", "load", "gather"}
           /\ stage' \in {"send", "disarm", "load", "gather"} /\ ~Reset
  <2>1. Undisturbed /\ arm = "pinned"
    BY <1>2, <1>5, StepFacts
  <2>2. \A n \in 1 .. Len(pinned_by_request) : TouchedByLoad(n) \/ ContextKept(n)
    BY <1>5, <2>1 DEF ContextsSound
  <2> QED
    BY <1>2, <1>5, <2>2, StillKept DEF ContextsSound
<1> QED
  BY <1>1, <1>3, <1>4, <1>5

\* A probe that has not been sent has not finished and holds nothing.
LEMMA AheadProbe ==
  ASSUME BenchInv, Undisturbed, NEW i \in 1 .. N,
         stage \in {"load", "gather"} \/ (stage = "probe" /\ i > k)
  PROVE  /\ Probes[i] \in Requests /\ client[Probes[i]] = "new"
         /\ Probes[i] \notin finished /\ req_to_blocks[Probes[i]] = << >>
<1>1. i \in 1 .. Len(Sends)
  BY PointFacts DEF BenchInv, Firm
<1>2. client[Probes[i]] = "new" /\ Probes[i] \in Requests /\ lingering = {}
  BY <1>1, RoleFacts DEF BenchInv, Firm, Ahead, BenchType, Undisturbed
<1> QED
  BY <1>2 DEF BenchInv, Firm, ClientSound

\* The probes start with every context kept.
LEMMA GatherResident ==
  ASSUME BenchInv, ContextsSound, Gather
  PROVE  ContextsSound'
<1>1. /\ stage = "gather" /\ stage' = "probe"
      /\ UNCHANGED <<vars, point, k, client, resident, given>>
  BY DEF Gather, Goto
<1>2. UNCHANGED <<arm, N, poolVars, finished, lingering, disturbed, repinned>>
  BY <1>1 DEF arm, N, vars, given, poolVars
<1> SUFFICES ASSUME arm = "pinned", Undisturbed PROVE ContextsSound'
  BY <1>2 DEF ContextsSound, Undisturbed
<1>3. k = 1 /\ N \in Nat
  BY <1>1, PointFacts DEF BenchInv, Firm, Ahead
<1>4. Len(pinned_by_request) = N
  BY <1>1 DEF BenchInv, Calm, KeysSound, Suspended
<1>5. \A n \in 1 .. N : Explained(n)' \/ ContextKept(n)'
  BY <1>1, <1>2, <1>4, StillKept DEF ContextsSound, Explained, TouchedByLoad
<1>6. 1 <= N => Probes[1] \notin finished /\ req_to_blocks[Probes[1]] = << >>
  <2> SUFFICES ASSUME 1 <= N PROVE Probes[1] \notin finished /\ req_to_blocks[Probes[1]] = << >>
    OBVIOUS
  <2>1. k \in 1 .. N
    BY <1>3
  <2>2. stage \in {"load", "gather"}
    BY <1>1
  <2>3. \A i \in 1 .. N : Probes[i] \notin finished /\ req_to_blocks[Probes[i]] = << >>
    BY <2>2, AheadProbe
  <2> QED
    BY <1>3, <2>1, <2>3
<1>7. NextUp' = 1
  BY <1>1, <1>2, <1>3, <1>6 DEF NextUp
<1>8. StillSuspended'
  BY <1>2, <1>5, <1>7 DEF StillSuspended, ContextKept
<1>9. ProbeHits'
  BY <1>1, <1>2, <1>3, <1>6, StillKept DEF ProbeHits
<1> QED
  BY <1>1, <1>8, <1>9 DEF ContextsSound

\* The turn of a probe starts, and its answer ends it.
LEMMA TurnResident ==
  ASSUME BenchInv, ContextsSound, PostProbe \/ ProbeAnswered
  PROVE  ContextsSound'
<1> SUFFICES ASSUME arm' = "pinned", Undisturbed' PROVE ContextsSound'
  BY DEF ContextsSound
<1>1. /\ stage = "probe" /\ stage' = stage /\ UNCHANGED <<point, resident, disturbed>>
      /\ k <= N /\ UNCHANGED <<poolVars, finished>>
  <2>1. CASE PostProbe
    BY <2>1, FreshName DEF PostProbe, Post
  <2>2. CASE ProbeAnswered
    BY <2>2 DEF ProbeAnswered, given, vars
  <2> QED
    BY <2>1, <2>2
<1>2. UNCHANGED <<arm, N>> /\ Undisturbed
  BY <1>1 DEF arm, N, Undisturbed, poolVars
<1>3. N \in Nat /\ k \in Nat /\ k >= 1 /\ k \in 1 .. Len(Sends)
  BY <1>1, PointFacts DEF BenchInv, Firm
<1>4. StillSuspended
  BY <1>1, <1>2 DEF ContextsSound
<1>5. k + 1 <= N => /\ Probes[k + 1] \in Requests /\ client[Probes[k + 1]] = "new"
                    /\ Probes[k + 1] \notin finished /\ req_to_blocks[Probes[k + 1]] = << >>
  <2>1. k + 1 <= N => k + 1 \in 1 .. N /\ k + 1 > k
    BY <1>3
  <2> QED
    BY <1>1, <1>2, <2>1, AheadProbe
<1>6. \A n : Explained(n)' <=> Explained(n)
  <2>1. \A q \in Load : client'[q] = client[q]
    <3>1. client' = [client EXCEPT ![Probes[k]] = client'[Probes[k]]]
      BY <1>3, RoleFacts
         DEF PostProbe, Post, ProbeAnswered, BenchInv, Firm, BenchType
    <3>2. Probes[k] \notin Load
      BY <1>3, RoleFacts
    <3> QED
      BY <3>1, <3>2, RoleFacts DEF BenchInv, Firm, BenchType
  <2> QED
    BY <2>1 DEF Explained, TouchedByLoad, Interrupted
<1>7. NextUp' = NextUp => StillSuspended'
  BY <1>1, <1>2, <1>4, <1>6, StillKept DEF StillSuspended, Passed
<1>8. CASE PostProbe
  <2>1. UNCHANGED k /\ client[Probes[k]] = "new"
    BY <1>8 DEF PostProbe, Post
  <2>2. Probes[k] \in Requests /\ lingering = {}
    BY <1>2, <1>3, RoleFacts DEF BenchInv, Firm, BenchType, Undisturbed
  <2>3. Probes[k] \notin finished /\ req_to_blocks[Probes[k]] = << >>
    BY <2>1, <2>2 DEF BenchInv, Firm, ClientSound
  <2>4. NextUp' = NextUp
    BY <1>1, <1>2, <2>1 DEF NextUp
  <2>5. ProbeHits'
    BY <1>1, <1>2, <2>1, <2>3, StillKept DEF ProbeHits
  <2> QED
    BY <1>1, <1>7, <2>4, <2>5 DEF ContextsSound
<1>9. CASE ProbeAnswered
  <2>1. /\ k' = k + 1 /\ Probes[k] \in finished
        /\ client' = [client EXCEPT ![Probes[k]] = "answered"]
    BY <1>9 DEF ProbeAnswered, Answered
  <2>2. NextUp = k + 1
    BY <1>1, <2>1 DEF NextUp
  <2>3. NextUp' = k + 1
    BY <1>1, <1>2, <1>5, <2>1 DEF NextUp
  <2>4. ProbeHits'
    BY <1>1, <1>2, <1>5, <2>1, StillKept DEF ProbeHits
  <2> QED
    BY <1>1, <1>7, <2>2, <2>3, <2>4 DEF ContextsSound
<1> QED
  BY <1>8, <1>9

\* An admission: of a context, its load or its probe.  A probe finds its whole
\* prompt, and takes up again what the probe before had left to the queue.
LEMMA AdmitResident ==
  ASSUME BenchInv, ContextsSound, NEW r \in Requests, EngineAdmit(r)
  PROVE  ContextsSound'
<1>1. /\ InEngine(r) /\ Admit(r)
      /\ UNCHANGED <<point, stage, k, client, lingering, disturbed>>
      /\ UNCHANGED <<pinned_by_request, finished, repinned>>
      /\ resident' = IF client[r] = "open" /\ HitLength(r) = HitLimit(r)
                     THEN resident \cup {r} ELSE resident
  BY DEF EngineAdmit, Admit, given
<1>2. UNCHANGED <<arm, N>>
  BY <1>1 DEF arm, N
<1> SUFFICES ASSUME arm = "pinned", Undisturbed PROVE ContextsSound'
  BY <1>1, <1>2 DEF ContextsSound, Undisturbed
<1>3. client[r] = "open" /\ r \notin finished
  BY <1>1 DEF InEngine, Undisturbed, BenchInv, Firm, BenchType
<1>4. /\ \A key : Kept(key) => Kept(key)'
      /\ \A i \in 1 .. Len(PromptOf[r]) : Kept(SubSeq(PromptOf[r], 1, i))'
  BY <1>1, AdmitKept DEF BenchInv, Firm
<1>5. \A n : (Explained(n)' <=> Explained(n)) /\ (TouchedByLoad(n)' <=> TouchedByLoad(n))
  BY <1>1 DEF Explained, TouchedByLoad, Interrupted
<1>6. CASE stage # "probe"
  <2>1. ASSUME stage \in {"send", "disarm", "load", "gather"},
               NEW n \in 1 .. Len(pinned_by_request), ~TouchedByLoad(n)
        PROVE  ContextKept(n)'
    <3>1. ContextKept(n)
      BY <2>1 DEF ContextsSound
    <3> QED
      BY <1>4, <3>1 DEF ContextKept
  <2> QED
    BY <1>1, <1>5, <1>6, <2>1 DEF ContextsSound
<1>7. CASE stage = "probe"
  <2>1. k <= N /\ r = Probes[k]
    BY <1>3, <1>7 DEF BenchInv, Firm, ClientSound, Turn
  <2>2. k \in 1 .. Len(Sends) /\ N \in Nat /\ k \in Nat /\ N <= Len(Sends) /\ k >= 1
    BY <2>1, PointFacts DEF BenchInv, Firm
  <2>3. PromptOf[r] = PromptOf[Sends[k]]
    BY <2>1, <2>2, RoleFacts
  <2>4. NextUp = k /\ NextUp' = k
    BY <1>1, <1>2, <1>3, <2>1 DEF NextUp
  <2>5. StillSuspended
    BY <1>7 DEF ContextsSound
  <2>6. k \in NextUp .. N
    BY <2>1, <2>2, <2>4
  <2>7. ASSUME ~Explained(k) PROVE r \in resident'
    <3>1. \A i \in 1 .. Len(PromptOf[r]) : Cached(SubSeq(PromptOf[r], 1, i)) # {}
      <4> SUFFICES ASSUME NEW i \in 1 .. Len(PromptOf[Sends[k]])
                   PROVE  Cached(Key(k, i)) # {}
        BY <2>3 DEF Key
      <4>1. Kept(Key(k, i)) \/ Passed(k, i)
        BY <2>5, <2>6, <2>7 DEF StillSuspended
      <4> QED
        BY <4>1, KeptIsCached DEF Passed
    <3> QED
      BY <1>1, <1>3, <3>1, FullHit
  <2>8. ASSUME NEW n \in k .. N, ~Explained(n), NEW i \in 1 .. Len(PromptOf[Sends[n]])
        PROVE  Kept(Key(n, i))'
    <3>1. CASE Kept(Key(n, i))
      BY <1>4, <3>1
    <3>2. CASE n = k
      BY <1>4, <2>3, <3>2 DEF Key
    <3>3. CASE ~Kept(Key(n, i)) /\ n # k
      <4>1. k > 1 /\ IsPrefix(Key(n, i), PromptOf[Sends[k - 1]])
        BY <2>4, <2>5, <2>8, <3>3 DEF StillSuspended, Passed
      <4>2. n \in 1 .. Len(Sends) /\ k \in 1 .. n - 1 /\ ~Interrupted(n)
        BY <2>2, <2>8, <3>3, RoleFacts DEF Explained
      <4>3. IsPrefix(Key(n, i), PromptOf[Sends[k]])
        BY <4>1, <4>2, TakenUp
      <4>4. Sends[n] \in Requests /\ Sends[k] \in Requests
        BY <2>2, <4>2, RoleFacts
      <4>5. i \in 1 .. Len(PromptOf[Sends[k]]) /\ Key(k, i) = Key(n, i)
        BY <4>3, <4>4, PrefixKey DEF Key
      <4> QED
        BY <1>4, <2>3, <4>5 DEF Key
    <3> QED
      BY <3>1, <3>2, <3>3
  <2>9. StillSuspended'
    BY <1>2, <1>5, <2>4, <2>8 DEF StillSuspended
  <2>10. ProbeHits'
    BY <1>1, <1>5, <2>1, <2>7 DEF ProbeHits
  <2> QED
    BY <1>1, <1>7, <2>9, <2>10 DEF ContextsSound
<1> QED
  BY <1>6, <1>7

\* The load decodes, is preempted, finishes or fails: its blocks are its own, but for
\* those of the contexts it has touched.
LEMMA LoadResident ==
  ASSUME BenchInv, ContextsSound, [BenchNext]_allVars, NEW r \in Load,
         EngineGrow(r) \/ EnginePreempt(r) \/ EngineFinish(r) \/ TaskFails(r)
  PROVE  ContextsSound'
<1> SUFFICES ASSUME arm' = "pinned", Undisturbed' PROVE ContextsSound'
  BY DEF ContextsSound
<1>1. /\ r \in Requests /\ UNCHANGED <<point, stage, k>>
      /\ client' = client \/ client' = [client EXCEPT ![r] = "failed"]
      /\ InEngine(r) \/ client[r] = "open"
      /\ Grow(r) \/ Preempt(r) \/ Finish(r) \/ (TaskFails(r) /\ Fail(r))
  BY RoleFacts DEF EngineGrow, EnginePreempt, EngineFinish, TaskFails, Fail,
                   one_request, benchVars
<1>2. ~NextPoint /\ ~Reset
  <2>1. stage' = stage /\ k' = k /\ point' = point
    BY <1>1
  <2>2. ~Reset
    BY <2>1 DEF Reset, Goto
  <2>3. ~NextPoint
    BY <2>1 DEF NextPoint, BenchInv, Firm, BenchType
  <2> QED
    BY <2>2, <2>3
<1>3. Undisturbed /\ UNCHANGED <<arm, N>> /\ \A n : TouchedByLoad(n) => TouchedByLoad(n)'
  BY <1>2, StepFacts
<1>4. client[r] = "open"
  BY <1>1, <1>3 DEF InEngine, Undisturbed, BenchInv, Firm, BenchType
<1>5. stage \in {"load", "gather"}
  <2>1. Turn(r) /\ (k <= N => k \in 1 .. Len(Sends))
    BY <1>1, <1>4, PointFacts DEF BenchInv, Firm, ClientSound
  <2> QED
    BY <2>1, RoleFacts DEF Turn
<1>6. BenchInv' /\ Calm /\ Calm'
  BY <1>3, NextBench DEF BenchInv
<1>7. Len(pinned_by_request) = N /\ Len(pinned_by_request') = N
  BY <1>1, <1>3, <1>5, <1>6 DEF Calm, KeysSound, Suspended
<1>8. N <= Len(Sends) /\ N \in Nat /\ Len(Sends) \in Nat
  BY PointFacts DEF BenchInv, Firm
<1>9. ASSUME NEW n \in 1 .. N, ~TouchedByLoad(n), NEW i \in 1 .. Len(PromptOf[Sends[n]])
      PROVE  Kept(Key(n, i))'
  <2>1. n \in 1 .. Len(Sends) /\ Sends[n] \in Requests
    BY <1>8, RoleFacts
  <2>2. Kept(Key(n, i))
    BY <1>3, <1>5, <1>7, <1>9 DEF ContextsSound, ContextKept
  <2>3. ~IsPrefix(Key(n, i), PromptOf[r])
    BY <1>4, <1>9, <2>1, ApartKeys
  <2>4. CASE Grow(r)
    BY <1>1, <2>2, <2>4, GrowKept DEF BenchInv, Firm
  <2>5. CASE Preempt(r) \/ Finish(r)
    <3>1. Release(r)
      BY <2>5 DEF Preempt, Finish
    <3> QED
      BY <1>1, <2>1, <2>2, <2>3, <3>1, ReleaseKept DEF Key, BenchInv, Firm
  <2>6. CASE Fail(r)
    <3>1. Drop(r)
      BY <1>1, <2>6, FailFacts
    <3> QED
      BY <1>1, <2>1, <2>2, <2>3, <3>1, DropKept DEF Key
  <2> QED
    BY <1>1, <2>4, <2>5, <2>6
<1>10. \A n \in 1 .. N : TouchedByLoad(n)' \/ ContextKept(n)'
  BY <1>3, <1>9 DEF ContextKept
<1> QED
  BY <1>1, <1>5, <1>7, <1>10 DEF ContextsSound

\* A send finishes under first_n: what it and the sends before have cached is kept.
LEMMA SendResident ==
  ASSUME BenchInv, ContextsSound, NEW r \in Requests, EngineFinish(r), stage = "send"
  PROVE  ContextsSound'
<1>1. /\ client[r] = "open" /\ r \notin finished /\ Release(r)
      /\ UNCHANGED <<point, stage, k, client, disturbed>>
  BY DEF EngineFinish, Finish, benchVars
<1>2. UNCHANGED <<arm, N>>
  BY <1>1 DEF arm, N
<1> SUFFICES ASSUME arm = "pinned", Undisturbed' PROVE ContextsSound'
  BY <1>2 DEF ContextsSound
<1>3. Undisturbed /\ Calm
  <2>1. Undisturbed
    BY <1>1, ReleaseRepinned DEF Undisturbed
  <2> QED
    BY <2>1 DEF BenchInv
<1>4. k <= N /\ r = Sends[k]
  BY <1>1 DEF BenchInv, Firm, ClientSound, Turn
<1>5. k \in Nat /\ k >= 1 /\ N \in Nat /\ N <= Len(Sends) /\ Len(Sends) \in Nat
  BY PointFacts DEF BenchInv, Firm
<1>6. Len(pinned_by_request) = k - 1
  BY <1>1, <1>3, <1>4 DEF Calm, KeysSound, Suspended
<1>7. Len(pinned_by_request') = k
  BY <1>1, <1>3, ReleaseKeys
<1>8. ss_should_pin
  <2>1. ctrl = [mode |-> "first_n", n |-> N]
    BY DEF BenchInv, Firm, CtrlSound
  <2> QED
    BY <1>4, <1>5, <1>6, <2>1 DEF ss_should_pin
<1>9. ASSUME NEW n \in 1 .. k, ~TouchedByLoad(n), NEW i \in 1 .. Len(PromptOf[Sends[n]])
      PROVE  Kept(Key(n, i))'
  <2>1. Sends[n] \in Requests
    BY <1>4, <1>5, RoleFacts
  <2>2. Kept(Key(n, i))
    <3>1. CASE n = k
      BY <1>1, <1>4, <3>1, HeldKept DEF Key, Release, BenchInv, Firm
    <3>2. CASE n # k
      <4>1. n \in 1 .. Len(pinned_by_request)
        BY <1>5, <1>6, <3>2
      <4> QED
        BY <1>3, <1>9, <4>1 DEF ContextsSound, ContextKept
    <3> QED
      BY <3>1, <3>2
  <2> QED
    BY <1>1, <1>8, <2>1, <2>2, ReleaseKept DEF Key, BenchInv, Firm
<1>10. \A n \in 1 .. k : TouchedByLoad(n)' \/ ContextKept(n)'
  BY <1>1, <1>9 DEF ContextKept, TouchedByLoad
<1> QED
  BY <1>1, <1>7, <1>10 DEF ContextsSound

\* A probe leaves the engine, answered or not, admitted or not: what it gives up
\* of the contexts behind it stays cached.
LEMMA ProbeLeaves ==
  ASSUME BenchInv, ContextsSound, arm = "pinned", Undisturbed, stage = "probe",
         k <= N, Probes[k] \notin finished, \A n : Explained(n) => Explained(n)',
         \/ Finish(Probes[k])
         \/ /\ req_to_blocks[Probes[k]] = << >>
            /\ finished' = finished \cup {Probes[k]} /\ UNCHANGED <<poolVars, ctrl>>,
         UNCHANGED <<N, k>> \/ (UNCHANGED N /\ k' = k + 1)
  PROVE  /\ StillSuspended' /\ finished' = finished \cup {Probes[k]}
         /\ req_to_blocks[Probes[k]] # << >> => Probes[k] \in resident \/ Explained(k)
         /\ Finish(Probes[k]) => req_to_blocks[Probes[k]] # << >>
         /\ \A i \in 1 .. N : i > k =>
              Probes[i] \notin finished' /\ req_to_blocks'[Probes[i]] = << >>
<1> DEFINE r == Probes[k]
<1>1. k \in 1 .. Len(Sends) /\ k \in Nat /\ k >= 1 /\ N \in Nat /\ N <= Len(Sends)
      /\ Len(Sends) \in Nat
  BY PointFacts DEF BenchInv, Firm
<1>2. r \in Requests /\ PromptOf[r] = PromptOf[Sends[k]]
  BY <1>1, RoleFacts
<1>3. NextUp = k
  BY DEF NextUp
<1>4. StillSuspended /\ ProbeHits
  BY DEF ContextsSound
<1>5. /\ finished' = finished \cup {r} /\ block_hash' = block_hash
      /\ \A q \in Requests : q # r => req_to_blocks'[q] = req_to_blocks[q]
      /\ Finish(r) => Release(r) /\ req_to_blocks[r] # << >>
  <2>1. CASE Finish(r)
    BY <1>2, <2>1 DEF Finish, Release, BenchInv, Firm, PoolInv, Sound, HeldSound
  <2>2. CASE ~Finish(r)
    BY <2>2 DEF poolVars
  <2> QED
    BY <2>1, <2>2
<1> HIDE DEF r
<1>6. ASSUME NEW i \in 1 .. N, i > k
      PROVE  Probes[i] \notin finished' /\ req_to_blocks'[Probes[i]] = << >>
  <2>1. Probes[i] \in Requests /\ Probes[i] \notin finished /\ req_to_blocks[Probes[i]] = << >>
    BY <1>6, AheadProbe
  <2>2. Probes[i] # r
    <3>1. i \in 1 .. Len(Sends) /\ i # k
      BY <1>1, <1>6
    <3> QED
      BY <1>1, <3>1, RoleFacts DEF r
  <2> QED
    BY <1>5, <2>1, <2>2
<1>7. NextUp' = k + 1
  <2>1. CASE k' = k
    BY <1>5, <2>1 DEF NextUp, r
  <2>2. CASE k' = k + 1
    <3>1. k + 1 <= N => k + 1 \in 1 .. N /\ k + 1 > k
      BY <1>1
    <3>2. ~(k + 1 <= N /\ Probes[k + 1] \in finished')
      BY <1>6, <3>1
    <3> QED
      BY <2>2, <3>2 DEF NextUp
  <2> QED
    BY <2>1, <2>2
<1>8. ASSUME NEW n \in k + 1 .. N, ~Explained(n), NEW i \in 1 .. Len(PromptOf[Sends[n]]),
             ~Kept(Key(n, i))'
      PROVE  Passed(n, i)'
  <2>1. n \in k .. N /\ n \in 1 .. Len(Sends) /\ k \in 1 .. n - 1 /\ Sends[n] \in Requests
        /\ Sends[k] \in Requests /\ ~Interrupted(n)
    BY <1>1, <1>8, RoleFacts DEF Explained
  <2>2. Kept(Key(n, i)) \/ Passed(n, i)
    BY <1>3, <1>4, <1>8, <2>1 DEF StillSuspended
  <2>3. Cached(Key(n, i))' # {}
    BY <1>5, <2>2, KeptIsCached DEF Passed, Cached
  <2>4. IsPrefix(Key(n, i), PromptOf[Sends[k]])
    <3>1. CASE Kept(Key(n, i))
      <4>1. CASE Finish(r)
        BY <1>2, <1>5, <1>8, <2>1, <3>1, <4>1, ReleaseKept DEF Key, BenchInv, Firm
      <4>2. CASE ~Finish(r)
        BY <1>8, <3>1, <4>2, StillKept DEF r
      <4> QED
        BY <4>1, <4>2
    <3>2. CASE Passed(n, i)
      <4>1. k > 1 /\ IsPrefix(Key(n, i), PromptOf[Sends[k - 1]])
        BY <1>3, <3>2 DEF Passed
      <4> QED
        BY <2>1, <4>1, TakenUp
    <3> QED
      BY <2>2, <3>1, <3>2
  <2>5. k + 1 \in 1 .. N /\ k + 1 > k /\ k + 1 > 1 /\ (k + 1) - 1 = k
    BY <1>1
  <2>6. req_to_blocks'[Probes[k + 1]] = << >>
    BY <1>6, <2>5
  <2> QED
    BY <1>7, <2>3, <2>4, <2>5, <2>6 DEF Passed
<1>9. StillSuspended'
  <2>1. N' = N
    OBVIOUS
  <2> QED
    BY <1>7, <1>8, <2>1 DEF StillSuspended
<1> QED
  BY <1>4, <1>5, <1>6, <1>9 DEF ProbeHits, r

\* A probe finishes, or fails and is passed over.
LEMMA ProbeResident ==
  ASSUME BenchInv, ContextsSound, [BenchNext]_allVars,
         \/ ProbeFails
         \/ stage = "probe" /\ \E r \in Requests : EngineFinish(r)
  PROVE  ContextsSound'
<1> SUFFICES ASSUME arm' = "pinned", Undisturbed' PROVE ContextsSound'
  BY DEF ContextsSound
<1>1. /\ stage = "probe" /\ k <= N /\ UNCHANGED <<point, stage, resident>>
      /\ \/ ProbeFails /\ k' = k + 1 /\ Fail(Probes[k])
         \/ EngineFinish(Probes[k]) /\ k' = k /\ client' = client
  <2>1. CASE ProbeFails
    BY <2>1 DEF ProbeFails
  <2>2. ASSUME stage = "probe", NEW r \in Requests, EngineFinish(r)
        PROVE  k <= N /\ r = Probes[k]
    BY <2>2 DEF EngineFinish, BenchInv, Firm, ClientSound, Turn
  <2>3. CASE stage = "probe" /\ \E r \in Requests : EngineFinish(r)
    BY <2>2, <2>3 DEF EngineFinish, benchVars
  <2> QED
    BY <2>1, <2>3
<1>2. N \in Nat /\ k \in Nat /\ k >= 1 /\ k \in 1 .. Len(Sends)
  BY <1>1, PointFacts DEF BenchInv, Firm
<1>3. ~NextPoint /\ ~Reset
  BY <1>1, <1>2 DEF NextPoint, Reset, Goto
<1>4. Undisturbed /\ UNCHANGED <<arm, N>> /\ \A n : Explained(n) => Explained(n)'
  BY <1>3, StepFacts
<1>5. StillSuspended
  BY <1>1, <1>4 DEF ContextsSound
<1>6. Probes[k] \in Requests
  BY <1>2, RoleFacts
<1>7. ProbeFails => Drop(Probes[k])
  BY <1>1, <1>2, <1>6, FailFacts DEF ProbeFails
<1>8. CASE Probes[k] \in finished
  <2>1. /\ UNCHANGED vars /\ k' = k + 1 /\ client' = [client EXCEPT ![Probes[k]] = "failed"]
    BY <1>1, <1>7, <1>8 DEF Fail, Drop, Finish, EngineFinish
  <2>2. UNCHANGED <<poolVars, finished>>
    BY <2>1 DEF vars
  <2>3. \A i \in 1 .. N : i > k =>
          Probes[i] \notin finished /\ req_to_blocks[Probes[i]] = << >>
    BY <1>1, <1>4, AheadProbe
  <2>4. k + 1 <= N => k + 1 \in 1 .. N /\ k + 1 > k
    BY <1>2
  <2>5. NextUp = k + 1 /\ NextUp' = k + 1
    BY <1>1, <1>4, <1>8, <2>1, <2>2, <2>3, <2>4 DEF NextUp
  <2>6. StillSuspended'
    BY <1>4, <1>5, <2>2, <2>5, StillKept DEF StillSuspended, Passed
  <2>7. ProbeHits'
    BY <1>4, <2>1, <2>2, <2>3, <2>4, StillKept DEF ProbeHits
  <2> QED
    BY <1>1, <2>6, <2>7 DEF ContextsSound
<1>9. CASE Probes[k] \notin finished
  <2>1. /\ \/ Finish(Probes[k])
           \/ /\ req_to_blocks[Probes[k]] = << >>
              /\ finished' = finished \cup {Probes[k]} /\ UNCHANGED <<poolVars, ctrl>>
        /\ EngineFinish(Probes[k]) => Finish(Probes[k])
    BY <1>1, <1>7, <1>9 DEF Drop, EngineFinish
  <2>2. /\ StillSuspended' /\ finished' = finished \cup {Probes[k]}
        /\ req_to_blocks[Probes[k]] # << >> => Probes[k] \in resident \/ Explained(k)
        /\ Finish(Probes[k]) => req_to_blocks[Probes[k]] # << >>
        /\ \A i \in 1 .. N : i > k =>
             Probes[i] \notin finished' /\ req_to_blocks'[Probes[i]] = << >>
    BY <1>1, <1>4, <1>9, <2>1, ProbeLeaves
  <2>3. ProbeHits'
    <3>1. CASE k' = k + 1
      <4>1. k + 1 <= N => k + 1 \in 1 .. N /\ k + 1 > k
        BY <1>2
      <4> QED
        BY <1>4, <2>2, <3>1, <4>1 DEF ProbeHits
    <3>2. CASE k' = k
      <4>1. EngineFinish(Probes[k])
        BY <1>1, <1>2, <3>2
      <4> QED
        BY <1>1, <1>4, <2>1, <2>2, <3>2, <4>1 DEF ProbeHits
    <3> QED
      BY <1>1, <3>1, <3>2
  <2> QED
    BY <1>1, <2>2, <2>3 DEF ContextsSound
<1> QED
  BY <1>8, <1>9

\* Every step keeps the contexts of the pinned arm for their probes.
LEMMA NextContexts ==
  ASSUME BenchInv, ContextsSound, [BenchNext]_allVars
  PROVE  ContextsSound'
<1>1. CASE NextPoint
  BY <1>1 DEF NextPoint, ContextsSound
<1>2. CASE RunPoint
  BY <1>1, <1>2, QuietResident, GatherResident, TurnResident DEF RunPoint
<1>3. CASE ResetFails \/ SendFails \/ ProbeFails
  BY <1>3, QuietResident, ProbeResident
<1>4. ASSUME NEW r \in Requests, EngineAdmit(r) PROVE ContextsSound'
  BY <1>4, AdmitResident
<1>5. ASSUME NEW r \in Requests, EngineFinish(r) PROVE ContextsSound'
  <2>1. stage \in {"send", "probe"} \/ r \in Load
    BY <1>5 DEF EngineFinish, BenchInv, Firm, ClientSound, Turn
  <2> QED
    BY <1>5, <2>1, SendResident, ProbeResident, LoadResident
<1>6. ASSUME NEW r \in Requests, EnginePreempt(r) PROVE ContextsSound'
  <2>1. CASE Undisturbed'
    BY <1>6, <2>1, EnginePreemptSteps, LoadResident
  <2>2. CASE ~Undisturbed'
    BY <2>2 DEF ContextsSound
  <2> QED
    BY <2>1, <2>2
<1>7. ASSUME NEW r \in Requests, EngineLetsGo(r) PROVE ContextsSound'
  BY <1>7, EngineLetsGoSteps DEF ContextsSound
<1>8. ASSUME NEW q \in Load, EngineGrow(q) \/ TaskAnswered(q) \/ TaskFails(q)
      PROVE  ContextsSound'
  BY <1>8, LoadResident, QuietResident
<1>9. CASE UNCHANGED allVars
  <2>1. /\ UNCHANGED <<poolVars, finished, repinned, disturbed>>
        /\ UNCHANGED <<point, stage, k, client, resident>>
    BY <1>9 DEF allVars, vars, benchVars, poolVars
  <2>2. UNCHANGED <<arm, N>>
    BY <2>1 DEF arm, N
  <2>3. NextUp' = NextUp
    BY <2>1, <2>2 DEF NextUp
  <2>4. \A n : (Explained(n)' <=> Explained(n)) /\ (TouchedByLoad(n)' <=> TouchedByLoad(n))
    BY <2>1 DEF Explained, TouchedByLoad, Interrupted
  <2>5. StillSuspended' <=> StillSuspended
    BY <2>1, <2>2, <2>3, <2>4, StillKept DEF StillSuspended, Passed
  <2>6. ProbeHits' <=> ProbeHits
    BY <2>1, <2>2, <2>4, StillKept DEF ProbeHits
  <2>7. Undisturbed' <=> Undisturbed
    BY <2>1 DEF Undisturbed
  <2> QED
    BY <2>1, <2>2, <2>4, <2>5, <2>6, <2>7, StillKept DEF ContextsSound
<1> QED
  BY <1>2, <1>3, <1>4, <1>5, <1>6, <1>7, <1>8, <1>9 DEF BenchNext, Engine

\* Every answered probe of a pinned point that nothing disturbs is a hit, or its
\* context was touched.
LEMMA NextTtfts ==
  ASSUME BenchInv, ContextsSound, TtftsSound, [BenchNext]_allVars
  PROVE  TtftsSound'
<1>1. CASE NextPoint /\ point < Len(Points)
  <2>1. probe_ttfts' = << >>
    BY <1>1 DEF NextPoint
  <2> QED
    BY <2>1 DEF TtftsSound
<1>2. CASE NextPoint /\ ~(point < Len(Points))
  <2>1. stage' = "done" /\ UNCHANGED <<vars, point, client, probe_ttfts, disturbed>>
    BY <1>2 DEF NextPoint, given
  <2>2. UNCHANGED arm /\ (Undisturbed' <=> Undisturbed)
    BY <2>1 DEF arm, Undisturbed, vars, poolVars
  <2>3. \A n : Explained(n)' <=> Explained(n)
    BY <2>1 DEF Explained, TouchedByLoad, Interrupted
  <2> QED
    BY <2>1, <2>2, <2>3 DEF TtftsSound
<1>3. CASE ProbeAnswered
  <2>1. /\ stage = "probe" /\ stage' = stage /\ k <= N /\ client[Probes[k]] = "open"
        /\ Probes[k] \in finished
        /\ \/ probe_ttfts' = Append(probe_ttfts,
                               [context |-> k, hit |-> Probes[k] \in resident])
           \/ UNCHANGED probe_ttfts
    BY <1>3 DEF ProbeAnswered, Answered
  <2>2. ~NextPoint /\ ~Reset
    BY <2>1 DEF NextPoint, Reset, Goto, BenchInv, Firm, BenchType
  <2>3. UNCHANGED arm /\ \A n : Explained(n) => Explained(n)'
    BY <2>2, StepFacts
  <2>4. k \in Nat
    BY PointFacts DEF BenchInv, Firm
  <2> DEFINE entry == [context |-> k, hit |-> Probes[k] \in resident]
  <2>5. entry \in [context : Nat, hit : BOOLEAN] /\ entry.context = k
        /\ entry.hit = (Probes[k] \in resident)
    BY <2>4
  <2>6. arm' = "pinned" /\ Undisturbed' => entry.hit \/ Explained(entry.context)
    <3>1. arm' = "pinned" /\ Undisturbed' => ProbeHits
      BY <2>1, <2>2, <2>3, StepFacts DEF ContextsSound
    <3> QED
      BY <2>1, <2>5, <3>1 DEF ProbeHits
  <2>7. arm' = "pinned" /\ Undisturbed' =>
          \A j \in DOMAIN probe_ttfts : probe_ttfts[j].hit \/ Explained(probe_ttfts[j].context)
    BY <2>2, <2>3, StepFacts DEF TtftsSound
  <2> HIDE DEF entry
  <2>8. CASE probe_ttfts' = Append(probe_ttfts, entry)
    <3> DEFINE s == probe_ttfts
               T == [context : Nat, hit : BOOLEAN]
    <3>1. s \in Seq(T) /\ entry \in T
      BY <2>5 DEF TtftsSound
    <3> HIDE DEF s, T
    <3>2. /\ Append(s, entry) \in Seq(T)
          /\ \A j \in DOMAIN Append(s, entry) :
               \/ j \in DOMAIN s /\ Append(s, entry)[j] = s[j]
               \/ Append(s, entry)[j] = entry
      BY <3>1
    <3>3. ASSUME arm' = "pinned", Undisturbed'
          PROVE  (\A j \in DOMAIN probe_ttfts :
                    probe_ttfts[j].hit \/ Explained(probe_ttfts[j].context))'
      <4> SUFFICES ASSUME NEW j \in DOMAIN probe_ttfts', ~probe_ttfts'[j].hit,
                          NEW n, n = probe_ttfts'[j].context
                   PROVE  Explained(n)'
        BY DEF Explained, TouchedByLoad, Interrupted
      <4>1. \/ j \in DOMAIN probe_ttfts /\ probe_ttfts'[j] = probe_ttfts[j]
            \/ probe_ttfts'[j] = entry
        BY <2>8, <3>2 DEF s
      <4>2. Explained(n)
        BY <2>6, <2>7, <3>3, <4>1
      <4> QED
        BY <2>3, <4>2
    <3> QED
      BY <2>1, <2>8, <3>2, <3>3 DEF TtftsSound, s, T
  <2>9. CASE UNCHANGED probe_ttfts
    BY <2>1, <2>3, <2>7, <2>9 DEF TtftsSound
  <2> QED
    BY <2>1, <2>8, <2>9 DEF entry
<1>4. CASE ~NextPoint /\ ~ProbeAnswered
  <2>1. UNCHANGED arm /\ \A n : Explained(n) => Explained(n)'
    BY <1>4, StepFacts
  <2>2. /\ probe_ttfts' = probe_ttfts
        /\ stage \in {"probe", "done", "crashed"} => stage' \in {"probe", "done", "crashed"}
    <3>1. CASE RunPoint
      BY <1>4, <3>1 DEF RunPoint, CtrlOff, Reset, Arm, PostSend, SendAnswered, AllSent,
         Disarm, StartTask, LoadEnds, Gather, PostProbe, RowFails, Post, Goto
    <3>2. CASE Engine
      BY <3>2 DEF Engine, EngineAdmit, EngineFinish, EnginePreempt, EngineLetsGo, benchVars
    <3>3. CASE ResetFails \/ SendFails \/ ProbeFails
      BY <3>3 DEF ResetFails, SendFails, ProbeFails, Goto
    <3>4. ASSUME NEW q \in Load, EngineGrow(q) \/ TaskAnswered(q) \/ TaskFails(q)
          PROVE  probe_ttfts' = probe_ttfts /\ stage' = stage
      BY <3>4 DEF EngineGrow, TaskAnswered, TaskFails, one_request, benchVars
    <3>5. CASE UNCHANGED allVars
      BY <3>5 DEF allVars, benchVars
    <3> QED
      BY <3>1, <3>2, <3>3, <3>4, <3>5 DEF BenchNext
  <2>3. Reset => probe_ttfts = << >>
    BY DEF Reset, Goto, TtftsSound
  <2>4. arm' = "pinned" /\ Undisturbed' =>
          \A j \in DOMAIN probe_ttfts :
            probe_ttfts[j].hit \/ Explained(probe_ttfts[j].context)
    <3>1. CASE Reset
      BY <2>3, <3>1
    <3>2. CASE ~Reset
      BY <2>1, <3>2, StepFacts DEF TtftsSound
    <3> QED
      BY <3>1, <3>2
  <2> QED
    BY <2>1, <2>2, <2>4 DEF TtftsSound
<1> QED
  BY <1>1, <1>2, <1>3, <1>4

\* "With the patch this should be ~100 %": every answered probe of a pinned point that
\* nothing disturbs is a hit, for every load and every number of contexts and points,
\* unless a touch has unpinned a block of its context: by the load, or by an earlier
\* probe, with one that does not start alike in between.
THEOREM MissesExplainedCorrect == BenchSpec => []MissesExplained
<1>1. BenchInit => ResidentSound
  BY DEF BenchInit, ResidentSound, ContextsSound, TtftsSound
<1>2. BenchInv /\ ResidentSound /\ [BenchNext]_allVars => ResidentSound'
  BY NextContexts, NextTtfts DEF ResidentSound
<1>3. ResidentSound => MissesExplained
  BY DEF ResidentSound, TtftsSound, MissesExplained, Explained
<1> QED
  BY <1>1, <1>2, <1>3, BenchAlways, PTL DEF BenchSpec
=============================================================================
