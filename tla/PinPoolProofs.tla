---------------------------- MODULE PinPoolProofs ----------------------------
(***************************************************************************)
(* Proofs about PinPool for every set of blocks and requests.              *)
(*                                                                         *)
(* Owned is the part of the invariant that holds even when an entry of the *)
(* dict is overwritten, as a preempted request does that comes back under  *)
(* its identifier and is pinned again.  Tracked is what holds until then:  *)
(* every pinned block is listed in the dict that ss_unpin_all walks, so    *)
(* that no block is lost.                                                  *)
(***************************************************************************)
EXTENDS PinPool, FiniteSetTheorems, TLAPS

Owned == TypeOK /\ RefCntCountsHolders /\ OneOwner /\ PinnedHasContent

Tracked ==
  /\ repinned = {} =>
       pinned_block_ids \subseteq UNION {pinned_by_request[r] : r \in Requests}
  /\ NoBlockLost

-----------------------------------------------------------------------------
(* Reference counts as cardinalities.                                      *)

\* The holders of a block are finitely many requests.
LEMMA HoldersFinite ==
  ASSUME NEW b
  PROVE  IsFiniteSet(Holders(b))
BY PoolAssumption, FS_Subset DEF Holders

\* A block is idle exactly when no request holds it.
LEMMA IdleMeansUnheld ==
  ASSUME RefCntCountsHolders, NEW b \in Blocks
  PROVE  Idle(b) <=> \A r \in Requests : b \notin req_to_blocks[r]
<1>1. Cardinality(Holders(b)) = 0 <=> Holders(b) = {}
  BY HoldersFinite, FS_EmptySet
<1> QED
  BY <1>1 DEF RefCntCountsHolders, Idle, Holders

\* The block a request holds has a user.
LEMMA HeldIsUsed ==
  ASSUME TypeOK, RefCntCountsHolders, NEW r \in Requests, NEW b \in req_to_blocks[r]
  PROVE  b \in Blocks /\ ref_cnt[b] \in Nat /\ ref_cnt[b] >= 1
<1>1. b \in Blocks /\ ref_cnt[b] \in Nat
  BY DEF TypeOK
<1>2. ~Idle(b)
  BY <1>1, IdleMeansUnheld
<1> QED
  BY <1>1, <1>2 DEF Idle

-----------------------------------------------------------------------------
(* Ownership is kept by every step.                                        *)

\* The pool starts with every block queued and nothing held.
LEMMA InitOwned == Init => Owned /\ Tracked
<1> SUFFICES ASSUME Init PROVE Owned /\ Tracked
  OBVIOUS
<1>1. TypeOK
  BY PoolAssumption DEF Init, TypeOK, Controls
<1>2. RefCntCountsHolders
  <2> SUFFICES ASSUME NEW b \in Blocks PROVE ref_cnt[b] = Cardinality(Holders(b))
    BY DEF RefCntCountsHolders
  <2>1. Holders(b) = {}
    BY DEF Init, Holders
  <2> QED
    BY <2>1, FS_EmptySet DEF Init
<1>3. OneOwner /\ PinnedHasContent
  BY DEF Init, OneOwner, PinnedHasContent, Idle
<1>4. Tracked
  BY DEF Init, Tracked, NoBlockLost, Idle
<1> QED
  BY <1>1, <1>2, <1>3, <1>4 DEF Owned

\* An allocation counts its request once on every block it gives it: a hit
\* belongs to a request that held nothing, a new block was held by nobody.
LEMMA AllocateCounts ==
  ASSUME Owned, NEW r \in Requests, NEW hit, NEW new, NEW full,
         Allocate(r, hit, new, full)
  PROVE  RefCntCountsHolders'
<1> SUFFICES ASSUME NEW b \in Blocks PROVE ref_cnt'[b] = Cardinality(Holders(b)')
  BY DEF RefCntCountsHolders
<1>1. ref_cnt[b] = Cardinality(Holders(b))
  BY DEF Owned, RefCntCountsHolders
<1>2. CASE b \in hit \cup new
  <2>1. r \notin Holders(b)
    <3>1. CASE b \in hit
      BY <3>1 DEF Allocate, WithUser, Holders
    <3>2. CASE b \in new
      <4>1. Idle(b)
        BY <3>2 DEF Allocate, WithUser, Owned, OneOwner
      <4> QED
        BY <4>1, IdleMeansUnheld DEF Owned, Holders
    <3> QED
      BY <1>2, <3>1, <3>2
  <2>2. Holders(b)' = Holders(b) \cup {r}
    BY <1>2 DEF Allocate, WithUser, Holders, Owned, TypeOK
  <2>3. Cardinality(Holders(b) \cup {r}) = Cardinality(Holders(b)) + 1
    BY <2>1, HoldersFinite, FS_AddElement
  <2>4. ref_cnt'[b] = ref_cnt[b] + 1
    BY <1>2 DEF Allocate, WithUser
  <2> QED
    BY <1>1, <2>2, <2>3, <2>4
<1>3. CASE b \notin hit \cup new
  <2>1. Holders(b)' = Holders(b)
    BY <1>3 DEF Allocate, WithUser, Holders, Owned, TypeOK
  <2>2. ref_cnt'[b] = ref_cnt[b]
    BY <1>3 DEF Allocate, WithUser
  <2> QED
    BY <1>1, <2>1, <2>2
<1> QED
  BY <1>2, <1>3

\* A release takes its request off every block it held, pinned or queued.
LEMMA ReleaseCounts ==
  ASSUME Owned, NEW r \in Requests, Release(r)
  PROVE  RefCntCountsHolders'
<1> SUFFICES ASSUME NEW b \in Blocks PROVE ref_cnt'[b] = Cardinality(Holders(b)')
  BY DEF RefCntCountsHolders
<1>1. ref_cnt[b] = Cardinality(Holders(b))
  BY DEF Owned, RefCntCountsHolders
<1>2. CASE b \in req_to_blocks[r]
  <2>1. r \in Holders(b) /\ Holders(b)' = Holders(b) \ {r}
    BY <1>2 DEF Release, WithoutUser, Holders, Owned, TypeOK
  <2>2. Cardinality(Holders(b) \ {r}) = Cardinality(Holders(b)) - 1
    BY <2>1, HoldersFinite, FS_RemoveElement
  <2>3. ref_cnt'[b] = ref_cnt[b] - 1
    BY <1>2 DEF Release, WithoutUser
  <2> QED
    BY <1>1, <2>1, <2>2, <2>3
<1>3. CASE b \notin req_to_blocks[r]
  <2>1. Holders(b)' = Holders(b)
    BY <1>3 DEF Release, WithoutUser, Holders, Owned, TypeOK
  <2>2. ref_cnt'[b] = ref_cnt[b]
    BY <1>3 DEF Release, WithoutUser
  <2> QED
    BY <1>1, <2>1, <2>2
<1> QED
  BY <1>2, <1>3

\* An allocation leaves every block with one owner and pins with their content.
LEMMA AllocateOwned ==
  ASSUME Owned, NEW r \in Requests, NEW hit, NEW new, NEW full,
         Allocate(r, hit, new, full)
  PROVE  Owned'
<1>1. hit \subseteq Blocks /\ new \subseteq Blocks /\ full \subseteq Blocks
  BY DEF Allocate, WithUser, Owned, TypeOK
<1>2. TypeOK'
  BY <1>1 DEF Allocate, WithUser, Touch, Owned, TypeOK
<1>3. OneOwner'
  <2>1. free_block_queue' \cap pinned_block_ids' = {}
    BY DEF Allocate, WithUser, Touch, Owned, OneOwner
  <2>2. ASSUME NEW b \in free_block_queue' \cup pinned_block_ids' PROVE Idle(b)'
    <3>1. b \in Blocks /\ Idle(b) /\ b \notin new
      BY <2>2 DEF Allocate, WithUser, Touch, Owned, OneOwner, TypeOK
    <3>2. b \notin hit
      BY <3>1, <2>2 DEF Allocate, WithUser, Touch
    <3> QED
      BY <3>1, <3>2 DEF Allocate, WithUser, Idle
  <2> QED
    BY <2>1, <2>2 DEF OneOwner
<1>4. PinnedHasContent'
  BY DEF Allocate, WithUser, Touch, Owned, OneOwner, PinnedHasContent
<1> QED
  BY <1>2, <1>3, <1>4, AllocateCounts DEF Owned

\* So does a release, on either branch.
LEMMA ReleaseOwned ==
  ASSUME Owned, NEW r \in Requests, Release(r), finished' \subseteq Requests
  PROVE  Owned'
<1>1. \A b \in LastUsedBy(r) : b \in Blocks /\ ~Idle(b) /\ Idle(b)'
  BY HeldIsUsed DEF LastUsedBy, Release, WithoutUser, Owned, Idle
<1>2. \A b \in Blocks : Idle(b) => Idle(b)'
  BY HeldIsUsed DEF Release, WithoutUser, Owned, Idle
<1>3. ref_cnt' \in [Blocks -> Nat]
  <2>1. \A b \in Blocks : b \in req_to_blocks[r] => ref_cnt[b] - 1 \in Nat
    BY HeldIsUsed DEF Owned
  <2> QED
    BY <2>1 DEF Release, WithoutUser, Owned, TypeOK
<1>4. CASE ss_should_pin /\ ss_pin_request(r)
  <2>1. TypeOK'
    BY <1>3, <1>4 DEF Release, WithoutUser, ss_pin_request, Pin, LastUsedBy, Owned, TypeOK
  <2>2. OneOwner'
    BY <1>1, <1>2, <1>4 DEF ss_pin_request, Pin, Owned, OneOwner, TypeOK
  <2>3. PinnedHasContent'
    BY <1>4 DEF Release, WithoutUser, ss_pin_request, Pin, Owned, PinnedHasContent
  <2> QED
    BY <2>1, <2>2, <2>3, ReleaseCounts DEF Owned
<1>5. CASE free_blocks(r)
  <2>1. TypeOK'
    BY <1>3, <1>5 DEF Release, WithoutUser, free_blocks, LastUsedBy, Owned, TypeOK
  <2>2. OneOwner'
    BY <1>1, <1>2, <1>5 DEF free_blocks, Owned, OneOwner, TypeOK
  <2>3. PinnedHasContent'
    BY <1>5 DEF Release, WithoutUser, free_blocks, Owned, PinnedHasContent
  <2> QED
    BY <2>1, <2>2, <2>3, ReleaseCounts DEF Owned
<1> QED
  BY <1>4, <1>5 DEF Release, WithoutUser

\* And a reset, whether it succeeds or is refused after unpinning.
LEMMA ResetOwned ==
  ASSUME Owned, ResetPrefixCache
  PROVE  Owned'
<1>1. TypeOK'
  BY DEF ResetPrefixCache, ss_unpin_all, Live, Owned, TypeOK
<1>2. RefCntCountsHolders'
  BY DEF ResetPrefixCache, Owned, RefCntCountsHolders, Holders
<1>3. OneOwner' /\ PinnedHasContent'
  BY DEF ResetPrefixCache, ss_unpin_all, Live, Owned, OneOwner, PinnedHasContent,
         Idle
<1> QED
  BY <1>1, <1>2, <1>3 DEF Owned

\* Ownership is inductive, overwritten entries or not.
LEMMA NextOwned == Owned /\ [Next]_vars => Owned'
<1> SUFFICES ASSUME Owned, [Next]_vars PROVE Owned'
  OBVIOUS
<1>1. ASSUME NEW r \in Requests, NEW hit, NEW new, NEW full,
             Allocate(r, hit, new, full)
      PROVE  Owned'
  BY <1>1, AllocateOwned
<1>2. ASSUME NEW r \in Requests, Finish(r) PROVE Owned'
  BY <1>2, ReleaseOwned DEF Finish, Owned, TypeOK
<1>3. ASSUME NEW r \in Requests, Preempt(r) PROVE Owned'
  BY <1>3, ReleaseOwned DEF Preempt, Owned, TypeOK
<1>4. ASSUME NEW c \in Controls, SetControl(c) PROVE Owned'
  BY <1>4 DEF SetControl, poolVars, Owned, TypeOK, RefCntCountsHolders, Holders,
              OneOwner, PinnedHasContent, Idle
<1>5. CASE UNCHANGED vars
  BY <1>5 DEF vars, poolVars, Owned, TypeOK, RefCntCountsHolders, Holders,
              OneOwner, PinnedHasContent, Idle
<1> QED
  BY <1>1, <1>2, <1>3, <1>4, <1>5, ResetOwned DEF Next

-----------------------------------------------------------------------------
(* Until an entry of the dict is overwritten nothing is lost.              *)

\* An allocation takes the hits it unpins into use.
LEMMA AllocateTracked ==
  ASSUME Owned, Tracked, NEW r \in Requests, NEW hit, NEW new, NEW full,
         Allocate(r, hit, new, full), repinned' = {}
  PROVE  Tracked'
<1>1. repinned = {}
  BY DEF Allocate, WithUser
<1>2. pinned_block_ids' \subseteq UNION {pinned_by_request'[q] : q \in Requests}
  BY <1>1 DEF Allocate, WithUser, Touch, Tracked
<1>3. ASSUME NEW b \in Blocks, Idle(b)'
      PROVE  b \in free_block_queue' \cup pinned_block_ids'
  <2>1. b \notin hit \cup new /\ Idle(b)
    BY <1>3 DEF Allocate, WithUser, Idle, Owned, TypeOK
  <2>2. b \in free_block_queue \cup pinned_block_ids
    BY <1>1, <2>1 DEF Tracked, NoBlockLost
  <2> QED
    BY <2>1, <2>2 DEF Allocate, WithUser, Touch
<1> QED
  BY <1>2, <1>3 DEF Tracked, NoBlockLost

\* A release queues or lists every block it leaves without a user; only one
\* that writes over an entry may forget what the entry listed.
LEMMA ReleaseTracked ==
  ASSUME Owned, Tracked, NEW r \in Requests, Release(r), repinned' = {}
  PROVE  Tracked'
<1>1. \A b \in Blocks : Idle(b)' => Idle(b) \/ b \in LastUsedBy(r)
  BY DEF Release, WithoutUser, LastUsedBy, Idle, Owned, TypeOK
<1>2. CASE ss_should_pin /\ ss_pin_request(r)
  <2> DEFINE kept == LastUsedBy(r) \cap hashed
  <2>1. repinned = {} /\ (kept # {} => pinned_by_request[r] = {})
    BY <1>2 DEF ss_pin_request, Pin
  <2>2. NoBlockLost'
    BY <1>1, <1>2, <2>1 DEF ss_pin_request, Pin, NoBlockLost, Tracked
  <2>3. pinned_block_ids' \subseteq UNION {pinned_by_request'[q] : q \in Requests}
    <3>1. CASE kept = {}
      BY <1>2, <2>1, <3>1 DEF ss_pin_request, Pin, Tracked
    <3>2. CASE kept # {}
      <4>1. /\ pinned_by_request'[r] = kept
            /\ \A q \in Requests \ {r} : pinned_by_request'[q] = pinned_by_request[q]
        BY <1>2, <3>2 DEF ss_pin_request, Pin, Owned, TypeOK
      <4>2. pinned_block_ids' = pinned_block_ids \cup kept
        BY <1>2 DEF ss_pin_request, Pin
      <4> QED
        BY <2>1, <3>2, <4>1, <4>2 DEF Tracked
    <3> QED
      BY <3>1, <3>2
  <2> QED
    BY <2>2, <2>3 DEF Tracked
<1>3. CASE free_blocks(r)
  <2>1. NoBlockLost'
    BY <1>1, <1>3 DEF free_blocks, NoBlockLost, Tracked
  <2> QED
    BY <1>3, <2>1 DEF free_blocks, Tracked
<1> QED
  BY <1>2, <1>3 DEF Release, WithoutUser

\* A reset walks the dict, and so queues every idle block that was pinned.
LEMMA ResetTracked ==
  ASSUME Owned, Tracked, ResetPrefixCache, repinned' = {}
  PROVE  Tracked'
<1>1. repinned = {}
  BY DEF ResetPrefixCache
<1>2. \A b \in pinned_block_ids : b \in Live
  BY <1>1 DEF Live, Tracked, Owned, OneOwner
<1>3. NoBlockLost'
  BY <1>1, <1>2 DEF ResetPrefixCache, ss_unpin_all, Tracked, NoBlockLost, Idle
<1> QED
  BY <1>3 DEF ResetPrefixCache, ss_unpin_all, Tracked

\* Tracked is inductive.
LEMMA NextTracked == Owned /\ Tracked /\ [Next]_vars => Tracked'
<1> SUFFICES ASSUME Owned, Tracked, [Next]_vars, repinned' = {} PROVE Tracked'
  BY DEF Tracked, NoBlockLost
<1>1. ASSUME NEW r \in Requests, NEW hit, NEW new, NEW full,
             Allocate(r, hit, new, full)
      PROVE  Tracked'
  BY <1>1, AllocateTracked
<1>2. ASSUME NEW r \in Requests, Release(r) PROVE Tracked'
  BY <1>2, ReleaseTracked
<1>3. ASSUME NEW c \in Controls, SetControl(c) PROVE Tracked'
  BY <1>3 DEF SetControl, poolVars, Tracked, NoBlockLost, Idle
<1>4. CASE UNCHANGED vars
  BY <1>4 DEF vars, poolVars, Tracked, NoBlockLost, Idle
<1> QED
  BY <1>1, <1>2, <1>3, <1>4, ResetTracked DEF Next, Preempt, Finish

-----------------------------------------------------------------------------
(* The theorems.                                                           *)

\* The invariant behind the theorems that need no more than ownership.
LEMMA OwnedAlways == Spec => []Owned
BY InitOwned, NextOwned, PTL DEF Spec

\* The invariant behind the theorems about blocks that could be lost.
LEMMA TrackedAlways == Spec => [](Owned /\ Tracked)
<1>1. Owned /\ Tracked /\ [Next]_vars => (Owned /\ Tracked)'
  BY NextOwned, NextTracked
<1> QED
  BY <1>1, InitOwned, PTL DEF Spec

\* Every variable of the patched pool keeps its type, for every set of blocks
\* and requests and with preemption or without.
THEOREM TypeCorrect == Spec => []TypeOK
BY OwnedAlways, PTL DEF Owned

\* ref_cnt is the number of holders, however prefixes are shared and whichever
\* of free_blocks and ss_pin_request takes a block back.
THEOREM RefCntCorrect == Spec => []RefCntCountsHolders
BY OwnedAlways, PTL DEF Owned

\* No block is both queued and pinned, and neither while it is in use: the
\* queue can be corrupted by no order of touches, allocations, pins and resets.
THEOREM OneOwnerCorrect == Spec => []OneOwner
BY OwnedAlways, PTL DEF Owned

\* A pinned block always caches reusable content.
THEOREM PinnedContentCorrect == Spec => []PinnedHasContent
BY OwnedAlways, PTL DEF Owned

\* The only way to lose a block is to write over an entry of the dict: until one
\* is, every block is queued, pinned or in use.
THEOREM NothingLost == Spec => []NoBlockLost
BY TrackedAlways, PTL DEF Tracked

\* Victim exclusion: no allocation takes the content of a pinned block.
THEOREM VictimExclusionCorrect == Spec => VictimExclusion
<1>1. ASSUME Owned, Owned', [Next]_vars, NEW b \in pinned_block_ids
      PROVE  b \in hashed' \/ free_block_queue' = Blocks
  <2>1. b \in hashed /\ b \notin free_block_queue
    BY <1>1 DEF Owned, PinnedHasContent, OneOwner
  <2>2. ASSUME NEW r \in Requests, NEW hit, NEW new, NEW full,
               Allocate(r, hit, new, full)
        PROVE  b \in hashed'
    BY <2>1, <2>2 DEF Allocate, WithUser
  <2>3. CASE ResetPrefixCache
    <3>1. CASE NumUsed(free_block_queue') = 1
      <4>1. free_block_queue' \subseteq Blocks /\ IsFiniteSet(Blocks)
        BY <1>1, PoolAssumption DEF Owned, TypeOK
      <4>2. Cardinality(free_block_queue') = Cardinality(Blocks)
        <5>1. /\ Cardinality(Blocks) \in Nat
              /\ Cardinality(free_block_queue') \in Nat
          BY <4>1, FS_Subset, FS_CardinalityType
        <5> QED
          BY <3>1, <5>1 DEF NumUsed, num_gpu_blocks
      <4> QED
        BY <4>1, <4>2, FS_Subset
    <3>2. CASE NumUsed(free_block_queue') # 1
      BY <2>1, <2>3, <3>2 DEF ResetPrefixCache
    <3> QED
      BY <3>1, <3>2
  <2>4. CASE UNCHANGED hashed
    BY <2>1, <2>4
  <2> QED
    BY <1>1, <2>2, <2>3, <2>4
    DEF Next, Finish, Preempt, Release, WithoutUser, SetControl, vars, poolVars
<1>2. Owned /\ Owned' /\ [Next]_vars
        => \A b \in pinned_block_ids : b \in hashed' \/ free_block_queue' = Blocks
  BY <1>1
<1> QED
  BY <1>2, OwnedAlways, PTL DEF Spec, VictimExclusion

\* After a reset at rest the whole pool is queued and nothing is cached,
\* whatever was pinned, touched and pinned again before.
THEOREM ResetRestores == Spec => ResetRestoresPool
<1>1. ASSUME Owned, Owned', Tracked', ResetPrefixCache, repinned = {},
             \A r \in Requests : req_to_blocks[r] = {}
      PROVE  free_block_queue' = Blocks /\ hashed' = {}
  <2>1. \A b \in Blocks : Idle(b)'
    BY <1>1, IdleMeansUnheld DEF ResetPrefixCache, Owned, Idle
  <2>2. free_block_queue' = Blocks
    BY <1>1, <2>1 DEF Tracked, NoBlockLost, ResetPrefixCache, ss_unpin_all, Owned,
                      TypeOK
  <2>3. NumUsed(free_block_queue') = 1
    BY <2>2, PoolAssumption, FS_CardinalityType DEF NumUsed, num_gpu_blocks
  <2> QED
    BY <1>1, <2>2, <2>3 DEF ResetPrefixCache
<1> QED
  BY <1>1, TrackedAlways, PTL DEF Spec, ResetRestoresPool

\* A block that leaves the pinned set is in use or queued, and never both: the
\* touch and the reset hand it over instead of dropping or doubling it.
THEOREM UnpinHandsOver == Spec => UnpinGoesSomewhere
<1>1. ASSUME Owned, Owned', Tracked', [Next]_vars, repinned = {},
             NEW b \in pinned_block_ids \ pinned_block_ids'
      PROVE  (b \in free_block_queue') # (ref_cnt'[b] > 0)
  <2>1. b \in Blocks /\ ref_cnt'[b] \in Nat
    BY <1>1 DEF Owned, TypeOK
  <2>2. b \in free_block_queue' => Idle(b)'
    BY <1>1 DEF Owned, OneOwner
  <2>3. Idle(b)' => b \in free_block_queue'
    <3>1. repinned' = {}
      BY <1>1 DEF Next, Allocate, Finish, Preempt, Release, ss_pin_request, Pin,
                  free_blocks, ResetPrefixCache, SetControl, vars, poolVars
    <3> QED
      BY <1>1, <2>1, <3>1 DEF Tracked, NoBlockLost
  <2>4. Idle(b)' <=> ~(ref_cnt'[b] > 0)
    BY <2>1 DEF Idle
  <2> QED
    BY <2>2, <2>3, <2>4
<1>2. Owned /\ Owned' /\ Tracked' /\ [Next]_vars /\ repinned = {}
        => \A b \in pinned_block_ids \ pinned_block_ids' :
              (b \in free_block_queue') # (ref_cnt'[b] > 0)
  BY <1>1
<1> QED
  BY <1>2, TrackedAlways, PTL DEF Spec, UnpinGoesSomewhere

\* The dict never holds more requests than the largest n ever asked for: the
\* insertion follows the test of its length without a step in between.
THEOREM PinsBoundedCorrect == Spec => []PinsBounded
<1>1. Init => PinsBounded
  <2> SUFFICES ASSUME Init PROVE PinsBounded
    OBVIOUS
  <2>1. PinnedRequests = {}
    BY DEF Init, PinnedRequests
  <2> QED
    BY <2>1, PoolAssumption, FS_EmptySet DEF PinsBounded
<1>2. ASSUME TypeOK, PinsBounded, [Next]_vars PROVE PinsBounded'
  <2>0. IsFiniteSet(PinnedRequests) /\ Cardinality(PinnedRequests) \in Nat
    BY PoolAssumption, FS_Subset, FS_CardinalityType DEF PinnedRequests
  <2>1. CASE UNCHANGED pinned_by_request
    BY <1>2, <2>1 DEF PinsBounded, PinnedRequests
  <2>2. CASE ResetPrefixCache
    <3>1. PinnedRequests' = {}
      BY <2>2 DEF ResetPrefixCache, ss_unpin_all, PinnedRequests
    <3> QED
      BY <3>1, PoolAssumption, FS_EmptySet DEF PinsBounded
  <2>3. ASSUME NEW r \in Requests, ss_should_pin, ss_pin_request(r)
        PROVE  PinsBounded'
    <3>1. PinnedRequests' \subseteq PinnedRequests \cup {r}
      BY <1>2, <2>3 DEF ss_pin_request, Pin, PinnedRequests, TypeOK
    <3>2. /\ IsFiniteSet(PinnedRequests \cup {r})
          /\ Cardinality(PinnedRequests \cup {r}) <= Cardinality(PinnedRequests) + 1
      BY <2>0, FS_AddElement
    <3>3. /\ Cardinality(PinnedRequests') <= Cardinality(PinnedRequests \cup {r})
          /\ Cardinality(PinnedRequests') \in Nat
          /\ Cardinality(PinnedRequests \cup {r}) \in Nat
      BY <3>1, <3>2, FS_Subset, FS_CardinalityType
    <3>4. ctrl.n \in Nat /\ ctrl.n <= MaxPins /\ Cardinality(PinnedRequests) < ctrl.n
      BY <1>2, <2>3, PoolAssumption DEF ss_should_pin, TypeOK, Controls
    <3> QED
      BY <2>0, <3>2, <3>3, <3>4, PoolAssumption DEF PinsBounded
  <2> QED
    BY <1>2, <2>1, <2>2, <2>3
    DEF Next, Allocate, Finish, Preempt, Release, free_blocks, SetControl, vars,
        poolVars
<1> QED
  BY <1>1, <1>2, TypeCorrect, PTL DEF Spec
=============================================================================
