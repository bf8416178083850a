------------------------------- MODULE PinPool -------------------------------
(***************************************************************************)
(* The vLLM BlockPool with the victim-exclusion patch of                   *)
(* harness/patches/blockpool_pin.diff, at the level of sets.               *)
(*                                                                         *)
(* A request that finishes while the control file says first_n does not    *)
(* return its blocks to the free queue: the cached ones are withheld       *)
(* (pinned) until a later request touches them or the prefix cache is      *)
(* reset.  This module keeps who owns every block -- the free queue, the   *)
(* pinned set, or the requests that hold it -- and leaves the order of the *)
(* queue to module BlockPool, which implements this one.  Since the choice *)
(* of the victims is then free, what holds here holds for every eviction   *)
(* order.                                                                  *)
(*                                                                         *)
(* The engine core runs one scheduler thread, so a call into the pool is   *)
(* one step.  ctrl is the value _ss_control() returns; module PinControl   *)
(* says how the file protocol produces it.                                 *)
(*                                                                         *)
(* An operator introduced as a variant is no part of the specification: it *)
(* is a mistake one could make in the definition that follows it, kept to  *)
(* show that a property notices.                                           *)
(***************************************************************************)
EXTENDS Integers, FiniteSets

CONSTANTS
  Blocks,      \* the usable KV blocks: the null block is not one of them
  Requests,    \* request identifiers
  MaxPins,     \* bound on the n the control file asks for
  Preemptible  \* requests that may be freed and come back under their identifier

ASSUME PoolAssumption ==
  /\ IsFiniteSet(Blocks)
  /\ IsFiniteSet(Requests)
  /\ MaxPins \in Nat
  /\ Preemptible \subseteq Requests

VARIABLES
  free_block_queue,    \* blocks an allocation may take, whatever they cache
  ref_cnt,             \* block -> number of requests that use it
  hashed,              \* blocks whose block_hash is not None: reusable content
  req_to_blocks,       \* request -> the blocks it holds
  pinned_block_ids,    \* blocks withheld from the free queue
  pinned_by_request,   \* request -> the blocks withheld when it was freed
  ctrl,                \* the control in force: its mode and its n
  finished,            \* requests that will not come back
  repinned             \* history: requests whose entry of the dict was overwritten

poolVars == <<free_block_queue, ref_cnt, hashed, req_to_blocks,
              pinned_block_ids, pinned_by_request, repinned>>
vars == <<poolVars, ctrl, finished>>

\* What set_ctrl writes: n is given with first_n only
Controls == {[mode |-> "off", n |-> 0]} \cup [mode : {"first_n"}, n : 0 .. MaxPins]

TypeOK ==
  /\ free_block_queue \subseteq Blocks
  /\ ref_cnt \in [Blocks -> Nat]
  /\ hashed \subseteq Blocks
  /\ req_to_blocks \in [Requests -> SUBSET Blocks]
  /\ pinned_block_ids \subseteq Blocks
  /\ pinned_by_request \in [Requests -> SUBSET Blocks]
  /\ ctrl \in Controls
  /\ finished \subseteq Requests
  /\ repinned \subseteq Requests

Init ==
  /\ free_block_queue = Blocks
  /\ ref_cnt = [b \in Blocks |-> 0]
  /\ hashed = {}
  /\ req_to_blocks = [r \in Requests |-> {}]
  /\ pinned_block_ids = {}
  /\ pinned_by_request = [r \in Requests |-> {}]
  /\ ctrl = [mode |-> "off", n |-> 0]
  /\ finished = {}
  /\ repinned = {}

-----------------------------------------------------------------------------
(* Helpers.                                                                *)

Idle(b) == ref_cnt[b] = 0

Holders(b) == {r \in Requests : b \in req_to_blocks[r]}

\* The keys of the dict pinned_by_request: ss_pin_request never stores an
\* empty list, so the empty set stands for an absent key.
PinnedRequests == {r \in Requests : pinned_by_request[r] # {}}

\* The blocks the last user of which is r.
LastUsedBy(r) == {b \in req_to_blocks[r] : ref_cnt[b] = 1}

\* Variant: n + 1 requests may be pinned
ss_should_pin_one_more ==
  ctrl.mode = "first_n" /\ Cardinality(PinnedRequests) <= ctrl.n

ss_should_pin == ctrl.mode = "first_n" /\ Cardinality(PinnedRequests) < ctrl.n

\* The blocks ss_unpin_all appends to the free queue: the ones of a dict entry
\* that are still pinned and idle.
Live == {b \in UNION {pinned_by_request[r] : r \in Requests} :
            b \in pinned_block_ids /\ Idle(b)}

-----------------------------------------------------------------------------
(* allocate_slots: touch() on the prefix hits, get_new_blocks() for the    *)
(* rest, cache_full_blocks() on the blocks that are complete.  A pinned    *)
(* hit is unpinned, any other idle hit is unlinked from the free queue,    *)
(* and a new block loses the content it cached.  get_new_blocks raises     *)
(* when the queue is too short: such a call changes nothing and is no step *)

\* Variant: a pinned hit stays pinned
TouchKeepsPin(hit) == pinned_block_ids' = pinned_block_ids

Touch(hit) ==
  /\ \A b \in hit : Idle(b) /\ b \notin pinned_block_ids
                       => b \in free_block_queue   \* else remove() raises
  /\ pinned_block_ids' = pinned_block_ids \ {b \in hit : Idle(b)}

\* Variant: a hit gets no user
WithUserOfNew(hit, new) ==
  [b \in Blocks |-> IF b \in new THEN ref_cnt[b] + 1 ELSE ref_cnt[b]]

WithUser(hit, new) ==
  [b \in Blocks |-> IF b \in hit \cup new THEN ref_cnt[b] + 1 ELSE ref_cnt[b]]

Allocate(r, hit, new, full) ==
  /\ r \notin finished
  /\ hit \cup new # {}
  /\ hit # {} => req_to_blocks[r] = {}
  /\ hit \subseteq hashed
  /\ new \subseteq free_block_queue \ hit
  /\ full \subseteq req_to_blocks[r] \cup new
  /\ Touch(hit)
  /\ free_block_queue' = free_block_queue \ (hit \cup new)
  /\ ref_cnt' = WithUser(hit, new)
  /\ hashed' = (hashed \ new) \cup full
  /\ req_to_blocks' = [req_to_blocks EXCEPT ![r] = @ \cup hit \cup new]
  /\ UNCHANGED <<pinned_by_request, ctrl, finished, repinned>>

(* SingleTypeKVCacheManager.free: the request's blocks are popped and each *)
(* loses a user; the blocks left without one are withheld or queued.       *)

\* Variant: the blocks withheld keep the user that leaves
WithoutUserUnlessPinned(r) ==
  [b \in Blocks |-> IF b \in req_to_blocks[r] /\ ~ss_should_pin
                    THEN ref_cnt[b] - 1 ELSE ref_cnt[b]]

WithoutUser(r) ==
  [b \in Blocks |-> IF b \in req_to_blocks[r] THEN ref_cnt[b] - 1 ELSE ref_cnt[b]]

\* What a release does to the pool when it pins kept and queues queued
Pin(r, kept, queued) ==
  /\ free_block_queue' = free_block_queue \cup queued
  /\ pinned_block_ids' = pinned_block_ids \cup kept
  /\ pinned_by_request' = IF kept = {} THEN pinned_by_request
                          ELSE [pinned_by_request EXCEPT ![r] = kept]
  /\ repinned' = IF kept # {} /\ pinned_by_request[r] # {} THEN repinned \cup {r}
                 ELSE repinned

\* Variants: the other blocks are dropped; blocks without content are pinned as
\* well; what is pinned is queued as well
ss_pin_request_drops(r) == Pin(r, LastUsedBy(r) \cap hashed, {})
ss_pin_request_all(r) == Pin(r, LastUsedBy(r), {})
ss_pin_request_queues(r) == Pin(r, LastUsedBy(r) \cap hashed, LastUsedBy(r))

ss_pin_request(r) == Pin(r, LastUsedBy(r) \cap hashed, LastUsedBy(r) \ hashed)

free_blocks(r) ==
  /\ free_block_queue' = free_block_queue \cup LastUsedBy(r)
  /\ UNCHANGED <<pinned_block_ids, pinned_by_request, repinned>>

Release(r) ==
  /\ req_to_blocks[r] # {}
  /\ IF ss_should_pin THEN ss_pin_request(r) ELSE free_blocks(r)
  /\ ref_cnt' = WithoutUser(r)
  /\ req_to_blocks' = [req_to_blocks EXCEPT ![r] = {}]
  /\ UNCHANGED <<hashed, ctrl>>

Finish(r) == Release(r) /\ finished' = finished \cup {r}

\* The scheduler also frees a request it preempts, which is scheduled again
\* later under the same identifier.
Preempt(r) == r \in Preemptible /\ Release(r) /\ UNCHANGED finished

(* reset_prefix_cache: ss_unpin_all comes before the test that may refuse  *)
(* the reset, and a refused reset still leaves everything unpinned.  The   *)
(* null block always counts as used.                                       *)

num_gpu_blocks == Cardinality(Blocks) + 1

NumUsed(free) == num_gpu_blocks - Cardinality(free)

\* Variant: unpins without queueing
ss_unpin_all_forgets ==
  /\ free_block_queue' = free_block_queue
  /\ pinned_block_ids' = {}
  /\ pinned_by_request' = [r \in Requests |-> {}]

ss_unpin_all ==
  /\ free_block_queue' = free_block_queue \cup Live
  /\ pinned_block_ids' = {}
  /\ pinned_by_request' = [r \in Requests |-> {}]

\* Variant: counts the used blocks before it unpins
ResetCountsFirst ==
  /\ ss_unpin_all
  /\ hashed' = IF NumUsed(free_block_queue) = 1 THEN {} ELSE hashed
  /\ UNCHANGED <<ref_cnt, req_to_blocks, ctrl, finished, repinned>>

ResetPrefixCache ==
  /\ ss_unpin_all
  /\ hashed' = IF NumUsed(free_block_queue') = 1 THEN {} ELSE hashed
  /\ UNCHANGED <<ref_cnt, req_to_blocks, ctrl, finished, repinned>>

\* The harness rewrites the control file between two calls of ss_should_pin.
SetControl(c) ==
  /\ ctrl' = c
  /\ UNCHANGED <<poolVars, finished>>

Next ==
  \/ \E r \in Requests, hit \in SUBSET hashed, new \in SUBSET free_block_queue :
        \E full \in SUBSET (req_to_blocks[r] \cup new) : Allocate(r, hit, new, full)
  \/ \E r \in Requests : Finish(r)
  \/ \E r \in Requests : Preempt(r)
  \/ ResetPrefixCache
  \/ \E c \in Controls : SetControl(c)

Spec == Init /\ [][Next]_vars

-----------------------------------------------------------------------------
(* What the patched pool promises.                                         *)

\* ref_cnt counts the holders: the touch of a hit, the allocation of a new
\* block and the release by finish, preemption or pinning stay balanced when
\* several requests share a prefix.  ss_pin_request decrements by hand.
RefCntCountsHolders == \A b \in Blocks : ref_cnt[b] = Cardinality(Holders(b))

\* No block has two owners: the allocator can never hand out a block that is
\* pinned or in use, and a pinned block is used by nobody.  A touch that forgot
\* to unpin, or a release that both queued and withheld, would break it.
OneOwner ==
  /\ free_block_queue \cap pinned_block_ids = {}
  /\ \A b \in free_block_queue \cup pinned_block_ids : Idle(b)

\* P1 and P5 of the probe, at any moment: every block is queued, pinned or in
\* use, so that withholding blocks never loses one -- as long as no preempted
\* request is pinned again over the entry it already has.
NoBlockLost ==
  repinned = {} => \A b \in Blocks :
                     Idle(b) => b \in free_block_queue \cup pinned_block_ids

\* P3: what is pinned keeps its content, through every allocation, refusal and
\* release around it.
PinnedHasContent == pinned_block_ids \subseteq hashed

\* Victim exclusion as a step property (P2, P3): the content of a pinned block
\* is lost only by a reset that found the whole pool free, never to an
\* allocation, however short the free queue is.
VictimExclusion ==
  [][\A b \in pinned_block_ids :
       b \in hashed' \/ free_block_queue' = Blocks]_vars

\* P4: a pinned block leaves the pinned set into use (its touch) or into the
\* queue (the reset), never into nowhere and never into both.
UnpinGoesSomewhere ==
  [][repinned = {} => \A b \in pinned_block_ids \ pinned_block_ids' :
       (b \in free_block_queue') # (ref_cnt'[b] > 0)]_vars

\* P5: once no request holds a block, a reset gives the whole pool back and
\* drops every cached hash, whatever was pinned, touched and pinned again.
ResetRestoresPool ==
  [][ResetPrefixCache /\ repinned = {} /\ (\A r \in Requests : req_to_blocks[r] = {})
       => free_block_queue' = Blocks /\ hashed' = {}]_vars

\* At most n requests are pinned at a time under a constant n: ss_should_pin
\* and the insertion it guards are far apart in the code.
PinsBounded == Cardinality(PinnedRequests) <= MaxPins
=============================================================================
