------------------------------ MODULE BlockPool ------------------------------
(***************************************************************************)
(* The patched BlockPool with its free queue in order and its blocks'      *)
(* contents: which block an allocation takes, which prefix of a prompt is  *)
(* still cached, and what the sequence operations of the patch do to both. *)
(*                                                                         *)
(* A prompt is a sequence of full blocks' contents; a block caches the     *)
(* prefix that ends in it, so that block_hash[b] is a prefix of a prompt   *)
(* and << >> stands for None.  Prompts that start alike share their first  *)
(* blocks, as the gate prompts of one domain share the system prompt.      *)
(*                                                                         *)
(* Module PinPool is what this one implements: see Pool.  Variants are, as *)
(* there, mistakes that a property notices, and no part of Spec.           *)
(***************************************************************************)
EXTENDS Integers, SequencesExt

CONSTANTS
  Blocks,      \* usable KV blocks
  Requests,    \* request identifiers
  PromptOf,    \* request -> the full blocks of its prompt
  Exact,       \* requests whose prompt has no partial last block
  MaxDecode,   \* bound on the blocks a request adds while it decodes
  MaxPins,     \* bound on the n the control file asks for
  Preemptible  \* requests the scheduler may preempt when the queue is empty

ASSUME PromptAssumption ==
  /\ IsFiniteSet(Blocks) /\ IsFiniteSet(Requests)
  /\ DOMAIN PromptOf = Requests
  /\ \A r \in Requests :
       PromptOf[r] \in Seq(ToSet(PromptOf[r])) /\ Len(PromptOf[r]) > 0
  /\ Exact \subseteq Requests /\ Preemptible \subseteq Requests
  /\ MaxDecode \in Nat /\ MaxPins \in Nat

VARIABLES
  free_block_queue,    \* sequence: the head is the next victim
  ref_cnt,
  block_hash,          \* block -> the prefix it caches, << >> for none
  req_to_blocks,       \* request -> its blocks in prompt order
  pinned_block_ids,
  pinned_by_request,   \* the dict, as a sequence of entries in insertion order
  ctrl,
  finished,
  repinned             \* history: requests whose entry of the dict was overwritten

poolVars == <<free_block_queue, ref_cnt, block_hash, req_to_blocks,
              pinned_block_ids, pinned_by_request, repinned>>
vars == <<poolVars, ctrl, finished>>

None == << >>
\* What set_ctrl writes: n is given with first_n only
Controls == {[mode |-> "off", n |-> 0]} \cup [mode : {"first_n"}, n : 0 .. MaxPins]

Init ==
  /\ free_block_queue = SetToSeq(Blocks)
  /\ ref_cnt = [b \in Blocks |-> 0]
  /\ block_hash = [b \in Blocks |-> None]
  /\ req_to_blocks = [r \in Requests |-> << >>]
  /\ pinned_block_ids = {}
  /\ pinned_by_request = << >>
  /\ ctrl = [mode |-> "off", n |-> 0]
  /\ finished = {} /\ repinned = {}

-----------------------------------------------------------------------------
(* Admission: the scheduler looks up the longest cached prefix, touches it *)
(* and takes the other blocks from the head of the queue, all in one step  *)
(* of the engine loop.  The last token of a prompt is always recomputed,   *)
(* so that the last block of an exact prompt never counts as a hit.        *)

Idle(b) == ref_cnt[b] = 0
Cached(key) == {b \in Blocks : block_hash[b] = key}

\* The elements of s that are in S, in order.  A fold, as the provers know
\* nothing of SelectSeq.
Among(s, S) ==
  FoldLeft(LAMBDA kept, b : IF b \in S THEN Append(kept, b) ELSE kept, << >>, s)

HitLimit(r) == IF r \in Exact THEN Len(PromptOf[r]) - 1 ELSE Len(PromptOf[r])
NumBlocks(r) == IF r \in Exact THEN Len(PromptOf[r]) ELSE Len(PromptOf[r]) + 1

HitLength(r) ==
  Max({0} \cup {i \in 1 .. HitLimit(r) :
                  \A j \in 1 .. i : Cached(SubSeq(PromptOf[r], 1, j)) # {}})

\* get_cached_block returns a block for each hash, any if several cache it
ComputedBlocks(r) ==
  {hit \in [1 .. HitLength(r) -> Blocks] :
     \A i \in 1 .. HitLength(r) : block_hash[hit[i]] = SubSeq(PromptOf[r], 1, i)}

\* touch: a pinned hit is unpinned, another idle hit leaves the queue
\* Variant: the hits stay in the queue
AfterTouchKeeps(hit) == free_block_queue

AfterTouch(hit) == Among(free_block_queue, Blocks \ ToSet(hit))

touch(hit) ==
  /\ \A b \in ToSet(hit) : Idle(b) /\ b \notin pinned_block_ids
                              => b \in ToSet(free_block_queue)
  /\ pinned_block_ids' = pinned_block_ids \ {b \in ToSet(hit) : Idle(b)}

\* The new blocks lose what they cached; the full ones of them are cached anew
Rehash(r, hit, new) ==
  [b \in Blocks |->
     IF b \notin ToSet(new) THEN block_hash[b]
     ELSE LET pos == Len(hit) + CHOOSE i \in DOMAIN new : new[i] = b
          IN IF pos <= Len(PromptOf[r]) THEN SubSeq(PromptOf[r], 1, pos) ELSE None]

Admit(r) ==
  /\ r \notin finished
  /\ req_to_blocks[r] = << >>
  /\ \E hit \in ComputedBlocks(r) :
       LET queue == AfterTouch(hit)
           need == NumBlocks(r) - Len(hit)
           new == SubSeq(queue, 1, need)
       IN /\ need <= Len(queue)
          /\ touch(hit)
          /\ free_block_queue' = SubSeq(queue, need + 1, Len(queue))
          /\ ref_cnt' = [b \in Blocks |->
                           IF b \in ToSet(hit \o new) THEN ref_cnt[b] + 1 ELSE ref_cnt[b]]
          /\ block_hash' = Rehash(r, hit, new)
          /\ req_to_blocks' = [req_to_blocks EXCEPT ![r] = hit \o new]
  /\ UNCHANGED <<pinned_by_request, ctrl, finished, repinned>>

WithUser(b) == [ref_cnt EXCEPT ![b] = @ + 1]

\* A decoding request takes one more block; what it holds is never full
Grow(r) ==
  /\ req_to_blocks[r] # << >>
  /\ Len(req_to_blocks[r]) < NumBlocks(r) + MaxDecode
  /\ free_block_queue # << >>
  /\ LET b == Head(free_block_queue)
     IN /\ free_block_queue' = Tail(free_block_queue)
        /\ ref_cnt' = WithUser(b)
        /\ block_hash' = [block_hash EXCEPT ![b] = None]
        /\ req_to_blocks' = [req_to_blocks EXCEPT ![r] = Append(@, b)]
  /\ UNCHANGED <<pinned_block_ids, pinned_by_request, ctrl, finished, repinned>>

-----------------------------------------------------------------------------
(* Release: the blocks come in reverse order, so that the tail of a prompt *)
(* is evicted before its prefix.                                           *)

ss_should_pin == ctrl.mode = "first_n" /\ Len(pinned_by_request) < ctrl.n

EntryOf(r) == {e \in ToSet(pinned_by_request) : e.req = r}

Reusable(b) == block_hash[b] # None
ReusableBlocks == {b \in Blocks : Reusable(b)}

\* What free() leaves without a user, in the order it is given
LastUsedBy(r) == Among(Reverse(req_to_blocks[r]), {b \in Blocks : ref_cnt[b] = 1})

\* Variant: setdefault(req, kept)
StoreFirst(dict, entry) ==
  IF \E i \in DOMAIN dict : dict[i].req = entry.req THEN dict ELSE Append(dict, entry)

\* pinned_by_request[req] = kept: a key that is present keeps its place
Store(dict, entry) ==
  IF \E i \in DOMAIN dict : dict[i].req = entry.req
  THEN [i \in DOMAIN dict |-> IF dict[i].req = entry.req THEN entry ELSE dict[i]]
  ELSE Append(dict, entry)

Pin(r, kept, passthrough) ==
  /\ free_block_queue' = passthrough \o free_block_queue
  /\ pinned_block_ids' = pinned_block_ids \cup ToSet(kept)
  /\ pinned_by_request' = IF kept = << >> THEN pinned_by_request
                          ELSE Store(pinned_by_request, [req |-> r, kept |-> kept])
  /\ repinned' = IF kept # << >> /\ EntryOf(r) # {} THEN repinned \cup {r}
                 ELSE repinned

\* Variant: what is pinned is queued as well
ss_pin_request_queues(r) == Pin(r, Among(LastUsedBy(r), ReusableBlocks), LastUsedBy(r))

ss_pin_request(r) ==
  Pin(r, Among(LastUsedBy(r), ReusableBlocks),
      Among(LastUsedBy(r), Blocks \ ReusableBlocks))

free_blocks(r) ==
  /\ free_block_queue' = free_block_queue \o LastUsedBy(r)
  /\ UNCHANGED <<pinned_block_ids, pinned_by_request, repinned>>

Release(r) ==
  /\ req_to_blocks[r] # << >>
  /\ IF ss_should_pin THEN ss_pin_request(r) ELSE free_blocks(r)
  /\ ref_cnt' = [b \in Blocks |->
                   IF b \in ToSet(req_to_blocks[r]) THEN ref_cnt[b] - 1 ELSE ref_cnt[b]]
  /\ req_to_blocks' = [req_to_blocks EXCEPT ![r] = << >>]
  /\ UNCHANGED <<block_hash, ctrl>>

Finish(r) == Release(r) /\ finished' = finished \cup {r}

\* A running request is preempted when the queue cannot serve another one
Preempt(r) ==
  /\ r \in Preemptible
  /\ free_block_queue = << >>
  /\ Release(r)
  /\ UNCHANGED finished

-----------------------------------------------------------------------------
(* reset_prefix_cache.  ss_unpin_all walks the dict in insertion order and *)
(* forgets each block it queues before it looks at the next entry, so that *)
(* a block listed by two entries is queued once.                           *)

\* Variant: a block that is queued is not forgotten
UnpinKeeps(acc, entry) ==
  [acc EXCEPT !.queue = @ \o Among(entry.kept, {b \in acc.pinned : Idle(b)})]

Unpin(acc, entry) ==
  LET live == Among(entry.kept, {b \in acc.pinned : Idle(b)})
  IN [queue |-> acc.queue \o live, pinned |-> acc.pinned \ ToSet(live)]

\* Variant: unpins without queueing
ss_unpin_all_forgets ==
  /\ free_block_queue' = free_block_queue
  /\ pinned_block_ids' = {}
  /\ pinned_by_request' = << >>

ss_unpin_all ==
  /\ free_block_queue' =
       FoldLeft(Unpin, [queue |-> free_block_queue, pinned |-> pinned_block_ids],
                pinned_by_request).queue
  /\ pinned_block_ids' = {}
  /\ pinned_by_request' = << >>

\* Variant: the reset of the unpatched pool
ResetUnpatched ==
  /\ block_hash' = IF Len(free_block_queue) = Cardinality(Blocks)
                   THEN [b \in Blocks |-> None] ELSE block_hash
  /\ UNCHANGED <<free_block_queue, ref_cnt, req_to_blocks, pinned_block_ids,
                 pinned_by_request, ctrl, finished, repinned>>

ResetPrefixCache ==
  /\ ss_unpin_all
  /\ block_hash' = IF Len(free_block_queue') = Cardinality(Blocks)
                   THEN [b \in Blocks |-> None] ELSE block_hash
  /\ UNCHANGED <<ref_cnt, req_to_blocks, ctrl, finished, repinned>>

SetControl(c) ==
  /\ ctrl' = c
  /\ UNCHANGED <<poolVars, finished>>

Next ==
  \/ \E r \in Requests : Admit(r)
  \/ \E r \in Requests : Grow(r)
  \/ \E r \in Requests : Finish(r)
  \/ \E r \in Requests : Preempt(r)
  \/ ResetPrefixCache
  \/ \E c \in Controls : SetControl(c)

Spec == Init /\ [][Next]_vars

-----------------------------------------------------------------------------
(* Properties.                                                             *)

\* What PinPool keeps of the queue, of a request's blocks and of the dict
Queued == ToSet(free_block_queue)
Held == [r \in Requests |-> ToSet(req_to_blocks[r])]
Withheld == [r \in Requests |-> UNION {ToSet(e.kept) : e \in EntryOf(r)}]

\* This module implements PinPool: every call on the sequences is the call of
\* the same name on the sets, including the walk of ss_unpin_all.
Pool == INSTANCE PinPool WITH
  free_block_queue <- Queued, hashed <- ReusableBlocks, req_to_blocks <- Held,
  pinned_by_request <- Withheld

ImplementsPinPool == Pool!Spec

\* No block is twice in the queue: a request's pinned block may be touched,
\* released and pinned again under another entry, and both entries still list
\* it when the reset walks them.
QueuedOnce == IsInjective(free_block_queue)

\* The free count that the admission test and the reset rely on is the number
\* of blocks without a user and without a pin.
FreeCountExact ==
  repinned = {} =>
    Len(free_block_queue) = Cardinality({b \in Blocks : Idle(b) /\ b \notin pinned_block_ids})

\* The request was pinned when it finished, and its prompt has not been sent
\* again since
Sleeping(r) ==
  /\ EntryOf(r) # {} /\ r \notin Preemptible
  /\ \A q \in Requests \ {r} :
       PromptOf[q] = PromptOf[r] => q \notin finished /\ req_to_blocks[q] = << >>

\* While a pinned context sleeps, the part of its prompt that no other prompt starts
\* with stays cached, whatever the load.  Of the shared part that cannot be said: a
\* block that a running request still uses when the context finishes is not pinned,
\* and a touch for another request unpins it (diff:22-28, 68-80;
\* harness/bench_occupancy_pinned.py:3, 15).
PrivateSuffixStays ==
  \A r \in Requests : Sleeping(r) =>
    \A i \in 1 .. Len(PromptOf[r]) :
      LET key == SubSeq(PromptOf[r], 1, i)
      IN (\A q \in Requests \ {r} : ~IsPrefix(key, PromptOf[q])) => Cached(key) # {}

\* P5 of the probe: a reset that finds no request running restores the pool.
ResetRestoresPool ==
  [][ResetPrefixCache /\ (\A r \in Requests : req_to_blocks[r] = << >>)
       => Len(free_block_queue') = Cardinality(Blocks)]_vars
=============================================================================
