------------------------------- MODULE Server --------------------------------
(***************************************************************************)
(* The inference server as the measurement scripts under harness/ see it:  *)
(* what of a prompt is cached where, the requests it works on, and         *)
(* POST /reset_prefix_cache.                                               *)
(*                                                                         *)
(* A prompt is a sequence of parts: the system message that all share, the *)
(* conversation of a task up to its gate, the approval turn.  A part is    *)
(* found in a cache only behind the parts before it.  A server with a      *)
(* second tier (DRAM or NVMe) keeps a copy of all it has computed there.   *)
(*                                                                         *)
(* One client process talks to the server at a time.  A request that the   *)
(* client gave up stays, under no name, until the server notices.          *)
(***************************************************************************)
EXTENDS Integers, SequencesExt

CONSTANT Tasks     \* the gate prompts, by task

VARIABLES
  tier,        \* "hbm", "cpu" or "nvme" while a server is up, "none" in a part of a
               \* job that needs no server, else "down"
  gpu, store,  \* the parts cached on the GPU and in the second tier
  open,        \* the requests the server has: records [id, parts, hit]
  seen,        \* the parts it was sent since its start
  abandoned,   \* whether a client of this server has given up a request
  process      \* the client process that runs, or Idle

serverVars == <<tier, gpu, store, open, seen, abandoned>>

ServerInit ==
  tier = "down" /\ gpu = {} /\ store = {} /\ open = {} /\ seen = {} /\ abandoned = FALSE

Idle == [client |-> "none"]

Nobody == 0    \* the name of a request nobody waits for

-----------------------------------------------------------------------------
System == << <<"all", "system">> >>
Gate(t) == Append(System, <<t, "gate">>)
Resumed(t) == Append(Gate(t), <<t, "approval">>)

\* How many parts of a prompt a set of parts holds
Held(parts, cached) ==
  Max({n \in 0 .. Len(parts) : \A k \in 1 .. n : parts[k] \in cached})

\* What a prompt found when it was scheduled: the parts on the GPU, and those
\* there or in the second tier
Hit(parts) == [gpu |-> Held(parts, gpu), all |-> Held(parts, gpu \cup store)]

NotYet == [gpu |-> -1, all |-> -1]

Unread == [gpu |-> 0, all |-> 0]    \* the hit of a request nobody waits for

Scheduled(r) == r.hit # NotYet

Post(id, parts) ==
  /\ open' = open \cup {[id |-> id, parts |-> parts, hit |-> NotYet]}
  /\ seen' = seen \cup ToSet(parts)
  /\ UNCHANGED <<tier, gpu, store, abandoned>>

Schedule(r) ==
  /\ r \in open /\ ~Scheduled(r)
  /\ open' = (open \ {r}) \cup
       {[r EXCEPT !.hit = IF r.id = Nobody THEN Unread ELSE Hit(r.parts)]}
  /\ gpu' = gpu \cup ToSet(r.parts)
  /\ store' = IF tier = "hbm" THEN store ELSE store \cup ToSet(r.parts)
  /\ UNCHANGED <<tier, seen, abandoned, process>>

\* The server notices that nobody waits
Abort(r) ==
  /\ r \in open /\ r.id = Nobody
  /\ open' = open \ {r}
  /\ UNCHANGED <<tier, gpu, store, seen, abandoned, process>>

\* LRU under load: a part goes before the parts in front of it
Evict(part) ==
  /\ part \in gpu
  /\ \A r \in open : Scheduled(r) => part \notin ToSet(r.parts)
  /\ part = System[1] => gpu = {part}
  /\ gpu' = gpu \ {part}
  /\ UNCHANGED <<tier, store, open, seen, abandoned, process>>

\* Refused while a request holds blocks, with the same status; the copy stays
reset_prefix_cache ==
  /\ gpu' = IF \E r \in open : Scheduled(r) THEN gpu ELSE {}
  /\ UNCHANGED <<tier, store, open, seen, abandoned>>

-----------------------------------------------------------------------------
(* The client's side of a request.                                         *)

\* The answer is complete
Answered(r) ==
  /\ Scheduled(r)
  /\ open' = open \ {r}
  /\ UNCHANGED <<tier, gpu, store, seen, abandoned>>

\* A status, an error of the connection or the timeout of 600 s: the server has
\* dropped the request, or still has it
Failed(r) ==
  /\ \/ open' = open \ {r} /\ UNCHANGED abandoned
     \/ /\ open' = (open \ {r}) \cup
               {[r EXCEPT !.id = Nobody, !.hit = IF Scheduled(r) THEN Unread ELSE NotYet]}
        /\ abandoned' = TRUE
  /\ UNCHANGED <<tier, gpu, store, seen>>
=============================================================================
