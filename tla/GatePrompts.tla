----------------------------- MODULE GatePrompts -----------------------------
(***************************************************************************)
(* harness/build_gate_prompts.py: from recorded conversations to prompts   *)
(* that end where an approval is due.                                      *)
(*                                                                         *)
(* A message is a record [role, calls, answers]: calls is the sequence of  *)
(* tool calls of an assistant message, records [id, tool], and answers the *)
(* call that a tool message is the result of.  Contents, the system        *)
(* message and the number of tokens are left out.                          *)
(***************************************************************************)
EXTENDS Integers, SequencesExt

CONSTANTS
  Conversations,   \* the recorded simulations: records [task, messages]
  WriteTools,      \* the tools whose calls wait for an approval
  Simulations      \* how many of them a run of the builder reads

Message ==
  [role : {"user", "assistant", "tool"},
   calls : Seq([id : STRING, tool : STRING]),
   answers : STRING]

\* A recorded conversation: the results of its calls come next to an assistant
\* message, in some order, unless the conversation ends with it
IsConversation(msgs) ==
  /\ msgs \in Seq(Message)
  /\ \A i \in 1 .. Len(msgs) - 1 : msgs[i].role = "assistant" =>
       \A c \in DOMAIN msgs[i].calls :
         \E k \in i + 1 .. Len(msgs) :
           /\ k <= i + Len(msgs[i].calls)
           /\ msgs[k].answers = msgs[i].calls[c].id
           /\ \A j \in i + 1 .. k : msgs[j].role = "tool"

ASSUME ConversationAssumption ==
  /\ Simulations \in Nat
  /\ \A sim \in Conversations : IsConversation(sim.messages)

VARIABLE build     \* the locals of main(), a record:
                   \*   on       whether it runs
                   \*   sims     the simulations left
                   \*   seen     the gates met so far
                   \*   written  the prompts in the file: records [key, messages]

BuildOff == [on |-> FALSE, sims |-> << >>, seen |-> {}, written |-> << >>]

-----------------------------------------------------------------------------
IsParallel(m) == m.role = "assistant" /\ Len(m.calls) > 1

CallIds(m) == {m.calls[c].id : c \in DOMAIN m.calls}

\* The first message behind the results of message i: the next one that is no
\* result, or the one behind the last result it waits for
AfterResults(msgs, i) ==
  Min({j \in i + 1 .. Len(msgs) + 1 :
         \/ j = Len(msgs) + 1
         \/ msgs[j].role # "tool"
         \/ CallIds(msgs[i]) \subseteq {msgs[k].answers : k \in i + 1 .. j - 1}})

\* Variant: the results are taken in the order they come
ResultOfNth(msgs, i, c) ==
  LET at == {k \in i + 1 .. AfterResults(msgs, i) - 1 : k = i + c}
  IN IF at = {} THEN << >> ELSE <<msgs[Min(at)]>>

\* The result of call c of message i, if there is one
ResultOf(msgs, i, c) ==
  LET at == {k \in i + 1 .. AfterResults(msgs, i) - 1 :
               msgs[k].answers = msgs[i].calls[c].id}
  IN IF at = {} THEN << >> ELSE <<msgs[Min(at)]>>

\* One message per call, each with its result behind it
OneByOne(msgs, i) ==
  FlattenSeq([c \in DOMAIN msgs[i].calls |->
    <<[msgs[i] EXCEPT !.calls = <<msgs[i].calls[c]>>]>> \o ResultOf(msgs, i, c)])

split_parallel_tool_calls(msgs) ==
  FoldLeft(LAMBDA s, i :
             CASE i < s.next -> s
               [] i >= s.next /\ IsParallel(msgs[i]) ->
                    [out |-> s.out \o OneByOne(msgs, i), next |-> AfterResults(msgs, i)]
               [] OTHER -> [out |-> Append(s.out, msgs[i]), next |-> i + 1],
           [out |-> << >>, next |-> 1], [i \in DOMAIN msgs |-> i]).out

-----------------------------------------------------------------------------
Writes(m) == {c \in DOMAIN m.calls : m.role = "assistant" /\ m.calls[c].tool \in WriteTools}

\* Where the approval is due, or one past the end
find_gate_index(msgs) == Min({k \in DOMAIN msgs : Writes(msgs[k]) # {}} \cup {Len(msgs) + 1})

HasGate(msgs) == find_gate_index(msgs) \in DOMAIN msgs

GateCall(msgs) ==
  LET m == msgs[find_gate_index(msgs)] IN m.calls[Min(Writes(m))]

\* Two conversations of a task that ask for the same call are one gate
Key(sim) == <<sim.task, GateCall(sim.messages).tool>>

History(sim) ==
  split_parallel_tool_calls(SubSeq(sim.messages, 1, find_gate_index(sim.messages) - 1))

-----------------------------------------------------------------------------
StartBuild ==
  \E sims \in [1 .. Simulations -> Conversations] :
    build' = [BuildOff EXCEPT !.on = TRUE, !.sims = sims]

Sim == Head(build.sims)

\* The next simulation has a gate not met before
IsNew == HasGate(Sim.messages) /\ Key(Sim) \notin build.seen

Skip ==
  /\ build.on /\ build.sims # << >> /\ ~IsNew
  /\ build' = [build EXCEPT !.sims = Tail(@)]

\* The template rejects a conversation: the gate counts as seen all the same
TemplateFails ==
  /\ build.on /\ build.sims # << >> /\ IsNew
  /\ build' = [build EXCEPT !.sims = Tail(@), !.seen = @ \cup {Key(Sim)}]

WritePrompt ==
  /\ build.on /\ build.sims # << >> /\ IsNew
  /\ build' = [build EXCEPT !.sims = Tail(@), !.seen = @ \cup {Key(Sim)},
                 !.written = Append(@, [key |-> Key(Sim), messages |-> History(Sim)])]

BuildEnds ==
  /\ build.on /\ build.sims = << >>
  /\ build' = BuildOff

BuildNext == Skip \/ TemplateFails \/ WritePrompt
=============================================================================
