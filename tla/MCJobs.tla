------------------------------- MODULE MCJobs --------------------------------
\* The jobs of harness/*.slurm at the smallest sizes that keep their structure:
\* every server and every arm; two contention processes in place of three, and one
\* with a prompt more; points of the occupancy benchmark with and without contexts.
EXTENDS Jobs

CONSTANTS t1, t2, t3

bench_prefill(P) == [client |-> "bench_prefill", prompts |-> P, arms |-> <<"prefill">>]
suspend_resume(P, arms) == [client |-> "suspend_resume", prompts |-> P, arms |-> arms]
bench_q(P) == [client |-> "bench_q", prompts |-> P, Ns |-> << >>, load |-> 1]
loadgen(P) == [client |-> "loadgen", prompts |-> P, Ns |-> << >>, load |-> 2]
real(P, Ns) == [client |-> "real", prompts |-> P, Ns |-> Ns, load |-> 1]
bench_transfer == [client |-> "bench_transfer"]
build_gate_prompts == [client |-> "build_gate_prompts"]

On(t, procs) == [tier |-> t, processes |-> procs]

bench_m3_70b(P) ==
  <<On("none", <<bench_transfer>>),
    On("hbm", <<bench_prefill(P), suspend_resume(P, <<"pin", "discard">>)>>)>>
smoke_all_tiers(P) ==
  <<On("hbm", <<suspend_resume(P, <<"pin", "discard">>)>>),
    On("cpu", <<suspend_resume(P, <<"pin", "cpu", "discard">>)>>),
    On("nvme", <<suspend_resume(P, <<"pin", "nvme", "discard">>)>>)>>
bench_m4q(P) == <<On("hbm", <<bench_q(P), bench_q(P)>>), On("hbm", <<loadgen(P)>>)>>
bench_m4real(P, Ns) == <<On("hbm", <<real(P, Ns)>>)>>

Batch ==
  {<<On("none", <<build_gate_prompts>>)>>,
   bench_m3_70b({t1, t2}), smoke_all_tiers({t1, t2}), bench_m4q({t1, t2}),
   <<On("hbm", <<bench_q({t1, t2, t3})>>)>>,
   bench_m4real({t1, t2}, <<1, 0, 1>>), bench_m4real({t1, t2, t3}, <<2, 0>>)}
SmokeOnly == {smoke_all_tiers({t1})}
RatesOnly == {<<On("hbm", <<bench_q({t1, t2}), bench_q({t1, t2})>>)>>}

-----------------------------------------------------------------------------
\* Conversations of one task and of two: calls one at a time, in parallel with the
\* results in either order, beside the call that waits for an approval, and none
\* that does
User == [role |-> "user", calls |-> << >>, answers |-> "none"]
Result(id) == [role |-> "tool", calls |-> << >>, answers |-> id]
Call(id, tool) == [id |-> id, tool |-> tool]
Asks(calls) == [role |-> "assistant", calls |-> calls, answers |-> "none"]

Recorded ==
  {[task |-> t1, messages |->
     <<User, Asks(<<Call("a", "find")>>), Result("a"), User,
       Asks(<<Call("b", "find"), Call("c", "look")>>), Result("c"), Result("b"),
       Asks(<<Call("d", "cancel")>>), Result("d")>>],
   [task |-> t1, messages |->
     <<User, Asks(<<Call("a", "look"), Call("b", "find"), Call("c", "look")>>),
       Result("a"), Result("c"), Result("b"), Asks(<< >>), User,
       Asks(<<Call("d", "find"), Call("e", "cancel"), Call("f", "exchange")>>)>>],
   [task |-> t2, messages |->
     <<User, Asks(<<Call("a", "look"), Call("b", "find")>>), Result("a"), Result("b"),
       Asks(<<Call("c", "exchange")>>), Result("c"), Asks(<<Call("d", "cancel")>>)>>],
   [task |-> t2, messages |-> <<User, Asks(<<Call("a", "find")>>), Result("a")>>]}
=============================================================================
