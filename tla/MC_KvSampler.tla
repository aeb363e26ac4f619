---------------------------- MODULE MC_KvSampler ----------------------------
(* Instances of KvSampler for TLC.                                         *)
EXTENDS KvSampler

Vllm == [driver |-> "vllm", ignoreEos |-> TRUE, total |-> 8, reserved |-> 0,
         lag |-> 0, shared |-> 0, lazy |-> FALSE, output |-> "cumulative"]
Fake == [Vllm EXCEPT !.driver = "fake"]

\* The fake engine with and without early ends and with a small pool; vLLM
\* with a large and a small pool; with a reserved block and the last token
\* not cached; with shared prompt blocks; with delayed freeing; with early
\* ends.
SetupsMC ==
    {Fake, [Fake EXCEPT !.ignoreEos = FALSE],
     [Fake EXCEPT !.total = 5],
     Vllm, [Vllm EXCEPT !.total = 6],
     [Vllm EXCEPT !.reserved = 1, !.lag = 1],
     [Vllm EXCEPT !.shared = 2],
     [Vllm EXCEPT !.lazy = TRUE],
     [Vllm EXCEPT !.ignoreEos = FALSE]}

\* An engine whose outputs carry the tokens of one step.
PerStepMC == {[Vllm EXCEPT !.output = "per_step"]}
=============================================================================
