------------------------------ MODULE KvEngine ------------------------------
(***************************************************************************)
(* The engine the KV-scaling study drives by hand (EngineDriver of         *)
(* bench/kv_scaling/measure.py): requests that hold cache blocks, and what *)
(* one step() may do to them.                                              *)
(*                                                                         *)
(* Two drivers implement the protocol.  FakeEngineDriver is code of the    *)
(* repository and deterministic.  Behind VllmEngineDriver stands vLLM,     *)
(* which is external: a step may leave a request alone, compute a chunk of *)
(* its prompt, decode a token or preempt it, and the way it accounts for   *)
(* blocks differs between builds.  A Setup says which engine it is.        *)
(***************************************************************************)
EXTENDS Integers, FiniteSets

CONSTANTS
    Requests,     \* the requests of one sample
    PromptLen,    \* tokens of every prompt
    DecodeTokens, \* max_tokens of every request
    BlockSize,    \* token slots of a block
    EosAfter,     \* eos_after of the fake engine
    Setups        \* the engines considered

\* driver:    whose code answers
\* ignoreEos: the sampling parameter; production sets it
\* total:     num_gpu_blocks
\* reserved:  blocks the engine keeps for itself
\* lag:       generated tokens that are not in the cache yet
\* shared:    prompt blocks that requests share (prefix caching)
\* lazy:      a finished request's blocks return with the next step
\* output:    an output carries all token ids so far, or the step's own
SetupRecords ==
    [driver : {"fake", "vllm"}, ignoreEos : BOOLEAN, total : Nat, reserved : Nat,
     lag : 0 .. 1, shared : Nat, lazy : BOOLEAN, output : {"cumulative", "per_step"}]

ASSUME EngineAssumption ==
    /\ IsFiniteSet(Requests) /\ Requests # {}
    /\ PromptLen \in Nat \ {0} /\ DecodeTokens \in Nat \ {0}
    /\ BlockSize \in Nat \ {0}
    /\ EosAfter \in Nat \ {0}
    /\ Setups \subseteq SetupRecords
    /\ \A s \in Setups : s.shared * BlockSize <= PromptLen

-----------------------------------------------------------------------------
(* Requests and the blocks they hold                                       *)

\* sum(f[r] for r in S), as the number of units the members of S have: tokens
\* or blocks.
SumOver(S, f) == Cardinality(UNION {{r} \X (1 .. f[r]) : r \in S})

Phases == {"absent", "waiting", "running", "finished"}

\* computed: prompt tokens a waiting request has in the cache.
RequestRecords == [phase : Phases, computed : 0 .. PromptLen, gen : 0 .. DecodeTokens]

Absent == [phase |-> "absent",  computed |-> 0, gen |-> 0]
Added  == [phase |-> "waiting", computed |-> 0, gen |-> 0]

BlocksFor(tokens) == (tokens + BlockSize - 1) \div BlockSize

\* Tokens of q that occupy the cache.
Cached(s, q) ==
    CASE q.phase = "waiting" -> q.computed
      [] q.phase = "running" -> PromptLen + q.gen - s.lag
      [] OTHER -> 0

Held(s, q) == BlocksFor(Cached(s, q))

\* Blocks out of the pool: total_blocks - num_free_blocks().
UsedBlocks(s, reqs, stale) ==
    LET sharers == {r \in Requests : Held(s, reqs[r]) >= s.shared}
    IN  s.reserved + stale
        + SumOver(Requests, [r \in Requests |-> Held(s, reqs[r])])
        - (IF sharers = {} THEN 0 ELSE s.shared * (Cardinality(sharers) - 1))

-----------------------------------------------------------------------------
(* One step                                                                *)

\* _finish_after: where the fake engine ends a request.
FinishAfter(s) ==
    IF ~ s.ignoreEos /\ EosAfter < DecodeTokens THEN EosAfter ELSE DecodeTokens

WithToken(s, q, ends) ==
    [phase |-> IF ends THEN "finished" ELSE "running",
     computed |-> 0, gen |-> q.gen + 1]

\* FakeEngineDriver.step: one token for every request that is not finished.
FakeMoves(s, q) == {WithToken(s, q, q.gen + 1 >= FinishAfter(s))}

\* A vLLM step, as far as the sampler can tell: nothing, a chunk of the
\* prompt, a token (the last one, or an end of sequence, finishes the
\* request), or preemption, which keeps the tokens and drops the cache.
VllmMoves(s, q) ==
    {q}
    \cup {[q EXCEPT !.computed = c] :
              c \in {c \in q.computed .. PromptLen - 1 :
                        q.phase = "waiting" /\ c % BlockSize = 0}}
    \cup {WithToken(s, q, ends) :
              ends \in {q.gen + 1 = DecodeTokens}
                       \cup (IF s.ignoreEos THEN {} ELSE {TRUE})}
    \cup (IF q.phase = "running"
          THEN {[phase |-> "waiting", computed |-> 0, gen |-> q.gen]} ELSE {})

Moves(s, q) ==
    IF q.phase \notin {"waiting", "running"} THEN {q}
    ELSE IF s.driver = "fake" THEN FakeMoves(s, q)
    ELSE VllmMoves(s, q)

\* The states of the requests one step may lead to.
Steps(s, reqs) ==
    LET all == UNION {Moves(s, reqs[r]) : r \in Requests}
    IN  {next \in [Requests -> all] : \A r \in Requests : next[r] \in Moves(s, reqs[r])}

\* Blocks a lazy engine still holds for the requests that finished in a step.
StaleAfter(s, reqs, next) ==
    IF ~ s.lazy THEN 0
    ELSE SumOver({r \in Requests : /\ next[r].phase = "finished"
                                   /\ reqs[r].phase # "finished"},
                 [r \in Requests |-> BlocksFor(PromptLen + next[r].gen - s.lag)])

\* The fake pool refuses to hold more than it has; vLLM does not get there.
PoolHolds(s, next, stale) == UsedBlocks(s, next, stale) <= s.total
=============================================================================
