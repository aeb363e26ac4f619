----------------------------- MODULE KvSampler ------------------------------
(***************************************************************************)
(* sample_decode_window and run_cell (bench/kv_scaling/measure.py): the    *)
(* KV-scaling study measures cache bytes per token by reading the block    *)
(* pool while a batch of requests is decoded.                              *)
(*                                                                         *)
(* An iteration of the sampling loop is one action: read and gate the      *)
(* pool, step the engine, count the tokens, read and gate again, take the  *)
(* readings.  Any exception releases the sample and ends the cell.         *)
(***************************************************************************)
EXTENDS KvEngine, Sequences

CONSTANTS
    Samples,      \* n_samples
    Chunks,       \* prefill_chunks, the caller's estimate
    StepSlack,    \* the 8 of max_steps
    SlotSlack,    \* the 64 of _check_block_consistency
    NoReading     \* the None of prefill_used and decode_used

ASSUME SamplerAssumption ==
    /\ Samples \in Nat \ {0} /\ Chunks \in Nat \ {0}
    /\ StepSlack \in Nat /\ SlotSlack \in Nat
    /\ NoReading \notin [used : Int, live : Int]

VARIABLES
    setup,        \* the engine behind the driver
    pc,           \* between samples, stepping, or how the cell ended
    reqs, stale,  \* the engine's requests, and blocks it frees with a delay
    counted,      \* the sampler's `generated`
    steps,        \* iterations done
    prefill,      \* the prefill reading
    decode,       \* the decode reading
    truth,        \* history: the engine's state at the decode reading
    samples       \* the readings returned so far

engine == <<reqs, stale>>
vars == <<setup, pc, reqs, stale, counted, steps, prefill, decode, truth, samples>>

Batch == Cardinality(Requests)
MaxSteps == Chunks + DecodeTokens + StepSlack

Readings == [used : Int, live : Nat]
Truths == [alive : BOOLEAN, tokens : Nat]

\* Types, and no sample outlives its step budget.
TypeOK ==
    /\ setup \in Setups
    /\ pc \in {"between", "stepping", "measured", "refused", "add_failed"}
    /\ reqs \in [Requests -> RequestRecords]
    /\ stale \in Nat
    /\ counted \in [Requests -> 0 .. DecodeTokens]
    /\ steps \in 0 .. MaxSteps - 1
    /\ prefill \in Readings \cup {NoReading}
    /\ decode \in Readings \cup {NoReading}
    /\ truth \in Truths
    /\ samples \in Seq([prefill : Readings, decode : Readings, truth : Truths])
    /\ Len(samples) <= Samples

Nobody == [r \in Requests |-> Absent]
Unknown == [alive |-> FALSE, tokens |-> 0]

\* The locals of sample_decode_window.
FreshLocals ==
    /\ counted' = [r \in Requests |-> 0]
    /\ steps' = 0
    /\ prefill' = NoReading /\ decode' = NoReading /\ truth' = Unknown

Init ==
    /\ setup \in Setups
    /\ pc = "between"
    /\ reqs = Nobody /\ stale = 0
    /\ counted = [r \in Requests |-> 0]
    /\ steps = 0
    /\ prefill = NoReading /\ decode = NoReading /\ truth = Unknown
    /\ samples = <<>>

-----------------------------------------------------------------------------
(* Reading the pool                                                        *)

Finished(rs) == {r \in Requests : rs[r].phase = "finished"}

LiveTokens(rs, count) ==
    SumOver(Requests \ Finished(rs), [r \in Requests |-> PromptLen + count[r]])

Scheduled(rs, count) == \A r \in Requests \ Finished(rs) : count[r] >= 1

\* Mutant: the lower bound is dropped.
ConsistentAbove(used, live, scheduled) ==
    used >= 0 /\ used * BlockSize <= live + Batch * BlockSize + SlotSlack

\* _check_block_consistency.
Consistent(used, live, scheduled) ==
    /\ used >= 0
    /\ used * BlockSize <= live + Batch * BlockSize + SlotSlack
    /\ scheduled => used * BlockSize >= live

GatePasses(rs, st, count) ==
    Consistent(UsedBlocks(setup, rs, st), LiveTokens(rs, count), Scheduled(rs, count))

\* VllmEngineDriver.step: new tokens from the length of an output and the
\* number seen before, which is what the sampler has counted.
NewTokens(length, seen) == IF length >= seen THEN length - seen ELSE length

\* The counts after a step; a request that got no token has no output.
CountedAfter(next) ==
    [r \in Requests |->
        IF next[r].gen = reqs[r].gen THEN counted[r]
        ELSE IF setup.driver = "fake" THEN counted[r] + 1
        ELSE counted[r] + NewTokens(IF setup.output = "cumulative" THEN next[r].gen ELSE 1,
                                    counted[r])]

\* Mutant: the blocks are read after the step, the tokens before it.
ReadingLate(next, st, count) ==
    [used |-> UsedBlocks(setup, next, st), live |-> LiveTokens(reqs, counted)]

\* The pool and the token count after a step.
Reading(next, st, count) ==
    [used |-> UsedBlocks(setup, next, st), live |-> LiveTokens(next, count)]

\* The decode reading is taken while every request is alive, and after the
\* prefill reading.
MayFreeze(next, pre) == pre # NoReading /\ Finished(next) = {}

\* Mutant: the budget forgets the decode steps.
LastStepPrefillOnly(n) == n + 1 >= Chunks

\* range(max_steps) is exhausted.
LastStep(n) == n + 1 >= MaxSteps

-----------------------------------------------------------------------------
(* Actions                                                                 *)

\* Mutant: a refusal leaves the requests in the engine.
EndSampleNever(st) == reqs' = reqs /\ stale' = st

\* end_sample, in the finally clause: abort what is left.  (The fake engine
\* frees the blocks of unfinished requests and keeps the requests, which
\* nothing sees: a refused sample is the cell's last.)
EndSample(st) == reqs' = Nobody /\ stale' = st

\* A gate raises: the sample is released and the exception ends the cell.
Refuse(st) ==
    /\ pc' = "refused"
    /\ EndSample(st)
    /\ FreshLocals
    /\ UNCHANGED <<setup, samples>>

\* add_request for the whole batch.
BeginSample ==
    /\ pc = "between" /\ Len(samples) < Samples
    /\ pc' = "stepping"
    /\ reqs' = [r \in Requests |-> Added]
    /\ FreshLocals
    /\ UNCHANGED <<setup, stale, samples>>

\* The engine rejects a request.  The finally clause is not entered yet: the
\* ones added before stay.
AddFails ==
    /\ pc = "between" /\ Len(samples) < Samples /\ setup.driver = "vllm"
    /\ \E added \in SUBSET Requests :
          /\ added # Requests
          /\ reqs' = [r \in Requests |-> IF r \in added THEN Added ELSE Absent]
    /\ pc' = "add_failed"
    /\ FreshLocals
    /\ UNCHANGED <<setup, stale, samples>>

\* The gate before a step.
RefusePreStep ==
    /\ pc = "stepping"
    /\ ~ GatePasses(reqs, stale, counted)
    /\ Refuse(stale)

\* The step itself raises: the fake pool overflows.
StepRaises ==
    /\ pc = "stepping" /\ GatePasses(reqs, stale, counted)
    /\ setup.driver = "fake"
    /\ \E next \in Steps(setup, reqs) : ~ PoolHolds(setup, next, 0)
    /\ Refuse(0)

\* A step that may happen, with the delayed blocks it leaves.
Stepped(next, st) ==
    /\ pc = "stepping" /\ GatePasses(reqs, stale, counted)
    /\ next \in Steps(setup, reqs)
    /\ st = StaleAfter(setup, reqs, next)
    /\ PoolHolds(setup, next, st)

\* The whole batch is finished: the readings are complete and ordered, or
\* the sample is refused.
FinishSample(next, st) ==
    /\ Finished(next) = Requests
    /\ IF prefill # NoReading /\ decode # NoReading /\ decode.used >= prefill.used
       THEN /\ samples' = Append(samples, [prefill |-> prefill, decode |-> decode,
                                           truth |-> truth])
            /\ pc' = "between"
            /\ EndSample(st)
            /\ FreshLocals
            /\ UNCHANGED setup
       ELSE Refuse(st)

\* The checks after a step, in order, then the readings; the last step of the
\* budget raises after them.
Continue(next, st) ==
    LET count == CountedAfter(next)
        now   == Reading(next, st, count)
        pre   == IF prefill = NoReading /\ Scheduled(next, count) THEN now ELSE prefill
    IN  /\ Finished(next) # Requests
        /\ IF \/ ~ GatePasses(next, st, count)
              \/ prefill = NoReading /\ Finished(next) # {}
              \/ LastStep(steps)
           THEN Refuse(st)
           ELSE /\ reqs' = next /\ stale' = st
                /\ counted' = count
                /\ steps' = steps + 1
                /\ prefill' = pre
                /\ decode' = IF MayFreeze(next, pre) THEN now ELSE decode
                /\ truth' = IF MayFreeze(next, pre)
                            THEN [alive  |-> Finished(next) = {},
                                  tokens |-> SumOver(Requests, [r \in Requests |->
                                                         PromptLen + next[r].gen])]
                            ELSE truth
                /\ UNCHANGED <<setup, pc, samples>>

\* One iteration of the loop.
Iterate ==
    \/ RefusePreStep
    \/ StepRaises
    \/ \E next \in Steps(setup, reqs) :
          LET st == StaleAfter(setup, reqs, next)
          IN  Stepped(next, st) /\ (FinishSample(next, st) \/ Continue(next, st))

\* run_cell: all samples are in, and their live counts agree or the cell is
\* refused.
CellDone ==
    /\ pc = "between" /\ Len(samples) = Samples
    /\ pc' = IF \A i \in 1 .. Samples : samples[i].decode.live = samples[1].decode.live
             THEN "measured" ELSE "refused"
    /\ UNCHANGED <<setup, engine, counted, steps, prefill, decode, truth, samples>>

Next == BeginSample \/ AddFails \/ Iterate \/ CellDone

Spec == Init /\ [][Next]_vars

\* The process runs: a sample that can go on goes on.
FairSpec == Spec /\ WF_vars(Next)

-----------------------------------------------------------------------------
(* Properties                                                              *)

\* A returned decode reading describes the whole batch at one moment: every
\* request was alive, and the token count is the engine's own.  Chunked
\* prefill, preemption, early ends and delayed freeing never yield the
\* reading of a part of the batch.
ReadsWholeBatch ==
    \A i \in 1 .. Len(samples) :
        /\ samples[i].truth.alive
        /\ samples[i].decode.live = samples[i].truth.tokens
        /\ samples[i].prefill.live \in Batch * (PromptLen + 1) .. samples[i].decode.live

\* A returned reading accounts for every token and for at most a block per
\* request and the slack beyond: an engine that shares blocks or holds some
\* of its own is refused rather than misread.
CoversTokens ==
    \A i \in 1 .. Len(samples) :
        LET s == samples[i]
        IN  /\ s.decode.used * BlockSize \in
                  s.truth.tokens .. s.truth.tokens + Batch * BlockSize + SlotSlack
            /\ s.prefill.used \in BlocksFor(s.prefill.live) .. s.decode.used

\* However a sample ends, nothing of it is left in the engine: the next one
\* starts from an empty pool, up to blocks that are still being returned.
Released ==
    pc \in {"between", "measured", "refused"} => reqs = Nobody

\* The gates are not too strict: the dry run's engine, whose pool is sized for
\* the batch, is measured.
DryRunIsMeasured ==
    /\ setup.driver = "fake" /\ setup.ignoreEos
    /\ setup.total >= Batch * BlocksFor(PromptLen + DecodeTokens)
    => <>(pc = "measured")
=============================================================================
