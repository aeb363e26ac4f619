--------------------------- MODULE LiveExperiment ---------------------------
(***************************************************************************)
(* The live workload-shift experiment (scripts/autoscaler_live.py): a loop *)
(* that scrapes a vLLM server and feeds PoolAutoscaler, beside a traffic   *)
(* task that fires requests open-loop, phase after phase.  It composes     *)
(* Autoscaler: Decided is the tick() the loop calls.                       *)
(*                                                                         *)
(* Time is counted in units of tick_s from the start of a phase.  It       *)
(* passes while the loop sleeps, waits for a scrape or awaits the traffic; *)
(* the server and the traffic task take their steps in between.            *)
(***************************************************************************)
EXTENDS Autoscaler, Sequences

CONSTANTS
    Phases,     \* number of phases
    Duration,   \* duration_s of a phase, in ticks
    Latencies,  \* time a scrape may take
    MaxFired,   \* bound: requests fired in a phase
    NoFile      \* no such file

\* What run_experiment puts into summary.json; of response_status_counts the sum.
Reports == [ticks : Nat, flips : Nat, violations : Nat, counted : Nat]

ASSUME LiveAssumption ==
    /\ Phases \in Nat \ {0} /\ Duration \in Nat /\ MaxFired \in Nat
    /\ Latencies \subseteq Nat
    /\ Pools = Controlled /\ Cardinality(Pools) = 1
    /\ StartReplicas = {1} /\ MinReplicas >= 1 /\ Dts = {1}
    /\ 0 .. Horizon \subseteq Elapsed
    /\ 0 .. MaxFired \subseteq Depths
    /\ NoFile \notin Reports

Colocated == CHOOSE p \in Pools : TRUE

VARIABLES
    pc,          \* where run_experiment is
    phase, now,  \* phase, and time since its start
    gone,        \* clock time since the last tick, up to Horizon
    signal,      \* what a scrape read, until the tick has used it
    traffic,     \* the task: "none", "firing", "gathering" or "over"
    fired,       \* requests fired in this phase; `total` in earlier ones
    total,
    waiting, running,        \* requests in the server's queue and at work
    counted,     \* the sum of status_counts
    swallowed,   \* history: requests whose exception nobody counted
    records, flips, violations,
    out, summary,            \* run.jsonl and summary.json
    exit

loopVars == <<phase, now, gone, signal>>
requestVars == <<traffic, fired, total, waiting, running, counted, swallowed>>
reportVars == <<records, flips, violations>>
fileVars == <<out, summary>>
liveVars == <<vars, pc, loopVars, requestVars, reportVars, fileVars, exit>>

NoExit == -1
NoSignal == [waiting |-> 0, running |-> 0]

LiveInit ==
    /\ Init
    /\ pc = "main" /\ phase = 0 /\ now = 0 /\ gone = 0
    /\ signal = NoSignal
    /\ traffic = "none" /\ fired = 0 /\ total = 0
    /\ waiting = 0 /\ running = 0
    /\ counted = 0 /\ swallowed = 0
    /\ records = <<>> /\ flips = 0 /\ violations = 0
    /\ out = NoFile /\ summary = NoFile /\ exit = NoExit

Later(t) == CapAt(gone + t, Horizon)

-----------------------------------------------------------------------------
(* The traffic task and the server                                         *)

\* One more request, every interval until the deadline or the stop event, from
\* the moment the server has it.
Fire ==
    /\ traffic = "firing" /\ now < Duration /\ fired < MaxFired
    /\ fired' = fired + 1 /\ waiting' = waiting + 1
    /\ UNCHANGED <<vars, pc, loopVars, traffic, total, running, counted,
                   swallowed, reportVars, fileVars, exit>>

\* The firing loop is left; the tasks are gathered.
StopFiring ==
    /\ traffic = "firing" /\ (now >= Duration \/ pc = "await")
    /\ traffic' = "gathering"
    /\ UNCHANGED <<vars, pc, loopVars, fired, total, waiting, running, counted,
                   swallowed, reportVars, fileVars, exit>>

Gathered ==
    /\ traffic = "gathering" /\ waiting + running = 0
    /\ traffic' = "over"
    /\ UNCHANGED <<vars, pc, loopVars, fired, total, waiting, running, counted,
                   swallowed, reportVars, fileVars, exit>>

\* The server takes a request from its queue.
StartRequest ==
    /\ traffic # "none" /\ waiting > 0
    /\ waiting' = waiting - 1 /\ running' = running + 1
    /\ UNCHANGED <<vars, pc, loopVars, traffic, fired, total, counted,
                   swallowed, reportVars, fileVars, exit>>

\* one() returns and its result is counted: an answer or, at any point of the
\* request's life, an error status, a refused connection or the timeout.
Counts == counted' = counted + 1 /\ UNCHANGED swallowed

Completes ==
    /\ traffic # "none" /\ running > 0
    /\ running' = running - 1 /\ Counts
    /\ UNCHANGED <<vars, pc, loopVars, traffic, fired, total, waiting,
                   reportVars, fileVars, exit>>

\* Mutant: no timeout once the server has started the request.
ErrsInQueue == waiting > 0 /\ waiting' = waiting - 1 /\ UNCHANGED running

Errs ==
    \/ waiting > 0 /\ waiting' = waiting - 1 /\ UNCHANGED running
    \/ running > 0 /\ running' = running - 1 /\ UNCHANGED waiting

\* An exception that is no HTTPError passes one() by, and gather() drops it.
Drops == swallowed' = swallowed + 1 /\ UNCHANGED counted

Fails ==
    /\ traffic # "none"
    /\ Errs
    /\ Counts \/ Drops
    /\ UNCHANGED <<vars, pc, loopVars, traffic, fired, total, reportVars, fileVars, exit>>

-----------------------------------------------------------------------------
(* The loop                                                                *)

\* main() without RUNPOD_VLLM_BASE_URL, or run_experiment is entered.
Main(url) ==
    /\ pc = "main"
    /\ IF url THEN pc' = "phase" /\ UNCHANGED exit ELSE pc' = "ended" /\ exit' = 2
    /\ UNCHANGED <<vars, loopVars, requestVars, reportVars, fileVars>>

StartPhase ==
    /\ pc = "phase" /\ phase < Phases
    /\ phase' = phase + 1 /\ now' = 0 /\ pc' = "loop"
    /\ traffic' = "firing" /\ fired' = 0 /\ total' = total + fired
    /\ UNCHANGED <<vars, gone, signal, waiting, running, counted,
                   swallowed, reportVars, fileVars, exit>>

\* The loop ends one tick before the traffic does.
Ticking == pc = "loop" /\ now < Duration - 1

\* The body is rendered.  Its status is not looked at: a body without the two
\* metrics reads as zeros.
Scraped(missing, latency) ==
    /\ Ticking
    /\ signal' = IF missing THEN NoSignal
                 ELSE [waiting |-> waiting, running |-> running]
    /\ now' = now + latency /\ gone' = Later(latency)
    /\ pc' = "decide"
    /\ UNCHANGED <<vars, phase, requestVars, reportVars, fileVars, exit>>

\* The scrape or its parsing raises: the exception leaves run_experiment with
\* the records in memory, and the traffic is cancelled.
ScrapeRaises ==
    /\ Ticking
    /\ pc' = "ended" /\ exit' = 1
    /\ traffic' = "none" /\ waiting' = 0 /\ running' = 0
    /\ UNCHANGED <<vars, loopVars, fired, total, counted, swallowed, reportVars, fileVars>>

\* The caller's replica count.
Resized(r, delta) == IF r + delta < 1 THEN 1 ELSE r + delta

\* The tick, the check of the drain invariant, the flip and the record.
Decision ==
    /\ pc = "decide"
    /\ Decided(gone, [p \in Pools |-> signal.waiting],
               [p \in Pools |-> signal.running > 0], 1)
    /\ LET delta == decision'[Colocated].delta
       IN  /\ violations' = violations + (IF delta < 0 /\ signal.running > 0 THEN 1 ELSE 0)
           /\ flips' = flips + (IF delta # 0 THEN 1 ELSE 0)
           /\ replicas' = [p \in Pools |-> Resized(replicas[p], delta)]
           /\ gap' = GapAfter(gone)
           /\ records' = Append(records, [running |-> signal.running,
                            delta |-> delta, replicas |-> replicas'[Colocated]])
    /\ gone' = 0 /\ signal' = NoSignal /\ pc' = "sleep"
    /\ UNCHANGED <<phase, now, requestVars, fileVars, exit>>

Wake ==
    /\ pc = "sleep"
    /\ now' = now + 1 /\ gone' = Later(1) /\ pc' = "loop"
    /\ UNCHANGED <<vars, phase, signal, requestVars, reportVars, fileVars, exit>>

\* stop.set()
SetStop ==
    /\ pc = "loop" /\ now >= Duration - 1
    /\ pc' = "await"
    /\ UNCHANGED <<vars, loopVars, requestVars, reportVars, fileVars, exit>>

\* Mutant: the loop does not await the traffic task.
TrafficOverNever == TRUE

TrafficOver == traffic = "over"

\* `await traffic`, however long it takes.
AwaitTraffic(t) ==
    /\ pc = "await" /\ TrafficOver
    /\ gone' = Later(t) /\ pc' = "phase"
    /\ UNCHANGED <<vars, phase, now, signal, requestVars, reportVars, fileVars, exit>>

\* The client is closed and run.jsonl is written.
WriteRecords ==
    /\ pc = "phase" /\ phase = Phases
    /\ out' = records /\ pc' = "summary"
    /\ UNCHANGED <<vars, loopVars, requestVars, reportVars, summary, exit>>

WriteReport ==
    /\ pc = "summary"
    /\ summary' = [ticks |-> Len(records), flips |-> flips, violations |-> violations,
                   counted |-> counted]
    /\ exit' = IF violations > 0 THEN 1 ELSE 0
    /\ pc' = "ended"
    /\ UNCHANGED <<vars, loopVars, requestVars, reportVars, out>>

LoopStep ==
    \/ Main(TRUE) \/ StartPhase \/ Decision \/ Wake \/ SetStop
    \/ \E latency \in Latencies : Scraped(FALSE, latency)
    \/ \E t \in {0, Horizon} : AwaitTraffic(t)
    \/ WriteRecords \/ WriteReport

ServerStep == StartRequest \/ Completes

Trouble ==
    \/ Main(FALSE) \/ ScrapeRaises
    \/ \E latency \in Latencies : Scraped(TRUE, latency)

LiveNext == LoopStep \/ Fire \/ StopFiring \/ Gathered \/ ServerStep \/ Fails \/ Trouble

LiveSpec == LiveInit /\ [][LiveNext]_liveVars

\* The event loop runs both tasks; every request ends, by its timeout if by
\* nothing else.  Nothing is assumed of the server.
FairLiveSpec ==
    /\ LiveSpec
    /\ WF_liveVars(LoopStep)
    /\ WF_liveVars(StopFiring) /\ WF_liveVars(Gathered)
    /\ WF_liveVars(Fails)

-----------------------------------------------------------------------------
(* Properties                                                              *)

\* The loop is a caller as Autoscaler assumes it: what it does to the
\* controller and to its own replica count is a behaviour of Autoscaler, so
\* that everything shown there holds here.  In particular max(1, ...) never
\* hides a decision.
IsScalerCaller == Spec

\* The report can be replayed from the records: every record's replica count
\* follows from the one before by its delta, no record shows a scale-down with
\* requests running, and the summary counts agree.
RecordsReplay ==
    /\ violations = 0
    /\ \A i \in DOMAIN records :
          /\ records[i].replicas =
                (IF i = 1 THEN 1 ELSE records[i - 1].replicas) + records[i].delta
          /\ records[i].delta < 0 => records[i].running = 0
    /\ flips = Cardinality({i \in DOMAIN records : records[i].delta # 0})
    /\ records # <<>> => replicas[Colocated] = records[Len(records)].replicas

\* A run that reports has written its records and counted every request it
\* fired, in every phase, answered or failed, but for those that ended
\* with an exception of another kind, which are in no count; exit code 0 means
\* that it has reported, so a run cut short by a scrape never passes for a result.
RequestsAccounted ==
    /\ exit = 0 => summary # NoFile
    /\ summary # NoFile =>
          /\ out = records
          /\ summary.counted + swallowed = total + fired

\* The experiment ends, even against a server that answers nothing.
Ends == <>(pc = "ended")

\* The comment at the end of run_experiment: "Records are the experiment; write
\* them even if a late tick raised."
RecordsWritten == (pc = "ended" /\ records # <<>>) => out = records
=============================================================================
