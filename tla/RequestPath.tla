---------------------------- MODULE RequestPath -----------------------------
(***************************************************************************)
(* One trace on its way through the disaggregated topology: the load       *)
(* generator's tasks (loadgen/client.py), the proxy (scripts/              *)
(* disagg_proxy.py) and the gate that judges the run (bench/cell_runner.py, *)
(* core/reconcile.py).                                                     *)
(*                                                                         *)
(* Requests are numbered in trace order.  The client always streams, and   *)
(* one content chunk carries one token.  The prefill and decode servers,   *)
(* the network and the web framework are external: they may fail at every  *)
(* point where the code can see them fail.                                 *)
(***************************************************************************)
EXTENDS Integers, FiniteSets

CONSTANTS
    N,              \* number of requests in the trace
    Arrival,        \* scheduled arrival of each request
    MaxTokens,      \* output_tokens of each request
    PromptTokens,   \* prompt_tokens of each request
    MaxConcurrent,  \* slots of the client's semaphore
    PrefillErrors,  \* statuses a prefill server refuses with
    Threshold,      \* of the reconciliation gate, in percent
    MaxTime         \* bound: the clock is followed up to here

Requests == 1 .. N

ASSUME PathAssumption ==
    /\ N \in Nat \ {0}
    /\ Arrival \in [Requests -> 0 .. MaxTime]
    /\ \A r, s \in Requests : r < s => Arrival[r] <= Arrival[s]
    /\ MaxTokens \in [Requests -> Nat \ {0}]
    /\ PromptTokens \in [Requests -> Nat \ {0}]
    /\ MaxConcurrent \in Nat \ {0}
    /\ PrefillErrors \subseteq 400 .. 598
    /\ Threshold \in 0 .. 99
    /\ MaxTime \in Nat

VARIABLES
    now,    \* the clock arrivals are compared with
    task,   \* where each client task is
    tele,   \* what send_one has recorded for each request
    hop,    \* where each request is in the proxy
    reply,  \* status line the proxy sent, 0 before
    wire,   \* tokens relayed and not yet read
    server  \* decode server: what its counters say of each request

vars == <<now, task, tele, hop, reply, wire, server>>
proxyVars == <<hop, reply, wire, server>>

Telemetry == [status : {0} \cup 100 .. 599, tokens : Nat,
              completed : BOOLEAN, error : BOOLEAN]

Counters == [started : BOOLEAN, tokens : Nat, finished : BOOLEAN]

\* Types; in particular no token is streamed that was not requested.
TypeOK ==
    /\ now \in 0 .. MaxTime
    /\ task \in [Requests -> {"queued", "waiting", "sent", "streaming", "done"}]
    /\ tele \in [Requests -> Telemetry]
    /\ hop \in [Requests -> {"none", "prefill", "refused", "relay", "decode",
                             "ended", "cut"}]
    /\ reply \in [Requests -> {0} \cup 100 .. 599]
    /\ wire \in [Requests -> Nat]
    /\ server \in [Requests -> Counters]
    /\ \A r \in Requests : server[r].tokens <= MaxTokens[r]

Init ==
    /\ now = 0
    /\ task = [r \in Requests |-> "queued"]
    /\ tele = [r \in Requests |-> [status |-> 0, tokens |-> 0,
                                   completed |-> FALSE, error |-> FALSE]]
    /\ hop = [r \in Requests |-> "none"]
    /\ reply = [r \in Requests |-> 0]
    /\ wire = [r \in Requests |-> 0]
    /\ server = [r \in Requests |-> [started |-> FALSE, tokens |-> 0,
                                     finished |-> FALSE]]

Advance ==
    /\ now < MaxTime
    /\ now' = now + 1
    /\ UNCHANGED <<task, tele, proxyVars>>

-----------------------------------------------------------------------------
(* The client                                                              *)

\* Tasks inside `async with self._sem`.
Holders == {r \in Requests : task[r] \notin {"queued", "done"}}

\* Mutant: slots are given to any task.
SlotForAny(r) == Cardinality(Holders) < MaxConcurrent

\* asyncio.Semaphore wakes its waiters in the order they came, which is the
\* order in which run() created the tasks.
SlotFor(r) ==
    /\ Cardinality(Holders) < MaxConcurrent
    /\ \A s \in Requests : s < r => task[s] # "queued"

Acquire(r) ==
    /\ task[r] = "queued"
    /\ SlotFor(r)
    /\ task' = [task EXCEPT ![r] = "waiting"]
    /\ UNCHANGED <<now, tele, proxyVars>>

\* _wait_until is over and the POST is on its way.
Leave(r) ==
    /\ task[r] = "waiting"
    /\ Arrival[r] <= now
    /\ task' = [task EXCEPT ![r] = "sent"]
    /\ hop' = [hop EXCEPT ![r] = "prefill"]
    /\ UNCHANGED <<now, tele, reply, wire, server>>

\* Mutant: a stream that breaks is recorded as complete.
RaisedQuietly(r) ==
    /\ tele' = [tele EXCEPT ![r].status = IF @ = 0 THEN 599 ELSE @,
                            ![r].completed = TRUE]
    /\ task' = [task EXCEPT ![r] = "done"]

\* The record of a request that failed with a status.
Failed(e, status) == [e EXCEPT !.status = status, !.error = TRUE]

\* One of send_one's two except clauses.
Raised(r) ==
    /\ tele' = [tele EXCEPT ![r] = Failed(@, IF @.status = 0 THEN 599 ELSE @.status)]
    /\ task' = [task EXCEPT ![r] = "done"]

\* The connection cannot be made.
ConnectFails(r) ==
    /\ task[r] = "waiting"
    /\ Arrival[r] <= now
    /\ Raised(r)
    /\ UNCHANGED <<now, proxyVars>>

\* Mutant: the timeout is armed by the first byte of the answer.
BreaksStreaming(r) ==
    /\ task[r] = "streaming"
    /\ Raised(r)
    /\ UNCHANGED <<now, proxyVars>>

\* A timeout or a broken connection, before or after the status line.
Breaks(r) ==
    /\ task[r] \in {"sent", "streaming"}
    /\ Raised(r)
    /\ UNCHANGED <<now, proxyVars>>

\* The status line is a failure: the body is read and the request is over.
ReadFailure(r) ==
    /\ task[r] = "sent"
    /\ reply[r] >= 400
    /\ tele' = [tele EXCEPT ![r] = Failed(@, reply[r])]
    /\ task' = [task EXCEPT ![r] = "done"]
    /\ UNCHANGED <<now, proxyVars>>

ReadSuccess(r) ==
    /\ task[r] = "sent"
    /\ reply[r] # 0 /\ reply[r] < 400
    /\ tele' = [tele EXCEPT ![r] = [@ EXCEPT !.status = reply[r]]]
    /\ task' = [task EXCEPT ![r] = "streaming"]
    /\ UNCHANGED <<now, proxyVars>>

\* The stream delivers a token.
ReadToken(r) ==
    /\ task[r] = "streaming"
    /\ wire[r] > 0
    /\ tele' = [tele EXCEPT ![r] = [@ EXCEPT !.tokens = tele[r].tokens + 1]]
    /\ wire' = [wire EXCEPT ![r] = @ - 1]
    /\ UNCHANGED <<now, task, hop, reply, server>>

\* The stream is over.  _next_line turns the RemoteProtocolError of a body that
\* was cut short into the end of the stream.
ReadEnd(r) ==
    /\ task[r] = "streaming"
    /\ wire[r] = 0
    /\ hop[r] \in {"ended", "cut"}
    /\ tele' = [tele EXCEPT ![r] = [@ EXCEPT !.completed = TRUE]]
    /\ task' = [task EXCEPT ![r] = "done"]
    /\ UNCHANGED <<now, proxyVars>>

-----------------------------------------------------------------------------
(* The proxy and its upstreams                                             *)

Answers(r, status, stage) ==
    /\ reply' = [reply EXCEPT ![r] = status]
    /\ hop' = [hop EXCEPT ![r] = stage]

\* The prefill call returns a status of 400 or more, which is passed on, or
\* raises, which the framework turns into a 500.
PrefillFails(r, status) ==
    /\ hop[r] = "prefill"
    /\ Answers(r, status, "refused")
    /\ UNCHANGED <<now, task, tele, wire, server>>

\* The prefill call succeeds: the StreamingResponse sends its status line
\* before relay() has contacted the decode server.
PrefillDone(r) ==
    /\ hop[r] = "prefill"
    /\ Answers(r, 200, "relay")
    /\ UNCHANGED <<now, task, tele, wire, server>>

\* The decode server answers with an error: relay() passes its body on, which
\* holds no event.
DecodeRefuses(r) ==
    /\ hop[r] = "relay"
    /\ hop' = [hop EXCEPT ![r] = "ended"]
    /\ UNCHANGED <<now, task, tele, reply, wire, server>>

DecodeStarts(r) ==
    /\ hop[r] = "relay"
    /\ hop' = [hop EXCEPT ![r] = "decode"]
    /\ server' = [server EXCEPT ![r] = [@ EXCEPT !.started = TRUE]]
    /\ UNCHANGED <<now, task, tele, reply, wire>>

DecodeToken(r) ==
    /\ hop[r] = "decode"
    /\ server[r].tokens < MaxTokens[r]
    /\ server' = [server EXCEPT ![r] = [@ EXCEPT !.tokens = server[r].tokens + 1]]
    /\ wire' = [wire EXCEPT ![r] = @ + 1]
    /\ UNCHANGED <<now, task, tele, hop, reply>>

DecodeEnds(r) ==
    /\ hop[r] = "decode"
    /\ server[r].tokens > 0
    /\ server' = [server EXCEPT ![r] = [@ EXCEPT !.finished = TRUE]]
    /\ hop' = [hop EXCEPT ![r] = "ended"]
    /\ UNCHANGED <<now, task, tele, reply, wire>>

\* relay() raises or is cancelled (the decode server or the client is gone, the
\* proxy dies): the body is cut short and what was not delivered is lost.
RelayBreaks(r) ==
    /\ hop[r] \in {"relay", "decode"}
    /\ hop' = [hop EXCEPT ![r] = "cut"]
    /\ \E left \in 0 .. wire[r] : wire' = [wire EXCEPT ![r] = left]
    /\ UNCHANGED <<now, task, tele, reply, server>>

-----------------------------------------------------------------------------

Client(r) ==
    \/ Acquire(r) \/ Leave(r) \/ ConnectFails(r) \/ Breaks(r)
    \/ ReadFailure(r) \/ ReadSuccess(r) \/ ReadToken(r) \/ ReadEnd(r)

Proxy(r) ==
    \/ \E status \in PrefillErrors \cup {500} : PrefillFails(r, status)
    \/ PrefillDone(r)
    \/ DecodeRefuses(r) \/ DecodeStarts(r) \/ DecodeToken(r) \/ DecodeEnds(r)
    \/ RelayBreaks(r)

AllDone == \A r \in Requests : task[r] = "done"

\* gather() has returned; a request the proxy still works on is nobody's.
Finished == AllDone /\ UNCHANGED vars

Next ==
    \/ Advance
    \/ \E r \in Requests : Client(r) \/ Proxy(r)
    \/ Finished

Spec == Init /\ [][Next]_vars

\* The event loop runs every task that can run; a request that hears nothing
\* runs into the client's timeout (Breaks).
FairSpec == Spec /\ WF_vars(Advance) /\ \A r \in Requests : WF_vars(Client(r))

-----------------------------------------------------------------------------
(* The verdict                                                             *)

\* The sum of f over the trace: the number of tokens, each one named by its
\* request and its place in it.
Total(f(_)) == Cardinality(UNION {{r} \X (1 .. f(r)) : r \in Requests})

Successes == {r \in Requests : tele[r].status = 200}

\* Requests vllm:request_success_total counts.
Served == {r \in Requests : server[r].finished}

\* The requests behind the server's total: those that are over, well or badly
\* (the end-to-end latency's count), or while that is 0 those with a first token.
Counted ==
    LET over == {r \in Requests : server[r].started /\ hop[r] \in {"ended", "cut"}}
    IN  IF over # {} THEN over ELSE {r \in Requests : server[r].tokens > 0}

\* vllm_request_counts: a success counter at 0 counts as missing, and the total
\* takes its place.
ServerSuccesses == IF Served # {} THEN Served ELSE Counted

\* _delta_pct(client, server) <= Threshold
Agree(client, srv) ==
    LET diff == IF client > srv THEN client - srv ELSE srv - client
    IN  diff * 100 <= Threshold * (IF srv > 1 THEN srv ELSE 1)

\* Mutant: completion tokens are not compared.
ReconcilesWithoutTokens ==
    /\ Agree(Cardinality(Successes), Cardinality(ServerSuccesses))
    /\ Agree(Total(LAMBDA r : PromptTokens[r]),
             Total(LAMBDA r : IF server[r].started THEN PromptTokens[r] ELSE 0))

\* reconcile(...).gate_passes() on a scrape of the decode server; the
\* comparison of mean latencies is left out.
Reconciles ==
    /\ Agree(Cardinality(Successes), Cardinality(ServerSuccesses))
    /\ Agree(Total(LAMBDA r : PromptTokens[r]),
             Total(LAMBDA r : IF server[r].started THEN PromptTokens[r] ELSE 0))
    /\ Agree(Total(LAMBDA r : tele[r].tokens), Total(LAMBDA r : server[r].tokens))

\* The flag reconcile_passes of the cell's JSON.
CellReconciles == Cardinality(Successes) * 100 >= 99 * N

-----------------------------------------------------------------------------
(* Properties                                                              *)

\* The gate of core/reconcile.py cannot be fooled by failures that cancel out:
\* if the totals leave no room for drift, the client read every token that the
\* server generated, request by request; and if the server has counted a success
\* at all, the client counted one exactly where the server did.  Without any the
\* totals say no more: vllm_request_counts takes another counter.
GateIsSound ==
    (AllDone /\ Reconciles /\ Total(LAMBDA r : server[r].tokens) * Threshold < 100) =>
        /\ \A r \in Requests : tele[r].tokens = server[r].tokens
        /\ Served # {} =>
              \A r \in Requests : (tele[r].status = 200) = server[r].finished

\* A request that is due waits for a slot only while every slot is held by a
\* request that is due as well: no slot idles in _wait_until, so the load stays
\* open-loop up to max_concurrent.
DueRequestsHaveSlots ==
    \A r, s \in Requests :
        (task[r] = "queued" /\ Arrival[r] <= now /\ task[s] = "waiting") =>
            Arrival[s] <= now

\* A telemetry record is one of four: complete without error, refused with the
\* proxy's status and no token, broken mid-stream with status 200, or never
\* answered (599, no token).  At no time does it count a token that the decode
\* server did not stream.
TelemetryConsistent ==
    \A r \in Requests :
        /\ tele[r].tokens + wire[r] <= server[r].tokens
        /\ task[r] = "done" =>
              /\ tele[r].completed # tele[r].error
              /\ tele[r].completed => tele[r].status = 200
              /\ tele[r].status # 200 => tele[r].tokens = 0
              /\ tele[r].status \in {reply[r], 599}

\* Every request of the trace ends in a telemetry record, whatever the servers,
\* the network and the proxy do.
Terminates == <>AllDone

\* "success_count comes from vllm:request_success_total when present": a gate that
\* passes has not counted a success where the server finished nothing.
SuccessesAreServed ==
    (AllDone /\ Reconciles /\ Successes # {}) => Served # {}

\* README: the gate "compares load-generator telemetry against vLLM's /metrics
\* and rejects runs with more than 2% drift".
ReconciledMeansNoDrift == (AllDone /\ CellReconciles) => Reconciles
=============================================================================
