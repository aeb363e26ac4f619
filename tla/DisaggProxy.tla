---------------------------- MODULE DisaggProxy -----------------------------
(***************************************************************************)
(* The P/D proxy (scripts/disagg_proxy.py) in front of a prefill and a     *)
(* decode pool: every route, with requests interleaved at the awaits of    *)
(* their handlers.  The pools are external; each is in one condition at a  *)
(* time, which may change between any two awaits.                          *)
(***************************************************************************)
EXTENDS Naturals, FiniteSets

CONSTANTS
    Clients,     \* connections of clients
    Probes,      \* connections of the sentinel check (module SentinelDaemon)
    FirstToken,  \* is --assert-first-token-matches set?
    NoKv         \* no kv_transfer_params

ASSUME ProxyAssumption ==
    /\ Clients \cap Probes = {}
    /\ FirstToken \in BOOLEAN
    /\ NoKv \notin Clients \cup Probes

Reqs == Clients \cup Probes

Pools == {"prefill", "decode"}

\* A pool serves, or serves (with 200) something else than it should: other
\* tokens, or a body that is not JSON or not an object.  Or it answers with an
\* error status, or does not answer (refused, or silent past the timeout).
Conditions == {"up", "drifted", "error", "silent"}

Serving == {"up", "drifted"}

Routes == {"generate", "stream", "models", "health", "metrics"}

VARIABLES
    pool,    \* condition of each pool
    req,     \* the handler of each connection
    served,  \* history: pools that served at some moment of the request
    trouble  \* history: was some pool not up at some moment of the request?

proxyVars == <<pool, req, served, trouble>>

\* stage: the await the handler is at.  sent: the KV handle in the decode body,
\* named by the connection whose prefill computed the blocks.  status: what
\* the client got, 0 for nothing yet.  right: is the answer the one the model
\* should give?  probed: code of the first health probe.
Idle == [stage |-> "idle", route |-> "generate", sent |-> NoKv,
         status |-> 0, right |-> TRUE, probed |-> 0]

ServingNow == {p \in Pools : pool[p] \in Serving}

AllUp == \A p \in Pools : pool[p] = "up"

ProxyInit ==
    /\ pool = [p \in Pools |-> "up"]
    /\ req = [r \in Reqs |-> Idle]
    /\ served = [r \in Reqs |-> {}]
    /\ trouble = [r \in Reqs |-> FALSE]

Live(r) == req[r].stage \notin {"idle", "done"}

\* A pool changes condition.
Change(p, c) ==
    /\ c # pool[p] /\ (c = "drifted" => p = "decode")
    /\ pool' = [pool EXCEPT ![p] = c]
    /\ served' = [r \in Reqs |->
          IF Live(r) /\ c \in Serving THEN served[r] \cup {p} ELSE served[r]]
    /\ trouble' = [r \in Reqs |-> IF Live(r) THEN trouble[r] \/ c # "up" ELSE trouble[r]]
    /\ UNCHANGED req

-----------------------------------------------------------------------------
(* Handlers                                                                *)

\* The handler of r moves on.
Becomes(r, h) ==
    /\ req' = [req EXCEPT ![r] = h]
    /\ UNCHANGED <<pool, served, trouble>>

At(r, stage) == req[r].stage = stage

Goto(r, stage) == [req[r] EXCEPT !.stage = stage]

Reply(r, status) == [req[r] EXCEPT !.stage = "done", !.status = status]

\* The code a pool answers with.
Code(p) == IF pool[p] \in Serving THEN 200 ELSE 400

FirstStage(route) ==
    CASE route \in {"generate", "stream"} -> "prefill"
      [] route = "models"  -> "models"
      [] route = "health"  -> "health1"
      [] route = "metrics" -> "metrics1"

Begin(r, route) ==
    /\ At(r, "idle")
    /\ req' = [req EXCEPT ![r] = [Idle EXCEPT !.route = route, !.stage = FirstStage(route)]]
    /\ served' = [served EXCEPT ![r] = ServingNow]
    /\ trouble' = [trouble EXCEPT ![r] = ~ AllUp]
    /\ UNCHANGED pool

\* A body that is not a JSON object: 500 before any pool is contacted.
BadBody(r) ==
    /\ At(r, "idle")
    /\ req' = [req EXCEPT ![r] = [Idle EXCEPT !.stage = "done", !.status = 500]]
    /\ UNCHANGED <<pool, served, trouble>>

\* The response has gone out.
Close(r) ==
    /\ At(r, "done")
    /\ req' = [req EXCEPT ![r] = Idle]
    /\ served' = [served EXCEPT ![r] = {}]
    /\ trouble' = [trouble EXCEPT ![r] = FALSE]
    /\ UNCHANGED pool

\* Mutant: the handle is kept on app.state, and the last one to come wins.
DecodeBodyShared(r, kv) ==
    LET others == {q \in Reqs \ {r} : At(q, "decode") /\ req[q].sent # NoKv}
    IN  IF others # {} THEN CHOOSE q \in others : TRUE ELSE kv

\* _decode_body: the handle of this request's own prefill, or none, in which
\* case decode computes the prefill again.
DecodeBody(r, kv) == kv

\* The prefill stage succeeded.  A streaming client gets its status line now.
PrefillDone(r, kv) ==
    /\ At(r, "prefill") /\ pool["prefill"] \in Serving
    /\ Becomes(r, [req[r] EXCEPT
          !.stage = IF req[r].route = "stream" THEN "relay" ELSE "decode",
          !.status = IF req[r].route = "stream" THEN 200 ELSE 0,
          !.sent = DecodeBody(r, kv)])

\* Its error status is passed on and decode is never contacted, or the call
\* raises.
PrefillFails(r) ==
    /\ At(r, "prefill")
    /\ \/ pool["prefill"] = "error" /\ Becomes(r, Reply(r, 400))
       \/ pool["prefill"] = "silent" /\ Becomes(r, Reply(r, 500))

\* The decode pool reads the blocks of the handle it is given.
RightTokens(r) == pool["decode"] # "drifted" /\ req[r].sent \in {r, NoKv}

DecodeDone(r) ==
    /\ At(r, "decode") /\ pool["decode"] # "silent"
    /\ Becomes(r, [Reply(r, Code("decode")) EXCEPT !.right = RightTokens(r)])

\* The call raises; or the first-token comparison does, on a body that is JSON
\* but not the object it expects.
DecodeRaises(r) ==
    /\ At(r, "decode")
    /\ \/ pool["decode"] = "silent"
       \/ FirstToken /\ pool["decode"] \in {"drifted", "error"}
    /\ Becomes(r, Reply(r, 500))

\* The relay ends: with the answer, with the body of an error, or broken.
RelayEnds(r) ==
    /\ At(r, "relay")
    /\ Becomes(r, [Goto(r, "done") EXCEPT !.right = RightTokens(r)])

\* models(): a 200 is never made up, and a list that is not JSON is a 500.
Models(r) ==
    /\ At(r, "models")
    /\ \/ pool["decode"] \in Serving /\ Becomes(r, Reply(r, 200))
       \/ pool["decode"] = "drifted" /\ Becomes(r, Reply(r, 500))
       \/ pool["decode"] \notin Serving /\ Becomes(r, Reply(r, 502))

\* Mutant: one healthy pool is enough.
HealthStatusAny(first, second) == IF 200 \in {first, second} THEN 200 ELSE 503

HealthStatus(first, second) == IF first = 200 /\ second = 200 THEN 200 ELSE 503

\* health(): the two probes, one after the other.
HealthPrefill(r) ==
    /\ At(r, "health1")
    /\ Becomes(r, [Goto(r, "health2") EXCEPT !.probed = Code("prefill")])

HealthDecode(r) ==
    /\ At(r, "health2")
    /\ Becomes(r, Reply(r, HealthStatus(req[r].probed, Code("decode"))))

\* metrics(): a section per pool, one after the other, and a comment in the
\* place of one that failed: always 200.
MetricsPrefill(r) == At(r, "metrics1") /\ Becomes(r, Goto(r, "metrics2"))

MetricsDecode(r) == At(r, "metrics2") /\ Becomes(r, Reply(r, 200))

Answer(r) ==
    \/ \E kv \in {r, NoKv} : PrefillDone(r, kv)
    \/ PrefillFails(r)
    \/ DecodeDone(r) \/ DecodeRaises(r) \/ RelayEnds(r)
    \/ Models(r)
    \/ HealthPrefill(r) \/ HealthDecode(r)
    \/ MetricsPrefill(r) \/ MetricsDecode(r)

\* Mutant: a call without its timeout.
ProgressUntimed(r) ==
    /\ ~ (At(r, "prefill") /\ pool["prefill"] = "silent")
    /\ Answer(r)

\* The handler of r goes on: its upstream answers or its timeout expires.
Progress(r) == Answer(r)

SomeChange == \E p \in Pools, c \in Conditions : Change(p, c)

SomeClient ==
    \E r \in Clients :
        (\E route \in Routes : Begin(r, route)) \/ BadBody(r) \/ Close(r)

ProxyNext == SomeChange \/ SomeClient \/ \E r \in Reqs : Progress(r)

-----------------------------------------------------------------------------
(* Properties                                                              *)

\* The pools a route speaks for when it says 200.
SpeaksFor(route) ==
    CASE route \in {"generate", "health"} -> Pools
      [] route = "stream"  -> {"prefill"}
      [] route = "models"  -> {"decode"}
      [] route = "metrics" -> {}

\* No route masks an outage: a 200 means that every pool the route speaks for
\* was serving at some moment of that very request, however the pools come and
\* go between the handler's awaits.
OutageShows ==
    \A r \in Reqs : req[r].status = 200 => SpeaksFor(req[r].route) \subseteq served[r]

\* A wrong answer comes from a wrong decode pool, never from the KV blocks of
\* another request that goes through the proxy at the same time.
NoCrossTalk == \A r \in Reqs : ~ req[r].right => trouble[r]

\* Every request is answered, whatever the pools do.
Answered == \A r \in Reqs : Live(r) ~> ~ Live(r)
=============================================================================
