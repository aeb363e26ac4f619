---------------------------- MODULE DisaggProofs ----------------------------
(***************************************************************************)
(* Proofs about the proxy and the sentinel daemon, for any number of       *)
(* clients and probes.                                                     *)
(*                                                                         *)
(* The invariant is one predicate of a handler, Sound.  It adds to the     *)
(* properties what a handler knows between two awaits: a pool that serves  *)
(* now is on record for every live request, and so is one that served when *)
(* an earlier await of the request returned.                               *)
(***************************************************************************)
EXTENDS SentinelDaemon, TLAPS

LiveStages == {"prefill", "decode", "relay", "models", "health1", "health2",
               "metrics1", "metrics2"}
Stages   == LiveStages \cup {"idle", "done"}
Statuses == {0, 200, 400, 500, 502, 503}
Codes    == {0, 200, 400}

Handlers ==
    [stage : Stages, route : Routes, sent : Reqs \cup {NoKv}, status : Statuses,
     right : BOOLEAN, probed : Codes]

\* The routes whose handler can be at an await.
Fits(h) ==
    /\ h.stage = "prefill" => h.route \in {"generate", "stream"}
    /\ h.stage = "decode" => h.route = "generate"
    /\ h.stage = "relay" => h.route = "stream"
    /\ h.stage = "models" => h.route = "models"
    /\ h.stage \in {"health1", "health2"} => h.route = "health"
    /\ h.stage \in {"metrics1", "metrics2"} => h.route = "metrics"

\* What the history records of a live request.
OnRecord(sv, tr) ==
    /\ \A p \in Pools : pool[p] \in Serving => p \in sv
    /\ (\E p \in Pools : pool[p] # "up") => tr

\* Handler h of request r, with its history.
Sound(r, h, sv, tr) ==
    /\ h \in Handlers /\ sv \in SUBSET Pools /\ tr \in BOOLEAN
    /\ Fits(h)
    /\ h.stage \in LiveStages => OnRecord(sv, tr)
    /\ h.stage \in {"decode", "relay"} => "prefill" \in sv
    /\ h.stage = "health2" /\ h.probed = 200 => "prefill" \in sv
    /\ h.sent \in {r, NoKv}
    /\ h.status = 200 => SpeaksFor(h.route) \subseteq sv
    /\ ~ h.right => tr
    /\ r \in Probes => /\ h.route = "generate"
                       /\ h.stage = "done" /\ h.status # 200 => tr

ProxyInv ==
    /\ pool \in [Pools -> Conditions]
    /\ req \in [Reqs -> Handlers]
    /\ served \in [Reqs -> SUBSET Pools]
    /\ trouble \in [Reqs -> BOOLEAN]
    /\ \A r \in Reqs : Sound(r, req[r], served[r], trouble[r])

\* The daemon checks on a probe's connection.
DaemonInv == daemon = "checking" => check \in Probes

-----------------------------------------------------------------------------
(* Lemmas                                                                  *)

\* A step that leaves the pools alone and gives r a sound handler and history
\* keeps the invariant.
LEMMA OneHandlerMoves ==
    ASSUME ProxyInv, NEW r \in Reqs, NEW h, NEW sv, NEW tr,
           pool' = pool,
           req' = [req EXCEPT ![r] = h],
           served' = [served EXCEPT ![r] = sv],
           trouble' = [trouble EXCEPT ![r] = tr],
           Sound(r, h, sv, tr)
    PROVE  ProxyInv'
  <1>1. h \in Handlers /\ sv \in SUBSET Pools /\ tr \in BOOLEAN
    BY DEF Sound
  <1>2. /\ pool' \in [Pools -> Conditions]
        /\ req' \in [Reqs -> Handlers]
        /\ served' \in [Reqs -> SUBSET Pools]
        /\ trouble' \in [Reqs -> BOOLEAN]
    BY <1>1 DEF ProxyInv
  <1>3. ASSUME NEW q \in Reqs
        PROVE  Sound(q, req[q], served[q], trouble[q])'
    <2>1. Sound(q, req'[q], served'[q], trouble'[q])
      <3>1. CASE q = r
        <4>1. req'[q] = h /\ served'[q] = sv /\ trouble'[q] = tr
          BY <3>1 DEF ProxyInv
        <4>2. QED  BY <3>1, <4>1
      <3>2. CASE q # r
        <4>1. req'[q] = req[q] /\ served'[q] = served[q] /\ trouble'[q] = trouble[q]
          BY <3>2 DEF ProxyInv
        <4>2. QED  BY <4>1 DEF ProxyInv
      <3>3. QED  BY <3>1, <3>2
    <2>2. QED  BY <2>1 DEF Sound, OnRecord
  <1>4. QED  BY <1>2, <1>3 DEF ProxyInv

\* The same for a step that leaves the history alone too.
LEMMA HandlerBecomes ==
    ASSUME ProxyInv, NEW r \in Reqs, NEW h, Becomes(r, h),
           Sound(r, h, served[r], trouble[r])
    PROVE  ProxyInv'
  <1>1. /\ served' = [served EXCEPT ![r] = served[r]]
        /\ trouble' = [trouble EXCEPT ![r] = trouble[r]]
    BY DEF Becomes, ProxyInv
  <1>2. pool' = pool /\ req' = [req EXCEPT ![r] = h]
    BY DEF Becomes
  <1>3. QED  BY <1>1, <1>2, OneHandlerMoves

\* What the invariant says of a live handler.
LEMMA LiveHandler ==
    ASSUME ProxyInv, NEW r \in Reqs
    PROVE  /\ Sound(r, req[r], served[r], trouble[r])
           /\ req[r] \in Handlers /\ served[r] \in SUBSET Pools /\ trouble[r] \in BOOLEAN
           /\ \A p \in Pools : pool[p] \in Conditions
           /\ req[r].stage \in LiveStages =>
                 /\ \A p \in Pools : pool[p] \in Serving => p \in served[r]
                 /\ \A p \in Pools : pool[p] # "up" => trouble[r]
  BY DEF ProxyInv, Sound, OnRecord

\* The stages and status codes the code writes are of their types.
LEMMA Literals ==
    /\ {"done", "decode", "relay", "health2", "metrics2"} \subseteq Stages
    /\ {0, 200, 400, 500, 502, 503} \subseteq Statuses
    /\ {200, 400} \subseteq Codes
  BY DEF Stages, LiveStages, Statuses, Codes

\* A reply ends the handler with its status and changes nothing else.
LEMMA ReplyFields ==
    ASSUME NEW r, req[r] \in Handlers, NEW status \in Statuses
    PROVE  /\ Reply(r, status) \in Handlers
           /\ Reply(r, status).stage = "done" /\ Reply(r, status).status = status
           /\ Reply(r, status).route = req[r].route
           /\ Reply(r, status).sent = req[r].sent
           /\ Reply(r, status).right = req[r].right
           /\ Reply(r, status).probed = req[r].probed
  <1>1. "done" \in Stages  BY Literals
  <1>2. QED  BY <1>1 DEF Reply, Handlers

\* Goto moves the handler to its next await and changes nothing else.
LEMMA GotoFields ==
    ASSUME NEW r, req[r] \in Handlers, NEW stage \in Stages
    PROVE  /\ Goto(r, stage) \in Handlers
           /\ Goto(r, stage).stage = stage /\ Goto(r, stage).status = req[r].status
           /\ Goto(r, stage).route = req[r].route
           /\ Goto(r, stage).sent = req[r].sent
           /\ Goto(r, stage).right = req[r].right
           /\ Goto(r, stage).probed = req[r].probed
  BY DEF Goto, Handlers

\* The verdict on the tokens changes no other field.
LEMMA RightField ==
    ASSUME NEW h \in Handlers, NEW right \in BOOLEAN,
           NEW g, g = [h EXCEPT !.right = right]
    PROVE  /\ g \in Handlers /\ g.right = right
           /\ g.stage = h.stage /\ g.status = h.status /\ g.route = h.route
           /\ g.sent = h.sent /\ g.probed = h.probed
  BY DEF Handlers

\* Every step of a handler keeps the invariant.
LEMMA HandlersStaySound ==
    ASSUME ProxyInv, NEW r \in Reqs, Progress(r)
    PROVE  ProxyInv'
  <1> DEFINE h == req[r]  sv == served[r]  tr == trouble[r]
  <1>0. /\ Sound(r, h, sv, tr)
        /\ h \in Handlers /\ sv \in SUBSET Pools /\ tr \in BOOLEAN
        /\ h.stage \in LiveStages => OnRecord(sv, tr)
        /\ h.stage \in LiveStages =>
              /\ pool["prefill"] \in Serving => "prefill" \in sv
              /\ pool["decode"] \in Serving => "decode" \in sv
              /\ pool["prefill"] # "up" => tr
              /\ pool["decode"] # "up" => tr
    BY LiveHandler DEF Pools, Sound
  <1>1. ASSUME NEW kv \in {r, NoKv}, PrefillDone(r, kv)
        PROVE  ProxyInv'
    <2> DEFINE stage  == IF h.route = "stream" THEN "relay" ELSE "decode"
               status == IF h.route = "stream" THEN 200 ELSE 0
               g == [h EXCEPT !.stage = stage, !.status = status, !.sent = kv]
    <2>1. Becomes(r, g)  BY <1>1 DEF PrefillDone, DecodeBody
    <2>2. h.stage = "prefill" /\ pool["prefill"] \in Serving
      BY <1>1 DEF PrefillDone, At
    <2>3. h.route \in {"generate", "stream"} /\ "prefill" \in sv
      BY <1>0, <2>2 DEF Sound, Fits, LiveStages
    <2>4. /\ g \in Handlers /\ g.route = h.route /\ g.sent = kv
          /\ g.right = h.right /\ g.probed = h.probed
          /\ \/ g.stage = "relay" /\ g.route = "stream" /\ g.status = 200
             \/ g.stage = "decode" /\ g.route = "generate" /\ g.status = 0
      <3>1. stage \in Stages /\ status \in Statuses /\ kv \in Reqs \cup {NoKv}
        BY <1>1, Literals
      <3>2. \/ stage = "relay" /\ h.route = "stream" /\ status = 200
            \/ stage = "decode" /\ h.route = "generate" /\ status = 0
        BY <2>3
      <3>3. /\ g \in Handlers
            /\ g.stage = stage /\ g.status = status /\ g.sent = kv
            /\ g.route = h.route /\ g.right = h.right /\ g.probed = h.probed
        <4>1. g = [h EXCEPT !.stage = stage, !.status = status, !.sent = kv]
          OBVIOUS
        <4>2. h \in Handlers  BY <1>0
        <4> HIDE DEF g, h, stage, status
        <4>3. QED  BY <3>1, <4>1, <4>2 DEF Handlers
      <3> HIDE DEF g, h, stage, status
      <3>4. QED  BY <3>2, <3>3
    <2>5. Sound(r, g, sv, tr)
      <3> HIDE DEF g
      <3>1. QED
        BY <1>0, <1>1, <2>2, <2>3, <2>4 DEF Sound, Fits, LiveStages, SpeaksFor
    <2>6. QED  BY <2>1, <2>5, HandlerBecomes
  <1>2. CASE PrefillFails(r)
    <2>1. h.stage = "prefill" /\ pool["prefill"] # "up"
      BY <1>2 DEF PrefillFails, At
    <2>2. PICK code \in {400, 500} : Becomes(r, Reply(r, code))
      BY <1>2 DEF PrefillFails
    <2>3. Sound(r, Reply(r, code), sv, tr)
      BY <1>0, <2>1, ReplyFields, Literals DEF Sound, Fits, LiveStages
    <2>4. QED  BY <2>2, <2>3, HandlerBecomes
  <1>3. CASE DecodeDone(r)
    <2> DEFINE a == Reply(r, Code("decode"))
               g == [a EXCEPT !.right = RightTokens(r)]
    <2>1. h.stage = "decode" /\ Becomes(r, g)
      BY <1>3 DEF DecodeDone, At
    <2>2. /\ Code("decode") \in {200, 400}
          /\ Code("decode") = 200 => pool["decode"] \in Serving
          /\ Code("decode") # 200 => pool["decode"] # "up"
      BY DEF Code, Serving
    <2>3. RightTokens(r) \in BOOLEAN /\ (~ RightTokens(r) => pool["decode"] # "up")
      BY <1>0 DEF RightTokens, Sound
    <2>4. /\ g \in Handlers /\ g.stage = "done" /\ g.status = Code("decode")
          /\ g.route = h.route /\ g.sent = h.sent /\ g.right = RightTokens(r)
      <3>1. a \in Handlers /\ a.stage = "done" /\ a.status = Code("decode")
            /\ a.route = h.route /\ a.sent = h.sent
        BY <1>0, <2>2, ReplyFields, Literals
      <3> HIDE DEF a
      <3>2. QED  BY <2>3, <3>1, RightField
    <2>5. Sound(r, g, sv, tr)
      <3> HIDE DEF g
      <3>1. QED
        BY <1>0, <2>1, <2>2, <2>3, <2>4 DEF Sound, Fits, LiveStages, SpeaksFor, Pools
    <2>6. QED  BY <2>1, <2>5, HandlerBecomes
  <1>4. CASE DecodeRaises(r)
    <2>1. h.stage = "decode" /\ pool["decode"] # "up" /\ Becomes(r, Reply(r, 500))
      BY <1>4 DEF DecodeRaises, At
    <2>2. Sound(r, Reply(r, 500), sv, tr)
      BY <1>0, <2>1, ReplyFields, Literals DEF Sound, Fits, LiveStages
    <2>3. QED  BY <2>1, <2>2, HandlerBecomes
  <1>5. CASE RelayEnds(r)
    <2> DEFINE a == Goto(r, "done")
               g == [a EXCEPT !.right = RightTokens(r)]
    <2>1. h.stage = "relay" /\ h.route = "stream" /\ Becomes(r, g)
      BY <1>0, <1>5 DEF RelayEnds, At, Sound, Fits
    <2>2. RightTokens(r) \in BOOLEAN /\ (~ RightTokens(r) => pool["decode"] # "up")
      BY <1>0 DEF RightTokens, Sound
    <2>3. /\ g \in Handlers /\ g.stage = "done" /\ g.status = h.status
          /\ g.route = h.route /\ g.sent = h.sent /\ g.right = RightTokens(r)
      <3>1. a \in Handlers /\ a.stage = "done" /\ a.status = h.status
            /\ a.route = h.route /\ a.sent = h.sent
        BY <1>0, GotoFields, Literals
      <3> HIDE DEF a
      <3>2. QED  BY <2>2, <3>1, RightField
    <2>4. Sound(r, g, sv, tr)
      <3> HIDE DEF g
      <3>1. QED  BY <1>0, <2>1, <2>2, <2>3 DEF Sound, Fits, LiveStages
    <2>5. QED  BY <2>1, <2>4, HandlerBecomes
  <1>6. CASE Models(r)
    <2>1. h.stage = "models" /\ h.route = "models"
      BY <1>0, <1>6 DEF Models, At, Sound, Fits
    <2>2. PICK code \in {200, 500, 502} :
            Becomes(r, Reply(r, code)) /\ (code = 200 => pool["decode"] \in Serving)
      BY <1>6 DEF Models
    <2>3. Sound(r, Reply(r, code), sv, tr)
      BY <1>0, <2>1, <2>2, ReplyFields, Literals DEF Sound, Fits, LiveStages, SpeaksFor
    <2>4. QED  BY <2>2, <2>3, HandlerBecomes
  <1>7. CASE HealthPrefill(r)
    <2> DEFINE a == Goto(r, "health2")
               g == [a EXCEPT !.probed = Code("prefill")]
    <2>1. h.stage = "health1" /\ h.route = "health" /\ Becomes(r, g)
      BY <1>0, <1>7 DEF HealthPrefill, At, Sound, Fits
    <2>2. /\ Code("prefill") \in {200, 400}
          /\ Code("prefill") = 200 => pool["prefill"] \in Serving
      BY DEF Code
    <2>3. /\ g \in Handlers /\ g.stage = "health2" /\ g.status = h.status
          /\ g.route = h.route /\ g.sent = h.sent /\ g.right = h.right
          /\ g.probed = Code("prefill")
      <3>1. a \in Handlers /\ a.stage = "health2" /\ a.status = h.status
            /\ a.route = h.route /\ a.sent = h.sent /\ a.right = h.right
        BY <1>0, GotoFields, Literals
      <3>2. Code("prefill") \in Codes  BY <2>2, Literals
      <3> HIDE DEF a
      <3>3. QED  BY <3>1, <3>2 DEF Handlers
    <2>4. Sound(r, g, sv, tr)
      <3> HIDE DEF g
      <3>1. QED  BY <1>0, <2>1, <2>2, <2>3 DEF Sound, Fits, LiveStages
    <2>5. QED  BY <2>1, <2>4, HandlerBecomes
  <1>8. CASE HealthDecode(r)
    <2> DEFINE code == HealthStatus(h.probed, Code("decode"))
    <2>1. h.stage = "health2" /\ h.route = "health" /\ Becomes(r, Reply(r, code))
      BY <1>0, <1>8 DEF HealthDecode, At, Sound, Fits
    <2>2. /\ code \in {200, 503}
          /\ code = 200 => h.probed = 200 /\ pool["decode"] \in Serving
      BY DEF HealthStatus, Code
    <2>3. Sound(r, Reply(r, code), sv, tr)
      <3> HIDE DEF code
      <3>1. QED
        BY <1>0, <2>1, <2>2, ReplyFields, Literals
           DEF Sound, Fits, LiveStages, SpeaksFor, Pools
    <2>4. QED  BY <2>1, <2>3, HandlerBecomes
  <1>9. CASE MetricsPrefill(r)
    <2>1. h.stage = "metrics1" /\ h.route = "metrics" /\ Becomes(r, Goto(r, "metrics2"))
      BY <1>0, <1>9 DEF MetricsPrefill, At, Sound, Fits
    <2>2. Sound(r, Goto(r, "metrics2"), sv, tr)
      BY <1>0, <2>1, GotoFields, Literals DEF Sound, Fits, LiveStages
    <2>3. QED  BY <2>1, <2>2, HandlerBecomes
  <1>10. CASE MetricsDecode(r)
    <2>1. h.stage = "metrics2" /\ h.route = "metrics" /\ Becomes(r, Reply(r, 200))
      BY <1>0, <1>10 DEF MetricsDecode, At, Sound, Fits
    <2>2. Sound(r, Reply(r, 200), sv, tr)
      BY <1>0, <2>1, ReplyFields, Literals DEF Sound, Fits, LiveStages, SpeaksFor
    <2>3. QED  BY <2>1, <2>2, HandlerBecomes
  <1>11. QED
    BY <1>1, <1>2, <1>3, <1>4, <1>5, <1>6, <1>7, <1>8, <1>9, <1>10 DEF Progress, Answer

\* A connection that carries no request is sound with an empty history.
LEMMA IdleIsSound ==
    ASSUME NEW r \in Reqs
    PROVE  Sound(r, Idle, {}, FALSE)
  <1>1. /\ Idle \in Handlers /\ Idle.stage = "idle" /\ Idle.route = "generate"
        /\ Idle.sent = NoKv /\ Idle.status = 0 /\ Idle.right = TRUE
    BY DEF Idle, Handlers, Stages, Routes, Statuses, Codes
  <1>2. QED  BY <1>1 DEF Sound, Fits, LiveStages

\* A request comes in; the sentinel's are completions.
LEMMA BeginKeeps ==
    ASSUME ProxyInv, NEW r \in Reqs, NEW route \in Routes, Begin(r, route),
           r \in Probes => route = "generate"
    PROVE  ProxyInv'
  <1> DEFINE stage == FirstStage(route)
             g == [Idle EXCEPT !.route = route, !.stage = stage]
  <1>1. stage \in LiveStages
        /\ (route \in {"generate", "stream"} => stage = "prefill")
        /\ (route = "models" => stage = "models")
        /\ (route = "health" => stage = "health1")
        /\ (route = "metrics" => stage = "metrics1")
    BY DEF FirstStage, Routes, LiveStages
  <1>2. stage \in Stages  BY <1>1 DEF Stages
  <1>3. /\ g \in Handlers /\ g.stage = stage /\ g.route = route
        /\ g.sent = NoKv /\ g.status = 0 /\ g.right = TRUE
    <2> HIDE DEF stage
    <2>1. QED  BY <1>2 DEF Idle, Handlers, Statuses, Codes
  <1>4. ServingNow \in SUBSET Pools /\ (~ AllUp) \in BOOLEAN
        /\ OnRecord(ServingNow, ~ AllUp)
    BY DEF ServingNow, AllUp, OnRecord
  <1>5. Sound(r, g, ServingNow, ~ AllUp)
    <2> HIDE DEF g, stage
    <2>1. QED  BY <1>1, <1>3, <1>4 DEF Sound, Fits, LiveStages, Routes
  <1>6. QED  BY <1>5, OneHandlerMoves DEF Begin

\* A body that cannot be parsed, on a client's connection.
LEMMA BadBodyKeeps ==
    ASSUME ProxyInv, NEW r \in Clients, BadBody(r)
    PROVE  ProxyInv'
  <1> DEFINE g == [Idle EXCEPT !.stage = "done", !.status = 500]
  <1>0. r \in Reqs /\ r \notin Probes  BY ProxyAssumption DEF Reqs
  <1>1. /\ g \in Handlers /\ g.stage = "done" /\ g.route = "generate"
        /\ g.sent = NoKv /\ g.status = 500 /\ g.right = TRUE
    BY DEF Idle, Handlers, Stages, Routes, Statuses, Codes
  <1>2. Sound(r, g, served[r], trouble[r])
    <2>1. served[r] \in SUBSET Pools /\ trouble[r] \in BOOLEAN
      BY <1>0 DEF ProxyInv
    <2> HIDE DEF g
    <2>2. QED  BY <1>0, <1>1, <2>1 DEF Sound, Fits, LiveStages
  <1>3. Becomes(r, g)  BY DEF BadBody, Becomes
  <1>4. QED  BY <1>0, <1>2, <1>3, HandlerBecomes

\* A connection closes.
LEMMA CloseKeeps ==
    ASSUME ProxyInv, NEW r \in Reqs, Close(r)
    PROVE  ProxyInv'
  BY IdleIsSound, OneHandlerMoves DEF Close

\* A pool changes condition: the history of every live request follows.
LEMMA ChangeKeeps ==
    ASSUME ProxyInv, NEW p \in Pools, NEW c \in Conditions, Change(p, c)
    PROVE  ProxyInv'
  <1>1. /\ pool' \in [Pools -> Conditions]
        /\ pool' = [pool EXCEPT ![p] = c] /\ req' = req
    BY DEF Change, ProxyInv
  <1>2. ASSUME NEW r \in Reqs
        PROVE  /\ served'[r] = IF Live(r) /\ c \in Serving THEN served[r] \cup {p}
                               ELSE served[r]
               /\ trouble'[r] = IF Live(r) THEN trouble[r] \/ c # "up" ELSE trouble[r]
    BY <1>2 DEF Change
  <1>3. ASSUME NEW r \in Reqs
        PROVE  /\ served'[r] \in SUBSET Pools /\ trouble'[r] \in BOOLEAN
               /\ served[r] \subseteq served'[r] /\ (trouble[r] => trouble'[r])
    BY <1>2, <1>3 DEF ProxyInv
  <1>4. /\ served' \in [Reqs -> SUBSET Pools]
        /\ trouble' \in [Reqs -> BOOLEAN]
    <2>1. /\ served' = [r \in Reqs |-> served'[r]]
          /\ trouble' = [r \in Reqs |-> trouble'[r]]
      BY DEF Change
    <2>2. QED  BY <1>3, <2>1
  <1>5. ASSUME NEW r \in Reqs
        PROVE  Sound(r, req[r], served[r], trouble[r])'
    <2> DEFINE h == req[r]
    <2>1. Sound(r, h, served[r], trouble[r])  BY DEF ProxyInv
    <2>2. h.stage \in LiveStages => OnRecord(served[r], trouble[r])'
      <3> SUFFICES ASSUME h.stage \in LiveStages
                   PROVE  OnRecord(served[r], trouble[r])'
        OBVIOUS
      <3>1. Live(r)  BY DEF Live, LiveStages
      <3>2. OnRecord(served[r], trouble[r])  BY <2>1 DEF Sound
      <3>3. ASSUME NEW q \in Pools, pool'[q] \in Serving
            PROVE  q \in served'[r]
        BY <1>1, <1>2, <3>1, <3>2, <3>3 DEF OnRecord, ProxyInv
      <3>4. ASSUME NEW q \in Pools, pool'[q] # "up"
            PROVE  trouble'[r]
        BY <1>1, <1>2, <3>1, <3>2, <3>4 DEF OnRecord, ProxyInv
      <3>5. QED  BY <3>3, <3>4 DEF OnRecord
    <2>3. QED  BY <1>1, <1>3, <2>1, <2>2 DEF Sound
  <1>6. QED  BY <1>1, <1>4, <1>5 DEF ProxyInv

-----------------------------------------------------------------------------
(* Theorems                                                                *)

\* The invariant is inductive.
LEMMA InvariantHolds == Spec => [](ProxyInv /\ DaemonInv)
  <1>1. Init => ProxyInv /\ DaemonInv
    <2> SUFFICES ASSUME Init PROVE ProxyInv /\ DaemonInv
      OBVIOUS
    <2>1. \A r \in Reqs : Idle \in Handlers /\ Sound(r, Idle, {}, FALSE)
      BY IdleIsSound DEF Sound
    <2>2. QED  BY <2>1 DEF Init, ProxyInit, ProxyInv, DaemonInv, Conditions
  <1>2. ProxyInv /\ DaemonInv /\ [Next]_vars => ProxyInv' /\ DaemonInv'
    <2> SUFFICES ASSUME ProxyInv, DaemonInv, [Next]_vars
                 PROVE  ProxyInv' /\ DaemonInv'
      OBVIOUS
    <2>1. CASE Environment
      <3>1. DaemonInv'  BY <2>1 DEF Environment, DaemonInv
      <3>2. CASE SomeChange  BY <3>1, <3>2, ChangeKeeps DEF SomeChange
      <3>3. CASE SomeClient
        <4>1. Clients \subseteq Reqs /\ Clients \cap Probes = {}
          BY ProxyAssumption DEF Reqs
        <4>2. QED
          BY <3>1, <3>3, <4>1, BeginKeeps, BadBodyKeeps, CloseKeeps DEF SomeClient
      <3>4. QED  BY <2>1, <3>2, <3>3 DEF Environment
    <2>2. CASE RequestStop \/ ChangeFixture \/ NoFixture \/ GiveUp \/ Wake \/ Stop
               \/ UNCHANGED vars
      <3>1. UNCHANGED proxyVars
        BY <2>2 DEF RequestStop, ChangeFixture, NoFixture, GiveUp, Wake, Stop, vars
      <3>2. ProxyInv'
        BY <3>1 DEF proxyVars, ProxyInv, Sound, OnRecord
      <3>3. DaemonInv'
        BY <2>2
           DEF RequestStop, ChangeFixture, NoFixture, GiveUp, Set, Wake, Wakes, Stop,
               vars, DaemonInv
      <3>4. QED  BY <3>2, <3>3
    <2>3. ASSUME NEW r \in Probes, StartCheck(r)
          PROVE  ProxyInv' /\ DaemonInv'
      BY <2>3, BeginKeeps DEF StartCheck, Reqs, Routes, DaemonInv
    <2>4. CASE EndCheck
      BY <2>4, CloseKeeps DEF EndCheck, Set, DaemonInv, Reqs
    <2>5. ASSUME NEW r \in Reqs, Proxy(r)
          PROVE  ProxyInv' /\ DaemonInv'
      BY <2>5, HandlersStaySound DEF Proxy, DaemonInv
    <2>6. ASSUME NEW r \in Probes, Abandoned(r)
          PROVE  ProxyInv' /\ DaemonInv'
      BY <2>6, CloseKeeps DEF Abandoned, DaemonInv, Reqs
    <2>7. QED
      BY <2>1, <2>2, <2>3, <2>4, <2>5, <2>6 DEF Next, Daemon
  <1>3. QED  BY <1>1, <1>2, PTL DEF Spec

\* No route of the proxy masks an outage, however the pools come and go between
\* the awaits of a handler, for any number of concurrent requests.
THEOREM OutagesShow == Spec => []OutageShows
  <1>1. ProxyInv => OutageShows
    BY DEF ProxyInv, Sound, OutageShows
  <1>2. QED  BY <1>1, InvariantHolds, PTL

\* No request is answered from the KV blocks of another: a wrong answer has a pool
\* that was not up while the request ran.
THEOREM HandlesDoNotCross == Spec => []NoCrossTalk
  <1>1. ProxyInv => NoCrossTalk
    BY DEF ProxyInv, Sound, NoCrossTalk
  <1>2. QED  BY <1>1, InvariantHolds, PTL

\* The sentinel's gauge is set to 0 only by a check during which both pools
\* served; an answer sets it to 1 only if a pool was not up while the check ran,
\* and a round without a request only for want of a fixture.
THEOREM GaugeIsJustified == Spec => GaugeJustified
  <1>1. ProxyInv /\ DaemonInv /\ [Next]_vars => [Justified]_vars
    <2> SUFFICES ASSUME ProxyInv, DaemonInv, Next,
                        daemon \in {"ready", "checking"}, daemon' = "sleeping"
                 PROVE  /\ gauge' = 0 => check \in Probes /\ served[check] = Pools
                        /\ gauge' = 1 /\ req' # req => trouble[check]
                        /\ gauge' = 1 /\ check = NoCheck => ~ fixture
      BY DEF Justified
    <2>1. EndCheck \/ GiveUp \/ NoFixture
      BY DEF Next, Environment, ChangeFixture, RequestStop, Daemon, StartCheck, Wake,
             Wakes, Stop, Proxy, Abandoned
    <2>2. CASE NoFixture
      BY <2>2 DEF NoFixture, Set, proxyVars
    <2>3. CASE GiveUp
      <3>1. check # NoCheck  BY <2>3, DaemonAssumption DEF GiveUp, DaemonInv, Reqs
      <3>2. QED  BY <2>3, <3>1 DEF GiveUp, Set, proxyVars
    <2>4. CASE EndCheck
      <3>1. check \in Probes /\ check \in Reqs /\ check # NoCheck
        BY <2>4, DaemonAssumption DEF EndCheck, DaemonInv, Reqs
      <3>2. Sound(check, req[check], served[check], trouble[check])
        BY <3>1 DEF ProxyInv
      <3>3. req[check].stage = "done" /\ gauge' = IF Passed(check) THEN 0 ELSE 1
        BY <2>4 DEF EndCheck, Close, At, Set
      <3>4. CASE Passed(check)
        BY <3>1, <3>2, <3>3, <3>4 DEF Passed, Sound, SpeaksFor
      <3>5. CASE ~ Passed(check)
        BY <3>1, <3>2, <3>3, <3>5 DEF Passed, Sound
      <3>6. QED  BY <3>4, <3>5
    <2>5. QED  BY <2>1, <2>2, <2>3, <2>4
  <1>2. QED  BY <1>1, InvariantHolds, PTL DEF Spec, GaugeJustified
=============================================================================
