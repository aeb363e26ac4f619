------------------------- MODULE RequestPathProofs --------------------------
(***************************************************************************)
(* Proofs about the request path for any trace, any number of slots and    *)
(* any interleaving of the client, the proxy and the decode server.        *)
(*                                                                         *)
(* The invariant is a predicate of one request, Sound, which says what the *)
(* record of a request may hold at each point of its task, and an order on *)
(* the queue, Fifo.                                                        *)
(***************************************************************************)
EXTENDS RequestPath, TLAPS, FiniteSetTheorems

Tasks == {"queued", "waiting", "sent", "streaming", "done"}
Hops  == {"none", "prefill", "refused", "relay", "decode", "ended", "cut"}
Codes == {0} \cup 100 .. 599

\* The record at each point of the task; p is the status line sent so far.
Recorded(t, e, p) ==
    /\ t \in {"queued", "waiting", "sent"} =>
          e.status = 0 /\ e.tokens = 0 /\ ~ e.completed /\ ~ e.error
    /\ t = "streaming" =>
          e.status = 200 /\ p = 200 /\ ~ e.completed /\ ~ e.error
    /\ t = "done" =>
          /\ e.completed # e.error
          /\ e.completed => e.status = 200
          /\ e.status # 200 => e.tokens = 0
          /\ e.status \in {p, 599} /\ e.status # 0

\* The status line at each stage of the proxy.
Replied(h, p) ==
    /\ h \in {"none", "prefill"} => p = 0
    /\ h = "refused" => p >= 400
    /\ h \in {"relay", "decode", "ended", "cut"} => p = 200

\* One request: its task t, record e, stage h, status line p, tokens in
\* flight w, server counters s, and the tokens it asked for, m.
Sound(t, e, h, p, w, s, m) ==
    /\ t \in Tasks /\ e \in Telemetry /\ h \in Hops /\ p \in Codes
    /\ w \in Nat /\ s \in Counters
    /\ s.tokens <= m
    /\ e.tokens + w <= s.tokens
    /\ s.finished => s.tokens > 0
    /\ t \in {"queued", "waiting"} => h = "none"
    /\ Recorded(t, e, p)
    /\ Replied(h, p)

AllFunctions ==
    /\ task \in [Requests -> Tasks] /\ tele \in [Requests -> Telemetry]
    /\ hop \in [Requests -> Hops] /\ reply \in [Requests -> Codes]
    /\ wire \in [Requests -> Nat] /\ server \in [Requests -> Counters]

SoundAt(r) ==
    Sound(task[r], tele[r], hop[r], reply[r], wire[r], server[r], MaxTokens[r])

\* Slots are given in trace order.
Fifo == \A r, s \in Requests : r < s /\ task[r] = "queued" => task[s] = "queued"

PathInv ==
    /\ now \in 0 .. MaxTime
    /\ AllFunctions
    /\ \A r \in Requests : SoundAt(r)
    /\ Fifo

\* A step of request r alone, with the values it leaves.
Moves(r, t, e, h, p, w, s) ==
    /\ now' = now
    /\ task' = [task EXCEPT ![r] = t] /\ tele' = [tele EXCEPT ![r] = e]
    /\ hop' = [hop EXCEPT ![r] = h] /\ reply' = [reply EXCEPT ![r] = p]
    /\ wire' = [wire EXCEPT ![r] = w] /\ server' = [server EXCEPT ![r] = s]

-----------------------------------------------------------------------------
(* Lemmas                                                                  *)

\* A step of request r that leaves the others alone keeps the invariant if it
\* keeps r sound and does not put r back into the queue or out of turn.
LEMMA OneRequestMoves ==
    ASSUME PathInv, NEW r \in Requests, NEW t, NEW e, NEW h, NEW p, NEW w, NEW s,
           Moves(r, t, e, h, p, w, s),
           Sound(t, e, h, p, w, s, MaxTokens[r]),
           t # "queued",
           task[r] = "queued" => \A q \in Requests : q < r => task[q] # "queued"
    PROVE  PathInv'
  <1>1. /\ t \in Tasks /\ e \in Telemetry /\ h \in Hops /\ p \in Codes
        /\ w \in Nat /\ s \in Counters
    BY DEF Sound
  <1>0. /\ task' = [task EXCEPT ![r] = t] /\ tele' = [tele EXCEPT ![r] = e]
        /\ hop' = [hop EXCEPT ![r] = h] /\ reply' = [reply EXCEPT ![r] = p]
        /\ wire' = [wire EXCEPT ![r] = w] /\ server' = [server EXCEPT ![r] = s]
        /\ now' = now
    BY DEF Moves
  <1>2. AllFunctions'
    BY <1>0, <1>1 DEF PathInv, AllFunctions
  <1>3. ASSUME NEW q \in Requests
        PROVE  SoundAt(q)'
    <2>1. CASE q = r
      <3>1. /\ task'[q] = t /\ tele'[q] = e /\ hop'[q] = h
            /\ reply'[q] = p /\ wire'[q] = w /\ server'[q] = s
        BY <1>0, <2>1 DEF PathInv, AllFunctions
      <3>2. QED  BY <2>1, <3>1 DEF SoundAt
    <2>2. CASE q # r
      <3>1. /\ task'[q] = task[q] /\ tele'[q] = tele[q] /\ hop'[q] = hop[q]
            /\ reply'[q] = reply[q] /\ wire'[q] = wire[q] /\ server'[q] = server[q]
        BY <1>0, <2>2 DEF PathInv, AllFunctions
      <3>2. SoundAt(q)  BY DEF PathInv
      <3>3. QED  BY <3>1, <3>2 DEF SoundAt
    <2>3. QED  BY <2>1, <2>2
  <1>4. Fifo'
    <2> SUFFICES ASSUME NEW a \in Requests, NEW b \in Requests,
                        a < b, task'[a] = "queued"
                 PROVE  task'[b] = "queued"
      BY DEF Fifo
    <2>1. a # r /\ task[a] = "queued"
      BY <1>0 DEF PathInv, AllFunctions
    <2>2. task[b] = "queued"
      BY <2>1 DEF PathInv, Fifo
    <2>3. b # r
      BY <2>1, <2>2
    <2>4. QED  BY <1>0, <2>2, <2>3 DEF PathInv, AllFunctions
  <1>5. QED  BY <1>0, <1>2, <1>3, <1>4 DEF PathInv

\* A variable the step leaves alone, in the form the lemma above takes.
LEMMA Kept ==
    ASSUME PathInv, NEW r \in Requests
    PROVE  /\ task = [task EXCEPT ![r] = task[r]]
           /\ tele = [tele EXCEPT ![r] = tele[r]]
           /\ hop = [hop EXCEPT ![r] = hop[r]]
           /\ reply = [reply EXCEPT ![r] = reply[r]]
           /\ wire = [wire EXCEPT ![r] = wire[r]]
           /\ server = [server EXCEPT ![r] = server[r]]
  BY DEF PathInv, AllFunctions

\* What the invariant says of a request.
LEMMA OneRequest ==
    ASSUME PathInv, NEW r \in Requests
    PROVE  /\ SoundAt(r)
           /\ task[r] \in Tasks /\ tele[r] \in Telemetry /\ hop[r] \in Hops
           /\ reply[r] \in Codes /\ wire[r] \in Nat /\ server[r] \in Counters
           /\ MaxTokens[r] \in Nat
  BY PathAssumption DEF PathInv, AllFunctions

\* The updates send_one makes to a record, and the server to its counters.
LEMMA RecordFails ==
    ASSUME NEW e \in Telemetry, NEW c \in Codes
    PROVE  /\ Failed(e, c) \in Telemetry
           /\ Failed(e, c).status = c /\ Failed(e, c).tokens = e.tokens
           /\ Failed(e, c).completed = e.completed /\ Failed(e, c).error = TRUE
  <1>1. e \in [status : Codes, tokens : Nat, completed : BOOLEAN, error : BOOLEAN]
    BY DEF Telemetry, Codes
  <1>2. /\ Failed(e, c) \in [status : Codes, tokens : Nat, completed : BOOLEAN,
                             error : BOOLEAN]
        /\ Failed(e, c).status = c /\ Failed(e, c).tokens = e.tokens
        /\ Failed(e, c).completed = e.completed /\ Failed(e, c).error = TRUE
    BY <1>1 DEF Failed
  <1>3. QED  BY <1>2 DEF Telemetry, Codes

\* What setting a record's status leaves alone.
LEMMA RecordStatus ==
    ASSUME NEW e \in Telemetry, NEW c \in Codes, NEW x, x = [e EXCEPT !.status = c]
    PROVE  /\ x \in Telemetry /\ x.status = c /\ x.tokens = e.tokens
           /\ x.completed = e.completed /\ x.error = e.error
  BY DEF Telemetry, Codes

\* What counting a token leaves alone.
LEMMA RecordTokens ==
    ASSUME NEW e \in Telemetry, NEW n \in Nat, NEW x, x = [e EXCEPT !.tokens = n]
    PROVE  /\ x \in Telemetry /\ x.status = e.status /\ x.tokens = n
           /\ x.completed = e.completed /\ x.error = e.error
  BY DEF Telemetry

\* What completing a record leaves alone.
LEMMA RecordCompleted ==
    ASSUME NEW e \in Telemetry, NEW x, x = [e EXCEPT !.completed = TRUE]
    PROVE  /\ x \in Telemetry /\ x.status = e.status /\ x.tokens = e.tokens
           /\ x.completed = TRUE /\ x.error = e.error
  BY DEF Telemetry

\* What the server's updates leave alone.
LEMMA CounterUpdates ==
    ASSUME NEW s \in Counters, NEW n \in Nat
    PROVE  /\ LET x == [s EXCEPT !.started = TRUE]
              IN  /\ x \in Counters /\ x.tokens = s.tokens /\ x.finished = s.finished
           /\ LET x == [s EXCEPT !.tokens = n]
              IN  /\ x \in Counters /\ x.tokens = n /\ x.finished = s.finished
           /\ LET x == [s EXCEPT !.finished = TRUE]
              IN  /\ x \in Counters /\ x.tokens = s.tokens /\ x.finished = TRUE
  BY DEF Counters

\* An except clause of send_one keeps the invariant.
LEMMA RaisedKeeps ==
    ASSUME PathInv, NEW r \in Requests, task[r] \in {"waiting", "sent", "streaming"},
           Raised(r), UNCHANGED <<now, proxyVars>>
    PROVE  PathInv'
  <1> DEFINE old == tele[r]
             c == IF old.status = 0 THEN 599 ELSE old.status
             e == Failed(old, c)
  <1>1. SoundAt(r) /\ old \in Telemetry
    BY OneRequest
  <1>2. c \in Codes  BY <1>1 DEF Telemetry, Codes
  <1>3. /\ e \in Telemetry /\ e.status = c /\ e.tokens = old.tokens
        /\ e.completed = old.completed /\ e.error = TRUE
    <2> HIDE DEF old, c
    <2>1. QED  BY <1>1, <1>2, RecordFails
  <1>4. Moves(r, "done", e, hop[r], reply[r], wire[r], server[r])
    BY Kept DEF Raised, Moves, proxyVars
  <1>5. Sound("done", e, hop[r], reply[r], wire[r], server[r], MaxTokens[r])
    <2> HIDE DEF e
    <2>1. QED  BY <1>1, <1>3 DEF SoundAt, Sound, Recorded, Tasks, Telemetry
  <1> HIDE DEF e
  <1>6. QED  BY <1>4, <1>5, OneRequestMoves

\* Every step of the client keeps the invariant.
LEMMA ClientKeeps ==
    ASSUME PathInv, NEW r \in Requests, Client(r)
    PROVE  PathInv'
  <1> DEFINE t == task[r]  e == tele[r]  h == hop[r]  p == reply[r]
             w == wire[r]  s == server[r]
  <1>0. /\ Sound(t, e, h, p, w, s, MaxTokens[r])
        /\ e \in Telemetry /\ p \in Codes /\ w \in Nat /\ s \in Counters
    BY OneRequest DEF SoundAt
  <1>1. CASE Acquire(r)
    <2>1. Sound("waiting", e, h, p, w, s, MaxTokens[r])
      BY <1>0, <1>1 DEF Acquire, Sound, Recorded, Tasks
    <2>2. Moves(r, "waiting", e, h, p, w, s)
      BY <1>1, Kept DEF Acquire, Moves, proxyVars
    <2>3. QED  BY <1>1, <2>1, <2>2, OneRequestMoves DEF Acquire, SlotFor
  <1>2. CASE Leave(r)
    <2>1. Sound("sent", e, "prefill", p, w, s, MaxTokens[r]) /\ t # "queued"
      BY <1>0, <1>2 DEF Leave, Sound, Recorded, Replied, Tasks, Hops
    <2>2. Moves(r, "sent", e, "prefill", p, w, s)
      BY <1>2, Kept DEF Leave, Moves
    <2>3. QED  BY <2>1, <2>2, OneRequestMoves
  <1>3. CASE ConnectFails(r)
    BY <1>3, RaisedKeeps DEF ConnectFails
  <1>4. CASE Breaks(r)
    BY <1>4, RaisedKeeps DEF Breaks
  <1>5. CASE ReadFailure(r)
    <2> DEFINE x == Failed(e, p)
    <2>1. /\ x \in Telemetry /\ x.status = p /\ x.tokens = e.tokens
          /\ x.completed = e.completed /\ x.error = TRUE
      BY <1>0, RecordFails
    <2>2. Moves(r, "done", x, h, p, w, s) /\ t # "queued"
      BY <1>5, Kept DEF ReadFailure, Moves, proxyVars
    <2> HIDE DEF x
    <2>3. Sound("done", x, h, p, w, s, MaxTokens[r])
      BY <1>0, <1>5, <2>1 DEF ReadFailure, Sound, Recorded, Tasks, Telemetry
    <2>4. QED  BY <2>2, <2>3, OneRequestMoves
  <1>6. CASE ReadSuccess(r)
    <2> DEFINE x == [e EXCEPT !.status = p]
    <2>1. /\ x \in Telemetry /\ x.status = p /\ x.tokens = e.tokens
          /\ x.completed = e.completed /\ x.error = e.error
      <3>1. x = [e EXCEPT !.status = p]  OBVIOUS
      <3> HIDE DEF x, e, p
      <3>2. QED  BY <1>0, <3>1, RecordStatus
    <2>2. p = 200
      <3>1. p # 0 /\ p < 400  BY <1>6 DEF ReadSuccess
      <3>2. h \in Hops /\ Replied(h, p)  BY <1>0 DEF Sound
      <3> HIDE DEF h, p
      <3>3. QED  BY <1>0, <3>1, <3>2 DEF Replied, Hops, Codes
    <2>3. Moves(r, "streaming", x, h, p, w, s) /\ t # "queued"
      BY <1>6, Kept DEF ReadSuccess, Moves, proxyVars
    <2> HIDE DEF x
    <2>4. Sound("streaming", x, h, p, w, s, MaxTokens[r])
      BY <1>0, <1>6, <2>1, <2>2 DEF ReadSuccess, Sound, Recorded, Tasks, Telemetry
    <2>5. QED  BY <2>3, <2>4, OneRequestMoves
  <1>7. CASE ReadToken(r)
    <2> DEFINE n == e.tokens + 1
               x == [e EXCEPT !.tokens = n]
    <2>1. n \in Nat  BY <1>0 DEF Telemetry
    <2>2. /\ x \in Telemetry /\ x.status = e.status /\ x.tokens = n
          /\ x.completed = e.completed /\ x.error = e.error
      <3>1. x = [e EXCEPT !.tokens = n]  OBVIOUS
      <3> HIDE DEF x, e, n
      <3>2. QED  BY <1>0, <2>1, <3>1, RecordTokens
    <2>3. Moves(r, t, x, h, p, w - 1, s) /\ t # "queued"
      <3>1. tele' = [tele EXCEPT ![r] = x]
        BY <1>7, Zenon DEF ReadToken
      <3>2. wire' = [wire EXCEPT ![r] = w - 1]
        BY <1>7, Zenon DEF ReadToken
      <3> HIDE DEF x
      <3>3. QED  BY <1>7, <3>1, <3>2, Kept DEF ReadToken, Moves
    <2> HIDE DEF x
    <2>4. Sound(t, x, h, p, w - 1, s, MaxTokens[r])
      <3>1. e.tokens \in Nat /\ s.tokens \in Nat /\ w > 0 /\ t = "streaming"
        BY <1>0, <1>7 DEF ReadToken, Telemetry, Counters
      <3>2. QED  BY <1>0, <2>2, <3>1 DEF Sound, Recorded
    <2>5. QED  BY <2>3, <2>4, OneRequestMoves
  <1>8. CASE ReadEnd(r)
    <2> DEFINE x == [e EXCEPT !.completed = TRUE]
    <2>1. /\ x \in Telemetry /\ x.status = e.status /\ x.tokens = e.tokens
          /\ x.completed = TRUE /\ x.error = e.error
      <3>1. x = [e EXCEPT !.completed = TRUE]  OBVIOUS
      <3> HIDE DEF x, e
      <3>2. QED  BY <1>0, <3>1, RecordCompleted
    <2>2. Moves(r, "done", x, h, p, w, s) /\ t # "queued"
      BY <1>8, Kept DEF ReadEnd, Moves, proxyVars
    <2> HIDE DEF x
    <2>3. Sound("done", x, h, p, w, s, MaxTokens[r])
      BY <1>0, <1>8, <2>1 DEF ReadEnd, Sound, Recorded, Tasks, Telemetry
    <2>4. QED  BY <2>2, <2>3, OneRequestMoves
  <1>9. QED
    BY <1>1, <1>2, <1>3, <1>4, <1>5, <1>6, <1>7, <1>8 DEF Client

\* Every step of the proxy and of its upstreams keeps the invariant, whether
\* the client still listens or not.
LEMMA ProxyKeeps ==
    ASSUME PathInv, NEW r \in Requests, Proxy(r)
    PROVE  PathInv'
  <1> DEFINE t == task[r]  e == tele[r]  h == hop[r]  p == reply[r]
             w == wire[r]  s == server[r]
  <1>0. /\ Sound(t, e, h, p, w, s, MaxTokens[r])
        /\ e \in Telemetry /\ p \in Codes /\ w \in Nat /\ s \in Counters
        /\ MaxTokens[r] \in Nat
    BY OneRequest DEF SoundAt
  <1>1. ASSUME NEW status \in PrefillErrors \cup {500}, PrefillFails(r, status)
        PROVE  PathInv'
    <2>1. Moves(r, t, e, "refused", status, w, s) /\ h = "prefill"
      BY <1>1, Kept DEF PrefillFails, Answers, Moves
    <2>2. status \in Codes /\ status >= 400
      BY PathAssumption DEF Codes
    <2>3. Sound(t, e, "refused", status, w, s, MaxTokens[r]) /\ t # "queued"
      <3> HIDE DEF t, e, h, p, w, s
      <3>1. QED  BY <1>0, <2>1, <2>2 DEF Sound, Recorded, Replied, Hops
    <2>4. QED  BY <2>1, <2>3, OneRequestMoves
  <1>2. CASE PrefillDone(r)
    <2>1. Moves(r, t, e, "relay", 200, w, s) /\ h = "prefill"
      BY <1>2, Kept DEF PrefillDone, Answers, Moves
    <2>2. Sound(t, e, "relay", 200, w, s, MaxTokens[r]) /\ t # "queued"
      <3> HIDE DEF t, e, h, p, w, s
      <3>1. QED  BY <1>0, <2>1 DEF Sound, Recorded, Replied, Hops, Codes
    <2>3. QED  BY <2>1, <2>2, OneRequestMoves
  <1>3. CASE DecodeRefuses(r)
    <2>1. Moves(r, t, e, "ended", p, w, s) /\ h = "relay"
      BY <1>3, Kept DEF DecodeRefuses, Moves
    <2>2. Sound(t, e, "ended", p, w, s, MaxTokens[r]) /\ t # "queued"
      <3> HIDE DEF t, e, h, p, w, s
      <3>1. QED  BY <1>0, <2>1 DEF Sound, Replied, Hops
    <2>3. QED  BY <2>1, <2>2, OneRequestMoves
  <1>4. CASE DecodeStarts(r)
    <2> DEFINE x == [s EXCEPT !.started = TRUE]
    <2>1. Moves(r, t, e, "decode", p, w, x) /\ h = "relay"
      BY <1>4, Kept DEF DecodeStarts, Moves
    <2>2. x \in Counters /\ x.tokens = s.tokens /\ x.finished = s.finished
      <3> HIDE DEF s
      <3>1. QED  BY <1>0, CounterUpdates
    <2> HIDE DEF x
    <2>3. Sound(t, e, "decode", p, w, x, MaxTokens[r]) /\ t # "queued"
      <3> HIDE DEF t, e, h, p, w, s
      <3>1. QED  BY <1>0, <2>1, <2>2 DEF Sound, Replied, Hops
    <2>4. QED  BY <2>1, <2>3, OneRequestMoves
  <1>5. CASE DecodeToken(r)
    <2> DEFINE n == s.tokens + 1
               x == [s EXCEPT !.tokens = n]
    <2>1. server' = [server EXCEPT ![r] = x] /\ wire' = [wire EXCEPT ![r] = w + 1]
      BY <1>5, Zenon DEF DecodeToken
    <2>2. n \in Nat /\ s.tokens \in Nat  BY <1>0 DEF Counters
    <2>3. x \in Counters /\ x.tokens = n /\ x.finished = s.finished
      <3> HIDE DEF s, n
      <3>1. QED  BY <1>0, <2>2, CounterUpdates
    <2> HIDE DEF x
    <2>4. Moves(r, t, e, h, p, w + 1, x) /\ h = "decode" /\ s.tokens < MaxTokens[r]
      BY <1>5, <2>1, Kept DEF DecodeToken, Moves
    <2>5. e.tokens \in Nat  BY <1>0 DEF Telemetry
    <2>6. Sound(t, e, h, p, w + 1, x, MaxTokens[r]) /\ t # "queued"
      <3> HIDE DEF t, e, h, p, w, s
      <3>1. QED  BY <1>0, <2>2, <2>3, <2>4, <2>5 DEF Sound
    <2>7. QED  BY <2>4, <2>6, OneRequestMoves
  <1>6. CASE DecodeEnds(r)
    <2> DEFINE x == [s EXCEPT !.finished = TRUE]
    <2>1. Moves(r, t, e, "ended", p, w, x) /\ h = "decode" /\ s.tokens > 0
      BY <1>6, Kept DEF DecodeEnds, Moves
    <2>2. x \in Counters /\ x.tokens = s.tokens /\ x.finished = TRUE
      <3> HIDE DEF s
      <3>1. QED  BY <1>0, CounterUpdates
    <2> HIDE DEF x
    <2>3. Sound(t, e, "ended", p, w, x, MaxTokens[r]) /\ t # "queued"
      <3> HIDE DEF t, e, h, p, w, s
      <3>1. QED  BY <1>0, <2>1, <2>2 DEF Sound, Replied, Hops
    <2>4. QED  BY <2>1, <2>3, OneRequestMoves
  <1>7. CASE RelayBreaks(r)
    <2>1. PICK left \in 0 .. w : wire' = [wire EXCEPT ![r] = left]
      BY <1>7 DEF RelayBreaks
    <2>2. Moves(r, t, e, "cut", p, left, s) /\ h \in {"relay", "decode"}
      BY <1>7, <2>1, Kept DEF RelayBreaks, Moves
    <2>3. e.tokens \in Nat /\ s.tokens \in Nat  BY <1>0 DEF Telemetry, Counters
    <2>4. Sound(t, e, "cut", p, left, s, MaxTokens[r]) /\ t # "queued"
      <3> HIDE DEF t, e, h, p, w, s
      <3>0. left \in Nat /\ left <= w  BY <1>0, <2>1 DEF w
      <3>1. QED  BY <1>0, <2>2, <2>3, <3>0 DEF Sound, Replied, Hops
    <2>5. QED  BY <2>2, <2>4, OneRequestMoves
  <1>8. QED
    BY <1>1, <1>2, <1>3, <1>4, <1>5, <1>6, <1>7 DEF Proxy

-----------------------------------------------------------------------------
(* Theorems                                                                *)

\* The inductive invariant.
LEMMA InvariantHolds == Spec => []PathInv
  <1>1. Init => PathInv
    <2> SUFFICES ASSUME Init PROVE PathInv
      OBVIOUS
    <2> DEFINE e0 == [status |-> 0, tokens |-> 0, completed |-> FALSE, error |-> FALSE]
               s0 == [started |-> FALSE, tokens |-> 0, finished |-> FALSE]
    <2>1. /\ e0 \in Telemetry /\ e0.status = 0 /\ e0.tokens = 0
          /\ ~ e0.completed /\ ~ e0.error
      BY DEF Telemetry
    <2>2. s0 \in Counters /\ s0.tokens = 0 /\ ~ s0.finished
      BY DEF Counters
    <2>3. tele = [r \in Requests |-> e0] /\ server = [r \in Requests |-> s0]
      BY DEF Init
    <2> HIDE DEF e0, s0
    <2>4. AllFunctions
      BY <2>1, <2>2, <2>3 DEF Init, AllFunctions, Tasks, Hops, Codes
    <2>5. ASSUME NEW r \in Requests PROVE SoundAt(r)
      <3>1. /\ task[r] = "queued" /\ tele[r] = e0 /\ hop[r] = "none"
            /\ reply[r] = 0 /\ wire[r] = 0 /\ server[r] = s0
        BY <2>3 DEF Init
      <3>2. MaxTokens[r] \in Nat  BY PathAssumption
      <3>3. Sound("queued", e0, "none", 0, 0, s0, MaxTokens[r])
        BY <2>1, <2>2, <3>2 DEF Sound, Recorded, Replied, Tasks, Hops, Codes
      <3>4. QED  BY <3>1, <3>3 DEF SoundAt
    <2>6. Fifo  BY DEF Init, Fifo
    <2>7. QED  BY <2>4, <2>5, <2>6, PathAssumption DEF Init, PathInv
  <1>2. PathInv /\ [Next]_vars => PathInv'
    <2> SUFFICES ASSUME PathInv, [Next]_vars PROVE PathInv'
      OBVIOUS
    <2>1. CASE Advance
      BY <2>1, PathAssumption
      DEF Advance, proxyVars, PathInv, AllFunctions, SoundAt, Fifo
    <2>2. ASSUME NEW r \in Requests, Client(r) \/ Proxy(r) PROVE PathInv'
      BY <2>2, ClientKeeps, ProxyKeeps
    <2>3. CASE UNCHANGED vars
      BY <2>3 DEF vars, PathInv, AllFunctions, SoundAt, Fifo
    <2>4. QED  BY <2>1, <2>2, <2>3 DEF Next, Finished
  <1>3. QED  BY <1>1, <1>2, PTL DEF Spec

\* Types; no request is given more tokens than it asked for.
THEOREM TypeCorrect == Spec => []TypeOK
  <1>1. PathInv => TypeOK
    BY DEF PathInv, AllFunctions, SoundAt, Sound, TypeOK, Tasks, Hops, Codes
  <1>2. QED  BY <1>1, InvariantHolds, PTL

\* Whatever the servers, the network and the proxy do, every record of every
\* trace is one of the four, and counts no token the server did not stream.
THEOREM TelemetryIsConsistent == Spec => []TelemetryConsistent
  <1>1. PathInv => TelemetryConsistent
    BY DEF PathInv, SoundAt, Sound, Recorded, TelemetryConsistent
  <1>2. QED  BY <1>1, InvariantHolds, PTL

\* The semaphore is fair, so no slot idles in _wait_until while a request that
\* is due has none.
THEOREM NoSlotIdles == Spec => []DueRequestsHaveSlots
  <1>1. PathInv => DueRequestsHaveSlots
    <2> SUFFICES ASSUME PathInv, NEW r \in Requests, NEW s \in Requests,
                        task[r] = "queued", Arrival[r] <= now, task[s] = "waiting"
                 PROVE  Arrival[s] <= now
      BY DEF DueRequestsHaveSlots
    <2>1. r \in Int /\ s \in Int /\ r # s  BY DEF Requests
    <2>2. ~ (r < s)  BY DEF PathInv, Fifo
    <2>3. Arrival[s] <= Arrival[r]  BY <2>1, <2>2, PathAssumption
    <2>4. /\ Arrival[s] \in Int /\ Arrival[r] \in Int /\ now \in Int
      BY PathAssumption DEF PathInv
    <2>5. QED  BY <2>3, <2>4
  <1>2. QED  BY <1>1, InvariantHolds, PTL

-----------------------------------------------------------------------------
(* The gate                                                                *)

\* The tokens a function of the requests counts.
Tokens(f) == UNION {{r} \X (1 .. f[r]) : r \in Requests}

\* A token belongs to the request that names it.
LEMMA TokensOf ==
    ASSUME NEW f \in [Requests -> Nat], NEW r \in Requests, NEW k
    PROVE  <<r, k>> \in Tokens(f) <=> k \in 1 .. f[r]
  BY DEF Tokens

\* A trace has finitely many tokens.
LEMMA TokensFinite ==
    ASSUME NEW f \in [Requests -> Nat]
    PROVE  IsFiniteSet(Tokens(f))
  <1> DEFINE B == [r \in Requests |-> {r} \X (1 .. f[r])]
             S == {B[r] : r \in Requests}
  <1>1. IsFiniteSet(Requests)
    BY PathAssumption, FS_Interval DEF Requests
  <1>2. B \in Surjection(Requests, S)
    BY Zenon DEF Surjection
  <1>3. IsFiniteSet(S)
    BY <1>1, <1>2, FS_Surjection
  <1>4. ASSUME NEW r \in Requests PROVE IsFiniteSet(B[r])
    <2>1. IsFiniteSet({r})  BY FS_Singleton
    <2>2. IsFiniteSet(1 .. f[r])  BY FS_Interval
    <2>3. B[r] = {r} \X (1 .. f[r])  OBVIOUS
    <2>4. QED  BY <2>1, <2>2, <2>3, FS_Product
  <1>5. \A X \in S : IsFiniteSet(X)
    BY <1>4
  <1>6. Tokens(f) = UNION S
    BY DEF Tokens
  <1> HIDE DEF S
  <1>7. QED  BY <1>3, <1>5, <1>6, FS_UNION

\* A count below another, request by request, agrees with it in total only if
\* they are the same.
LEMMA SameTotal ==
    ASSUME NEW f \in [Requests -> Nat], NEW g \in [Requests -> Nat],
           \A r \in Requests : f[r] <= g[r],
           Cardinality(Tokens(f)) = Cardinality(Tokens(g)),
           NEW r \in Requests
    PROVE  f[r] = g[r]
  <1>1. Tokens(f) \subseteq Tokens(g)
    <2> SUFFICES ASSUME NEW x \in Tokens(f) PROVE x \in Tokens(g)
      OBVIOUS
    <2>1. PICK q \in Requests : x \in {q} \X (1 .. f[q])  BY DEF Tokens
    <2>2. PICK k \in 1 .. f[q] : x = <<q, k>>  BY <2>1
    <2>3. k \in 1 .. g[q]  BY <2>2
    <2>4. QED  BY <2>2, <2>3, TokensOf
  <1>2. Tokens(f) = Tokens(g)
    BY <1>1, TokensFinite, FS_Subset
  <1>3. \A k : k \in 1 .. f[r] <=> k \in 1 .. g[r]
    BY <1>2, TokensOf
  <1>4. f[r] \in Nat /\ g[r] \in Nat  OBVIOUS
  <1>5. ~ (f[r] < g[r])
    <2> SUFFICES ASSUME f[r] < g[r] PROVE FALSE
      OBVIOUS
    <2>1. g[r] \in 1 .. g[r]  BY <1>4
    <2>2. g[r] \in 1 .. f[r]  BY <1>3, <2>1
    <2>3. QED  BY <2>2, <1>4
  <1>6. QED  BY <1>4, <1>5

\* A set of requests of which each has a token is not larger than the total.
LEMMA TotalCovers ==
    ASSUME NEW f \in [Requests -> Nat], NEW F \in SUBSET Requests,
           \A r \in F : f[r] > 0
    PROVE  /\ Cardinality(F) \in Nat /\ Cardinality(Tokens(f)) \in Nat
           /\ Cardinality(F) <= Cardinality(Tokens(f))
  <1> DEFINE first == [r \in F |-> <<r, 1>>]
  <1>1. first \in Injection(F, Tokens(f))
    <2>1. ASSUME NEW r \in F PROVE <<r, 1>> \in Tokens(f)
      <3>1. 1 \in 1 .. f[r]  OBVIOUS
      <3>2. QED  BY <3>1, TokensOf
    <2>2. first \in [F -> Tokens(f)]  BY <2>1
    <2>3. \A a, b \in F : first[a] = first[b] => a = b  OBVIOUS
    <2> HIDE DEF first
    <2>4. QED  BY <2>2, <2>3 DEF Injection, IsInjective
  <1>2. IsFiniteSet(Tokens(f))  BY TokensFinite
  <1>3. IsFiniteSet(F) /\ Cardinality(F) <= Cardinality(Tokens(f))
    BY <1>1, <1>2, FS_Injection
  <1>4. QED  BY <1>2, <1>3, FS_CardinalityType

\* A factor keeps an inequality of naturals.
LEMMA TimesMonotone ==
    ASSUME NEW a \in Nat, NEW b \in Nat, NEW c \in Nat, b <= c
    PROVE  a * b <= a * c
  OBVIOUS

\* Within the tolerance and below one percent of a request, there is no drift.
LEMMA AgreeExactly ==
    ASSUME NEW c \in Nat, NEW v \in Nat, Agree(c, v), v * Threshold < 100
    PROVE  c = v
  <1>1. Threshold \in Nat /\ Threshold < 100  BY PathAssumption
  <1> DEFINE diff == IF c > v THEN c - v ELSE v - c
             m == IF v > 1 THEN v ELSE 1
  <1>2. diff * 100 <= Threshold * m  BY DEF Agree
  <1>3. Threshold * m < 100
    <2>1. CASE v > 1
      <3>1. m = v  BY <2>1
      <3>2. Threshold * v = v * Threshold  BY <1>1
      <3>3. QED  BY <3>1, <3>2
    <2>2. CASE ~ (v > 1)
      <3>1. m = 1  BY <2>2
      <3>2. Threshold * 1 = Threshold  BY <1>1
      <3>3. QED  BY <3>1, <3>2, <1>1
    <2>3. QED  BY <2>1, <2>2
  <1>4. diff * 100 < 100 /\ diff \in Nat
    <2>1. Threshold * m \in Int  BY <1>1
    <2>2. QED  BY <1>2, <1>3, <2>1
  <1>5. QED  BY <1>4

\* A gate that passes with totals small enough to leave no room for drift tells
\* the truth about every token, and once a request has finished also about every
\* success, for any trace and any failures on the way.
THEOREM GateCannotBeFooled == Spec => []GateIsSound
  <1>1. PathInv => GateIsSound
    <2> SUFFICES ASSUME PathInv, AllDone, Reconciles,
                        Total(LAMBDA r : server[r].tokens) * Threshold < 100
                 PROVE  /\ \A r \in Requests : tele[r].tokens = server[r].tokens
                        /\ Served # {} =>
                              \A r \in Requests :
                                  (tele[r].status = 200) = server[r].finished
      BY DEF GateIsSound
    <2> DEFINE f == [r \in Requests |-> tele[r].tokens]
               g == [r \in Requests |-> server[r].tokens]
               F == {r \in Requests : server[r].finished}
               S == {r \in Requests : tele[r].status = 200}
    <2>0. IsFiniteSet(S)
      <3>1. IsFiniteSet(Requests)  BY PathAssumption, FS_Interval DEF Requests
      <3>2. S \in SUBSET Requests  OBVIOUS
      <3> HIDE DEF S
      <3>3. QED  BY <3>1, <3>2, FS_Subset
    <2>1. ASSUME NEW r \in Requests
          PROVE  /\ tele[r].tokens \in Nat /\ server[r].tokens \in Nat
                 /\ tele[r].tokens <= server[r].tokens
                 /\ tele[r].status # 200 => tele[r].tokens = 0
                 /\ server[r].finished => server[r].tokens > 0
      <3>1. task[r] = "done"  BY DEF AllDone
      <3>2. SoundAt(r) /\ wire[r] \in Nat  BY OneRequest
      <3>3. tele[r].tokens \in Nat /\ server[r].tokens \in Nat
        BY OneRequest DEF Telemetry, Counters
      <3>4. tele[r].tokens + wire[r] <= server[r].tokens
        BY <3>2 DEF SoundAt, Sound
      <3>5. /\ tele[r].status # 200 => tele[r].tokens = 0
            /\ server[r].finished => server[r].tokens > 0
        BY <3>1, <3>2 DEF SoundAt, Sound, Recorded
      <3>6. QED  BY <3>2, <3>3, <3>4, <3>5
    <2>2. /\ f \in [Requests -> Nat] /\ g \in [Requests -> Nat]
          /\ \A r \in Requests : f[r] <= g[r]
      BY <2>1
    <2>3. /\ Total(LAMBDA r : tele[r].tokens) = Cardinality(Tokens(f))
          /\ Total(LAMBDA r : server[r].tokens) = Cardinality(Tokens(g))
      <3>1. \A r \in Requests : f[r] = tele[r].tokens /\ g[r] = server[r].tokens
        OBVIOUS
      <3> HIDE DEF f, g
      <3>2. UNION {{r} \X (1 .. tele[r].tokens) : r \in Requests} = Tokens(f)
        BY <3>1 DEF Tokens
      <3>3. UNION {{r} \X (1 .. server[r].tokens) : r \in Requests} = Tokens(g)
        BY <3>1 DEF Tokens
      <3>4. QED  BY <3>2, <3>3 DEF Total
    <2>4. /\ Cardinality(Tokens(f)) \in Nat /\ Cardinality(Tokens(g)) \in Nat
      BY <2>2, TokensFinite, FS_CardinalityType
    <2>5. /\ Agree(Cardinality(Tokens(f)), Cardinality(Tokens(g)))
          /\ F # {} => Agree(Cardinality(S), Cardinality(F))
          /\ Cardinality(Tokens(g)) * Threshold < 100
      BY <2>3 DEF Reconciles, Successes, ServerSuccesses, Served
    <2>6. Cardinality(Tokens(f)) = Cardinality(Tokens(g))
      BY <2>4, <2>5, AgreeExactly
    <2>7. ASSUME NEW r \in Requests PROVE tele[r].tokens = server[r].tokens
      <3>1. f[r] = tele[r].tokens /\ g[r] = server[r].tokens  OBVIOUS
      <3> HIDE DEF f, g
      <3>2. QED  BY <2>2, <2>6, <3>1, SameTotal
    <2>8. F \subseteq S
      BY <2>1, <2>7
    <2>9. F # {} => Cardinality(S) = Cardinality(F)
      <3>1. \A r \in F : g[r] > 0  BY <2>1
      <3> HIDE DEF f, g, F, S
      <3>3. /\ Cardinality(F) \in Nat /\ Cardinality(F) <= Cardinality(Tokens(g))
        BY <2>2, <3>1, TotalCovers DEF F
      <3>4. Cardinality(F) * Threshold < 100
        <4>1. Threshold \in Nat  BY PathAssumption
        <4>2. Threshold * Cardinality(F) <= Threshold * Cardinality(Tokens(g))
          BY <2>4, <3>3, <4>1, TimesMonotone
        <4>3. QED  BY <2>4, <2>5, <3>3, <4>1, <4>2
      <3>5. Cardinality(S) \in Nat  BY <2>0, FS_CardinalityType
      <3>6. QED  BY <2>5, <3>3, <3>4, <3>5, AgreeExactly
    <2>10. F # {} => F = S
      <3> HIDE DEF F, S
      <3>1. QED  BY <2>0, <2>8, <2>9, FS_Subset
    <2>11. ASSUME NEW r \in Requests, F # {}
           PROVE  (tele[r].status = 200) = server[r].finished
      <3>1. server[r].finished \in BOOLEAN
        BY OneRequest DEF Counters
      <3>2. r \in F <=> r \in S  BY <2>10, <2>11
      <3>3. QED  BY <3>1, <3>2
    <2>12. QED  BY <2>7, <2>11 DEF Served
  <1>2. QED  BY <1>1, InvariantHolds, PTL
=============================================================================
