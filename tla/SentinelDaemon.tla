--------------------------- MODULE SentinelDaemon ---------------------------
(***************************************************************************)
(* The sentinel daemon (scripts/sentinel_daemon.py) probing the P/D proxy: *)
(* each round runs tests/sentinel.py --mode check, a non-streaming         *)
(* completion compared with a recorded fixture, and sets the gauge         *)
(* sentinel_drift.  A round without a usable fixture fails before it posts  *)
(* anything, and a check that gives up leaves its request running in the   *)
(* proxy, where it competes with the next one.                             *)
(***************************************************************************)
EXTENDS DisaggProxy

CONSTANT NoCheck

ASSUME DaemonAssumption == NoCheck \notin Reqs

VARIABLES
    check,   \* connection of the check that runs, or NoCheck
    gauge,   \* sentinel_drift
    daemon,  \* "ready" for a round, "checking", "sleeping" or "stopped"
    stop,    \* stop_requested
    fixture  \* is there a fixture for this model, well formed, of this prompt?

vars == <<proxyVars, check, gauge, daemon, stop, fixture>>

Init ==
    /\ ProxyInit
    /\ check = NoCheck /\ gauge = 0 /\ daemon = "ready" /\ stop = FALSE
    /\ fixture \in BOOLEAN

\* The child process has read the fixture and posts its completion.
StartCheck(r) ==
    /\ daemon = "ready" /\ ~ stop /\ fixture
    /\ Begin(r, "generate")
    /\ check' = r /\ daemon' = "checking"
    /\ UNCHANGED <<gauge, stop, fixture>>

\* gauge.set, and the pause.
Set(value) ==
    /\ gauge' = value
    /\ check' = NoCheck /\ daemon' = "sleeping"
    /\ UNCHANGED <<stop, fixture>>

\* The fixture is missing, malformed or of another prompt: the check fails and
\* sends nothing.
NoFixture ==
    /\ daemon = "ready" /\ ~ stop /\ ~ fixture
    /\ Set(1)
    /\ UNCHANGED proxyVars

\* Mutant: any answer is a pass.
PassedAny(r) == TRUE

\* The rest of check_mode: the status is not an error, and the tokens of the
\* body are the fixture's.
Passed(r) == req[r].status = 200 /\ req[r].right

EndCheck ==
    /\ daemon = "checking"
    /\ Set(IF Passed(check) THEN 0 ELSE 1)
    /\ Close(check)

\* The child's request times out, or the child itself does, or a Ctrl-C kills
\* it: the check fails, and its request is left to the proxy.
GiveUp ==
    /\ daemon = "checking"
    /\ Set(1)
    /\ UNCHANGED proxyVars

\* Mutant: the daemon stops for good after its pause.
WakesOnce == daemon' = "stopped"

Wakes == daemon' = "ready"

Wake ==
    /\ daemon = "sleeping" /\ ~ stop
    /\ Wakes
    /\ UNCHANGED <<proxyVars, check, gauge, stop, fixture>>

\* SIGTERM or SIGINT: the running check still ends before the daemon does.
RequestStop ==
    /\ ~ stop /\ stop' = TRUE
    /\ UNCHANGED <<proxyVars, check, gauge, daemon, fixture>>

Stop ==
    /\ stop /\ daemon \in {"ready", "sleeping"}
    /\ daemon' = "stopped"
    /\ UNCHANGED <<proxyVars, check, gauge, stop, fixture>>

\* Somebody records a fixture, or removes or spoils it.
ChangeFixture ==
    /\ fixture' = ~ fixture
    /\ UNCHANGED <<proxyVars, check, gauge, daemon, stop>>

\* An abandoned request ends, and nobody reads the answer.
Abandoned(r) ==
    /\ r # check /\ Close(r)
    /\ UNCHANGED <<check, gauge, daemon, stop, fixture>>

Daemon ==
    \/ \E r \in Probes : StartCheck(r)
    \/ NoFixture \/ EndCheck \/ Wake \/ Stop

Proxy(r) == Progress(r) /\ UNCHANGED <<check, gauge, daemon, stop, fixture>>

Environment ==
    /\ SomeChange \/ SomeClient
    /\ UNCHANGED <<check, gauge, daemon, stop, fixture>>

Next ==
    \/ Environment \/ ChangeFixture \/ RequestStop \/ GiveUp \/ Daemon
    \/ \E r \in Reqs : Proxy(r)
    \/ \E r \in Probes : Abandoned(r)

Spec == Init /\ [][Next]_vars

\* The event loop runs every handler whose upstream has answered or timed out,
\* and the daemon's own loop runs.  Nothing is assumed of the pools.
FairSpec ==
    /\ Spec
    /\ \A r \in Reqs : WF_vars(Proxy(r))
    /\ \A r \in Probes : WF_vars(Abandoned(r))
    /\ WF_vars(Daemon)

-----------------------------------------------------------------------------
(* Properties                                                              *)

\* The gauge is set for a reason: to 0 only by a check during which both pools
\* served, to 1 by an answer only if a pool was not up while the check ran (no
\* check is failed by the requests of others) and by a round that sent nothing
\* only for want of a fixture.  What is left is a check that was given up.
Justified ==
    daemon \in {"ready", "checking"} /\ daemon' = "sleeping" =>
        /\ gauge' = 0 => check \in Probes /\ served[check] = Pools
        /\ gauge' = 1 /\ req' # req => trouble[check]
        /\ gauge' = 1 /\ check = NoCheck => ~ fixture

GaugeJustified == [][Justified]_vars

\* While the daemon runs, the gauge follows the pools: an outage or a drift
\* that lasts shows and stays shown, whatever happens to the fixture, and so
\* does a recovery once there is a fixture and no check is given up any more.
GaugeFollows ==
    [](~ stop) =>
        /\ \A p \in Pools : <>[](pool[p] # "up") => <>[](gauge = 1)
        /\ <>[](AllUp /\ fixture) /\ <>[][~ GiveUp]_vars => <>[](gauge = 0)
=============================================================================
