---------------------------- MODULE DaemonServer ----------------------------
(***************************************************************************)
(* The life of one atomicagentd process: start-up, the signal loop, the    *)
(* API server with its Falco listener, the shutdown with its 30 seconds,   *)
(* and the audit trail that handlers and daemon write.                     *)
(*                                                                         *)
(* What the manager and the engine do for a request is the subject of      *)
(* AgentLifecycle and PolicyEngine; here a call of theirs succeeds, fails  *)
(* or waits for a job of systemd.                                          *)
(***************************************************************************)
EXTENDS Naturals

CONSTANTS
    Requests,    \* HTTP requests, each sent at most once
    Daemon,      \* whom the daemon's own audit events are of
    MaxSignals   \* bound of the model: signals sent to the process

ASSUME DaemonAssumption ==
    /\ Daemon \notin Requests
    /\ MaxSignals \in Nat

VARIABLES
    phase,      \* where run() is
    signals,    \* sigCh, a channel with room for one signal
    sent,       \* how many signals there have been
    wanted,     \* ghost: a SIGHUP has come since the last reload began
    timer,      \* shutdownCtx
    listener,   \* the listeners of the API and of Falco's webhook
    bus,        \* whether the sandbox manager's D-Bus connection is open
    at,         \* how far each request is
    kind,       \* what it asks for
    via,        \* the listener it came through
    trail,      \* the audit events logged
    late,       \* those logged after daemon.shutdown
    missing     \* those that the log file has not got

vars == <<phase, signals, sent, wanted, timer, listener, bus,
          at, kind, via, trail, late, missing>>

main == <<phase, timer, listener, bus>>
sigs == <<signals, sent, wanted>>
requests == <<at, kind, via>>
logger == <<trail, late, missing>>

Listeners == {"api", "falco"}

\* "read" asks for agents or health, "act" is Register, Unregister, Kill,
\* Evaluate and Reload, "job" is Start and Stop, which wait for a job of
\* systemd.  A critical alert that names no agent kills nobody and counts as
\* "alert".
Kinds == {"read", "act", "job", "alert", "critical"}
Alerts == {"alert", "critical"}

InFlight == {"reading", "calling", "waiting", "logging", "killing",
             "loggingkill", "answering"}

Starting == {"start", "trail", "connected", "restored", "listening", "bound",
             "ready"}
Draining == {"drainfalco", "drainapi"}
Leaving == {"drained", "bye", "unplugged", "closed"}
Ended == {"down", "failed", "killed"}

\* The first event that a request of each kind leaves.
Type(k) ==
    CASE k = "alert" -> "runtime.alert"
      [] k = "critical" -> "runtime.critical"
      [] OTHER -> "done"

Types == {"done", "runtime.alert", "runtime.critical", "agent.killed",
          "policy.reloaded", "daemon.started", "daemon.shutdown"}

Event == [of : Requests \cup {Daemon}, type : Types]

EventOf(w, t) == [of |-> w, type |-> t]

Farewell == EventOf(Daemon, "daemon.shutdown")

Init ==
    /\ phase = "start"
    /\ signals = <<>> /\ sent = 0 /\ wanted = FALSE
    /\ timer = "off"
    /\ listener = [v \in Listeners |-> "off"]
    /\ bus = FALSE
    /\ at = [r \in Requests |-> "away"]
    /\ kind = [r \in Requests |-> "none"]
    /\ via = [r \in Requests |-> "none"]
    /\ trail = {}
    /\ late = {}
    /\ missing = {}

-----------------------------------------------------------------------------
(* The audit logger *)

\* Mutant: the logger is closed as soon as the servers are down.
LogClosedEarly(e) ==
    /\ trail' = trail \cup {e}
    /\ late' = IF Farewell \in trail THEN late \cup {e} ELSE late
    /\ missing' = IF phase \in Leaving THEN missing \cup {e} ELSE missing

\* Logger.Log writes to journal and file under one lock.  stderr stands in for
\* a journal that does not answer; an error of the file is ignored, in
\* particular that it is closed already.
Log(e) ==
    /\ trail' = trail \cup {e}
    /\ late' = IF Farewell \in trail THEN late \cup {e} ELSE late
    /\ missing' = IF phase = "closed" THEN missing \cup {e} ELSE missing

-----------------------------------------------------------------------------
(* Start-up *)

Advance(from, to) == phase = from /\ phase' = to

\* Configuration and log file; then engine and D-Bus; then the registry, whose
\* loss is only warned about.
OpenTrail ==
    /\ Advance("start", "trail")
    /\ UNCHANGED <<timer, listener, bus, sigs, requests, logger>>

Connect ==
    /\ Advance("trail", "connected")
    /\ bus' = TRUE
    /\ UNCHANGED <<timer, listener, sigs, requests, logger>>

Restore ==
    /\ Advance("connected", "restored")
    /\ UNCHANGED <<timer, listener, bus, sigs, requests, logger>>

StartFails ==
    /\ phase \in {"start", "trail", "restored"}
    /\ phase' = "failed"
    /\ bus' = FALSE
    /\ UNCHANGED <<timer, listener, sigs, requests, logger>>

Listen ==
    /\ Advance("restored", "listening")
    /\ listener' = [listener EXCEPT !["api"] = "open"]
    /\ UNCHANGED <<timer, bus, sigs, requests, logger>>

\* Falco may be switched off or its port be taken: the daemon goes on.
ListenFalco ==
    /\ Advance("listening", "bound")
    /\ listener' \in {listener, [listener EXCEPT !["falco"] = "open"]}
    /\ UNCHANGED <<timer, bus, sigs, requests, logger>>

\* daemon.started, and READY to systemd.
Announce ==
    /\ Advance("bound", "ready")
    /\ Log(EventOf(Daemon, "daemon.started"))
    /\ UNCHANGED <<timer, listener, bus, sigs, requests>>

\* signal.Notify: from here on signals go to sigCh.
Notify ==
    /\ Advance("ready", "serving")
    /\ UNCHANGED <<timer, listener, bus, sigs, requests, logger>>

-----------------------------------------------------------------------------
(* Signals *)

\* Requests that are under way when the process is gone.
Cut == [r \in Requests |-> IF at[r] \in InFlight THEN "cut" ELSE at[r]]

\* Mutant: a channel without a buffer.
DeliverUnbuffered(s) ==
    signals' = IF signals = <<>> /\ phase = "serving" THEN <<s>> ELSE signals

\* The runtime does not wait for room in the channel.
Deliver(s) == signals' = IF signals = <<>> THEN <<s>> ELSE signals

\* SIGINT is treated as SIGTERM.
Signal(s) ==
    /\ phase \notin Starting \cup Ended
    /\ sent < MaxSignals
    /\ sent' = sent + 1
    /\ wanted' = (wanted \/ s = "HUP")
    /\ Deliver(s)
    /\ UNCHANGED <<main, requests, logger>>

\* Before signal.Notify any of them ends the process, also while requests are
\* served.
KilledByDefault ==
    /\ phase \in Starting
    /\ sent < MaxSignals
    /\ sent' = sent + 1
    /\ phase' = "killed"
    /\ at' = Cut
    /\ listener' = [v \in Listeners |-> "off"]
    /\ bus' = FALSE
    /\ UNCHANGED <<signals, wanted, timer, kind, via, logger>>

TakeHangup ==
    /\ Advance("serving", "reloading")
    /\ signals = <<"HUP">>
    /\ signals' = <<>>
    /\ wanted' = FALSE
    /\ UNCHANGED <<sent, timer, listener, bus, requests, logger>>

ReloadEnds ==
    /\ phase = "reloading"
    /\ phase' \in {"serving", "reloaded"}
    /\ UNCHANGED <<timer, listener, bus, sigs, requests, logger>>

LogReload ==
    /\ Advance("reloaded", "serving")
    /\ Log(EventOf(Daemon, "policy.reloaded"))
    /\ UNCHANGED <<timer, listener, bus, sigs, requests>>

-----------------------------------------------------------------------------
(* Shutdown *)

\* Mutant: Falco's server is left out of Shutdown.
TakeTermFalcoLeftOn ==
    /\ Advance("serving", "drainfalco")
    /\ signals = <<"TERM">>
    /\ signals' = <<>>
    /\ timer' = "running"
    /\ UNCHANGED <<sent, wanted, listener, bus, requests, logger>>

\* STOPPING to systemd; 30 seconds for both servers, Falco's first.  The API
\* goes on accepting meanwhile.
TakeTerm ==
    /\ Advance("serving", "drainfalco")
    /\ signals = <<"TERM">>
    /\ signals' = <<>>
    /\ timer' = "running"
    /\ listener' = [listener EXCEPT !["falco"] = "off"]
    /\ UNCHANGED <<sent, wanted, bus, requests, logger>>

Expire ==
    /\ phase \in Draining
    /\ timer = "running"
    /\ timer' = "expired"
    /\ UNCHANGED <<phase, listener, bus, sigs, requests, logger>>

\* Mutant: Shutdown closes the listener and does not wait.
DrainedAtOnce(v) == TRUE

\* Mutant: Shutdown is given a context without a deadline.
DrainedWithoutDeadline(v) ==
    \A r \in Requests : via[r] = v => at[r] \notin InFlight

\* http.Server.Shutdown returns when its last request is answered or when
\* the context is done.
Drained(v) ==
    \/ \A r \in Requests : via[r] = v => at[r] \notin InFlight
    \/ timer = "expired"

FalcoDrained ==
    /\ Advance("drainfalco", "drainapi")
    /\ Drained("falco")
    /\ listener' = [listener EXCEPT !["api"] = "off"]
    /\ UNCHANGED <<timer, bus, sigs, requests, logger>>

ApiDrained ==
    /\ Advance("drainapi", "drained")
    /\ Drained("api")
    /\ UNCHANGED <<timer, listener, bus, sigs, requests, logger>>

LogShutdown ==
    /\ Advance("drained", "bye")
    /\ Log(Farewell)
    /\ UNCHANGED <<timer, listener, bus, sigs, requests>>

\* The deferred calls: sandbox.Close, then auditor.Close, then the end.
CloseBus ==
    /\ Advance("bye", "unplugged")
    /\ bus' = FALSE
    /\ UNCHANGED <<timer, listener, sigs, requests, logger>>

CloseTrail ==
    /\ Advance("unplugged", "closed")
    /\ UNCHANGED <<timer, listener, bus, sigs, requests, logger>>

Exit ==
    /\ Advance("closed", "down")
    /\ at' = Cut
    /\ UNCHANGED <<timer, listener, bus, kind, via, sigs, logger>>

-----------------------------------------------------------------------------
(* Requests *)

Go(r, from, to) == at[r] = from /\ at' = [at EXCEPT ![r] = to]

Only == UNCHANGED <<main, sigs, kind, via>>

\* Falco's listener has one route; the API has them all.
Arrive(r, k, v) ==
    /\ listener[v] = "open"
    /\ v = "falco" => k \in Alerts
    /\ Go(r, "away", "reading")
    /\ kind' = [kind EXCEPT ![r] = k]
    /\ via' = [via EXCEPT ![r] = v]
    /\ UNCHANGED <<main, sigs, logger>>

\* An alert is logged before anything else is done about it.
FirstStep(k) == IF k \in Alerts THEN "logging" ELSE "calling"

\* The whole body has come.
Read(r) ==
    /\ Go(r, "reading", FirstStep(kind[r]))
    /\ Only /\ UNCHANGED logger

\* A body that does not decode: an error, or for Falco an empty success.
Malformed(r) ==
    /\ Go(r, "reading", "refused")
    /\ kind[r] \in {"act"} \cup Alerts
    /\ Only /\ UNCHANGED logger

\* What follows a call of the manager or the engine that has not failed.
AfterCall(k) ==
    CASE k = "read" -> "answering"
      [] k = "job" -> "waiting"
      [] OTHER -> "logging"

Call(r) ==
    /\ kind[r] = "job" => bus
    /\ Go(r, "calling", AfterCall(kind[r]))
    /\ Only /\ UNCHANGED logger

\* Mutant: an error of Evaluate or Reload is answered as a success.
FailedUnseen == "answering"

Failed == "refused"

\* Every error is answered without an audit event, that of an evaluation too.
CallFails(r) ==
    /\ Go(r, "calling", Failed)
    /\ Only /\ UNCHANGED logger

\* systemd answers the job, well or not, as long as the connection is open.
JobDone(r) ==
    /\ bus
    /\ Go(r, "waiting", "logging")
    /\ Only /\ UNCHANGED logger

JobFails(r) ==
    /\ bus
    /\ kind[r] = "job"
    /\ Go(r, "waiting", "refused")
    /\ Only /\ UNCHANGED logger

LogRequest(r) ==
    /\ Go(r, "logging", IF kind[r] = "critical" THEN "killing" ELSE "answering")
    /\ Log(EventOf(r, Type(kind[r])))
    /\ Only

\* Kill for a critical alert; its error is logged elsewhere and answered 200.
KillAgent(r) ==
    /\ bus
    /\ Go(r, "killing", "loggingkill")
    /\ Only /\ UNCHANGED logger

KillFails(r) ==
    /\ Go(r, "killing", "answering")
    /\ Only /\ UNCHANGED logger

LogKill(r) ==
    /\ Go(r, "loggingkill", "answering")
    /\ Log(EventOf(r, "agent.killed"))
    /\ Only

Answer(r) ==
    /\ Go(r, "answering", "answered")
    /\ Only /\ UNCHANGED logger

-----------------------------------------------------------------------------

\* What run() does next.
MainStep ==
    \/ OpenTrail \/ Connect \/ Restore \/ StartFails
    \/ Listen \/ ListenFalco \/ Announce \/ Notify
    \/ TakeHangup \/ ReloadEnds \/ LogReload
    \/ TakeTerm \/ FalcoDrained \/ ApiDrained
    \/ LogShutdown \/ CloseBus \/ CloseTrail \/ Exit

\* What the handler of a request does next.
Step(r) ==
    \/ Read(r) \/ Malformed(r) \/ Call(r) \/ CallFails(r)
    \/ JobDone(r) \/ JobFails(r) \/ LogRequest(r)
    \/ KillAgent(r) \/ KillFails(r) \/ LogKill(r) \/ Answer(r)

Next ==
    \/ MainStep
    \/ Expire
    \/ \E s \in {"HUP", "TERM"} : Signal(s)
    \/ KilledByDefault
    \/ \E r \in Requests :
          \/ \E k \in Kinds, v \in Listeners : Arrive(r, k, v)
          \/ phase \notin Ended /\ Step(r)

\* run() runs and time passes.  Nothing is assumed of requests: a client may
\* never send its body and systemd may never answer.
Fairness == WF_vars(MainStep) /\ WF_vars(Expire)

Spec == Init /\ [][Next]_vars

FairSpec == Spec /\ Fairness

-----------------------------------------------------------------------------
(* Properties *)

\* Every variable has its type; what has not arrived is of no kind, and the log
\* file misses nothing that came before daemon.shutdown.
TypeOK ==
    /\ phase \in Starting \cup {"serving", "reloading", "reloaded"}
                 \cup Draining \cup Leaving \cup Ended
    /\ signals \in {<<>>, <<"HUP">>, <<"TERM">>}
    /\ sent \in 0..MaxSignals
    /\ wanted \in BOOLEAN
    /\ timer \in {"off", "running", "expired"}
    /\ listener \in [Listeners -> {"off", "open"}]
    /\ bus \in BOOLEAN
    /\ at \in [Requests -> InFlight \cup {"away", "answered", "refused", "cut"}]
    /\ kind \in [Requests -> Kinds \cup {"none"}]
    /\ via \in [Requests -> Listeners \cup {"none"}]
    /\ trail \subseteq Event
    /\ missing \subseteq late /\ late \subseteq trail
    /\ \A r \in Requests :
          (at[r] = "away" <=> kind[r] = "none") /\ (kind[r] = "none" <=> via[r] = "none")

\* Whoever is answered that something was done, decided or noted finds the
\* event of it in the journal and in the log file, also when the answer comes
\* while the daemon shuts down; only the file misses what a handler does that
\* has outlived the 30 seconds.
AnsweredIsLogged ==
    \A r \in Requests : at[r] = "answered" /\ kind[r] # "read" =>
        LET e == EventOf(r, Type(kind[r]))
        IN  e \in trail /\ (e \in missing => timer = "expired")

\* daemon.shutdown closes the trail: an event after it is of a request that
\* was still open when the 30 seconds were over.
NothingAfterShutdown == late # {} => timer = "expired"

\* A shutdown cuts off no request that it has accepted, through either
\* listener and at any time before, unless the 30 seconds run out; a signal
\* before signal.Notify does.
GracefulCutsNobody ==
    \A r \in Requests :
        at[r] = "cut" => timer = "expired" \/ phase = "killed"

\* A SIGTERM that has found room in sigCh ends the process, whatever reloads
\* come first and whatever requests hang.  One that arrives behind a SIGHUP
\* that still fills the channel is lost.
TermObeyed == signals = <<"TERM">> ~> phase = "down"

\* Whoever sends SIGHUP after editing a policy sees a reload that begins after
\* the signal, unless the daemon ends: a SIGHUP that finds the channel full
\* is lost without harm.
HangupServed == wanted ~> ~wanted \/ phase = "down"
=============================================================================
