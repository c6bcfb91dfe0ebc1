------------------------- MODULE DaemonServerProofs -------------------------
(***************************************************************************)
(* Proofs about DaemonServer for any set of requests and any number of     *)
(* signals: what a shutdown leaves behind, and what is in the audit trail. *)
(***************************************************************************)
EXTENDS DaemonServer, TLAPS

USE DaemonAssumption
USE DEF vars, main, sigs, requests, logger, Listeners, Kinds, Alerts, InFlight,
        Starting, Draining, Leaving, Ended, Advance, Go, Only

\* The events are events, and the daemon's farewell is no request's.
LEMMA EventTypes ==
    /\ Farewell \in Event
    /\ EventOf(Daemon, "daemon.started") \in Event
    /\ EventOf(Daemon, "policy.reloaded") \in Event
    /\ EventOf(Daemon, "daemon.started") # Farewell
    /\ EventOf(Daemon, "policy.reloaded") # Farewell
    /\ \A r \in Requests, k \in Kinds :
          EventOf(r, Type(k)) \in Event /\ EventOf(r, Type(k)) # Farewell
    /\ \A r \in Requests :
          /\ EventOf(r, "agent.killed") \in Event
          /\ EventOf(r, "agent.killed") # Farewell
BY DEF Farewell, EventOf, Event, Types, Type

\* The listeners are on from their start to the shutdown, and no request is
\* under way before the API listens or after the end of the process.
Reachable ==
    /\ listener["api"] = "open" =>
          phase \in {"listening", "bound", "ready", "serving", "reloading",
                     "reloaded", "drainfalco"}
    /\ listener["falco"] = "open" =>
          phase \in {"bound", "ready", "serving", "reloading", "reloaded"}
    /\ timer # "off" => phase \in Draining \cup Leaving \cup {"down"}
    /\ \A r \in Requests : at[r] \in InFlight =>
          phase \notin {"start", "trail", "connected", "restored"} \cup Ended

\* What Shutdown has waited for is not under way any more.
Served ==
    \A r \in Requests : at[r] \in InFlight /\ timer # "expired" =>
        /\ via[r] = "falco" => phase \notin {"drainapi"} \cup Leaving
        /\ via[r] = "api" => phase \notin Leaving

\* The farewell is logged once both servers are down, before anything closes.
Farewelled ==
    Farewell \in trail <=> phase \in {"bye", "unplugged", "closed", "down"}

\* A handler that is past its event has it in the trail.
Recorded ==
    \A r \in Requests :
        /\ at[r] \in {"answering", "answered", "killing", "loggingkill"}
        /\ kind[r] # "read"
        => EventOf(r, Type(kind[r])) \in trail

\* The inductive invariant.
Inv ==
    /\ TypeOK /\ Reachable /\ Served /\ Farewelled /\ Recorded
    /\ GracefulCutsNobody /\ NothingAfterShutdown

\* It holds at the start of the process.
LEMMA InvInit == Init => Inv
<1> SUFFICES ASSUME Init PROVE Inv
  OBVIOUS
<1>1. TypeOK
  <2>1. phase = "start" /\ signals = <<>> /\ sent \in 0..MaxSignals /\ timer = "off"
    BY DEF Init, DaemonAssumption
  <2>2. wanted \in BOOLEAN /\ bus \in BOOLEAN
    BY DEF Init
  <2>3. listener \in [Listeners -> {"off", "open"}] /\ at = [r \in Requests |-> "away"]
    BY DEF Init
  <2>4. kind = [r \in Requests |-> "none"] /\ via = kind
    BY DEF Init
  <2>5. trail = {} /\ late = {} /\ missing = {}
    BY DEF Init
  <2> QED
    BY <2>1, <2>2, <2>3, <2>4, <2>5 DEF TypeOK
<1>2. Reachable /\ Served /\ GracefulCutsNobody
  BY DEF Init, Reachable, Served, GracefulCutsNobody
<1>3. Farewelled /\ Recorded /\ NothingAfterShutdown
  BY DEF Init, Farewelled, Recorded, NothingAfterShutdown
<1> QED
  BY <1>1, <1>2, <1>3 DEF Inv

\* Steps of run() that neither log nor end the process.
LEMMA InvQuiet ==
    ASSUME Inv,
           \/ OpenTrail \/ Connect \/ Restore \/ StartFails \/ Listen
           \/ ListenFalco \/ Notify \/ TakeHangup \/ ReloadEnds
           \/ TakeTerm \/ Expire \/ FalcoDrained \/ ApiDrained
           \/ CloseBus \/ CloseTrail
    PROVE  Inv'
<1> USE DEF Inv, TypeOK, Reachable, Served, Farewelled, Recorded,
            GracefulCutsNobody, NothingAfterShutdown
<1>1. CASE OpenTrail \/ Connect \/ Restore
  BY <1>1 DEF OpenTrail, Connect, Restore
<1>2. CASE StartFails
  BY <1>2 DEF StartFails
<1>10. CASE Listen
  BY <1>10 DEF Listen
<1>3. CASE TakeHangup
  BY <1>3 DEF TakeHangup
<1>4. CASE TakeTerm
  BY <1>4 DEF TakeTerm
<1>5. CASE Expire
  BY <1>5 DEF Expire
<1>6. CASE FalcoDrained
  BY <1>6 DEF FalcoDrained, Drained
<1>7. CASE ApiDrained
  BY <1>7 DEF ApiDrained, Drained
<1>8. CASE ListenFalco \/ Notify \/ ReloadEnds
  BY <1>8 DEF ListenFalco, Notify, ReloadEnds
<1>9. CASE CloseBus \/ CloseTrail
  BY <1>9 DEF CloseBus, CloseTrail
<1> QED
  BY <1>1, <1>2, <1>3, <1>4, <1>5, <1>6, <1>7, <1>8, <1>9,
     <1>10

\* Steps of run() that log.
LEMMA InvMainLogs ==
    ASSUME Inv, Announce \/ LogReload \/ LogShutdown
    PROVE  Inv'
<1> USE EventTypes DEF Inv, TypeOK, Reachable, Served, Farewelled, Recorded,
            GracefulCutsNobody, NothingAfterShutdown
<1>1. CASE Announce
  BY <1>1 DEF Announce, Log
<1>2. CASE LogReload
  BY <1>2 DEF LogReload, Log
<1>3. CASE LogShutdown
  BY <1>3 DEF LogShutdown, Log
<1> QED
  BY <1>1, <1>2, <1>3

\* Signals, and the two ways in which the process ends with requests open.
LEMMA InvSignals ==
    ASSUME Inv, (\E s \in {"HUP", "TERM"} : Signal(s)) \/ KilledByDefault \/ Exit
    PROVE  Inv'
<1> USE DEF Inv, TypeOK, Reachable, Served, Farewelled, Recorded,
            GracefulCutsNobody, NothingAfterShutdown
<1>1. CASE \E s \in {"HUP", "TERM"} : Signal(s)
  <2> PICK s \in {"HUP", "TERM"} : Signal(s)
    BY <1>1
  <2>1. signals' \in {<<>>, <<"HUP">>, <<"TERM">>}
    BY DEF Signal, Deliver
  <2>2. sent' \in 0..MaxSignals
    BY DEF Signal
  <2>3. wanted' \in BOOLEAN
    <3> HIDE DEF Reachable, Served, Farewelled, Recorded, GracefulCutsNobody,
                 NothingAfterShutdown
    <3> QED
      BY Zenon DEF Signal
  <2> QED
    BY <2>1, <2>2, <2>3 DEF Signal
<1>2. CASE KilledByDefault
  <2> USE <1>2 DEF KilledByDefault
  <2>1. at' \in [Requests -> InFlight \cup {"away", "answered", "refused", "cut"}]
    BY DEF Cut
  <2>2. \A r \in Requests : at'[r] \notin InFlight /\ (at'[r] = "away" <=> at[r] = "away")
    BY DEF Cut
  <2>3. \A r \in Requests : at'[r] \in {"answered", "cut"} =>
            at[r] = at'[r] \/ at'[r] = "cut"
    BY DEF Cut
  <2>4. sent' \in 0..MaxSignals /\ listener' \in [Listeners -> {"off", "open"}]
    OBVIOUS
  <2>5. TypeOK'
    BY <2>1, <2>2, <2>4
  <2>6. Reachable' /\ Served' /\ GracefulCutsNobody'
    BY <2>2
  <2>7. Farewelled' /\ NothingAfterShutdown'
    OBVIOUS
  <2>8. Recorded'
    BY <2>2, <2>3
  <2> QED
    BY <2>5, <2>6, <2>7, <2>8
<1>3. CASE Exit
  BY <1>3 DEF Exit, Cut
<1> QED
  BY <1>1, <1>2, <1>3

\* Steps of a request that leave the trail alone.
LEMMA InvRequestQuiet ==
    ASSUME Inv, NEW r \in Requests,
           \/ \E k \in Kinds, v \in Listeners : Arrive(r, k, v)
           \/ phase \notin Ended /\
                 \/ Read(r) \/ Malformed(r) \/ Call(r) \/ CallFails(r)
                 \/ JobDone(r) \/ JobFails(r) \/ KillAgent(r) \/ KillFails(r)
                 \/ Answer(r)
    PROVE  Inv'
<1> USE DEF Inv, TypeOK, Reachable, Served, Farewelled, Recorded,
            GracefulCutsNobody, NothingAfterShutdown
<1>1. CASE \E k \in Kinds, v \in Listeners : Arrive(r, k, v)
  BY <1>1 DEF Arrive
<1>2. CASE Read(r) \/ Malformed(r)
  BY <1>2 DEF Read, Malformed, FirstStep
<1>3. CASE Call(r) \/ CallFails(r)
  BY <1>3 DEF Call, CallFails, AfterCall, Failed
<1>4. CASE JobDone(r) \/ JobFails(r)
  BY <1>4 DEF JobDone, JobFails
<1>5. CASE KillAgent(r) \/ KillFails(r)
  BY <1>5 DEF KillAgent, KillFails
<1>6. CASE Answer(r)
  BY <1>6 DEF Answer
<1> QED
  BY <1>1, <1>2, <1>3, <1>4, <1>5, <1>6

\* Steps of a request that log.
LEMMA InvRequestLogs ==
    ASSUME Inv, NEW r \in Requests, LogRequest(r) \/ LogKill(r), phase \notin Ended
    PROVE  Inv'
<1> USE EventTypes DEF Inv, TypeOK, Reachable, Served, Farewelled, Recorded,
            GracefulCutsNobody, NothingAfterShutdown
<1>1. CASE LogRequest(r)
  BY <1>1 DEF LogRequest, Log
<1>2. CASE LogKill(r)
  BY <1>2 DEF LogKill, Log
<1> QED
  BY <1>1, <1>2

\* The invariant holds in every reachable state.
LEMMA InvAlways == Spec => []Inv
<1>1. Inv /\ [Next]_vars => Inv'
  <2> SUFFICES ASSUME Inv, [Next]_vars PROVE Inv'
    OBVIOUS
  <2>1. CASE UNCHANGED vars
    BY <2>1 DEF Inv, TypeOK, Reachable, Served, Farewelled, Recorded,
                GracefulCutsNobody, NothingAfterShutdown
  <2>2. CASE MainStep
    BY <2>2, InvQuiet, InvMainLogs, InvSignals DEF MainStep
  <2>3. CASE Expire
    BY <2>3, InvQuiet
  <2>4. CASE (\E s \in {"HUP", "TERM"} : Signal(s)) \/ KilledByDefault
    BY <2>4, InvSignals
  <2>5. CASE \E r \in Requests, k \in Kinds, v \in Listeners : Arrive(r, k, v)
    BY <2>5, InvRequestQuiet
  <2>6. CASE \E r \in Requests : phase \notin Ended /\ Step(r)
    <3> PICK r \in Requests : phase \notin Ended /\ Step(r)
      BY <2>6
    <3> QED
      BY InvRequestQuiet, InvRequestLogs DEF Step
  <2> QED
    BY <2>1, <2>2, <2>3, <2>4, <2>5, <2>6 DEF Next
<1> QED
  BY <1>1, InvInit, PTL DEF Spec

-----------------------------------------------------------------------------

\* Every variable has its type, and the log file misses at most what is
\* logged after daemon.shutdown.
THEOREM TypeCorrect == Spec => []TypeOK
BY InvAlways, PTL DEF Inv

\* Whoever is answered that something was done finds its event in the journal
\* and, unless the 30 seconds have run out, in the log file.
THEOREM AnswersLogged == Spec => []AnsweredIsLogged
<1>1. Inv => AnsweredIsLogged
  BY DEF Inv, TypeOK, Recorded, NothingAfterShutdown, AnsweredIsLogged
<1> QED
  BY <1>1, InvAlways, PTL

\* No event follows daemon.shutdown within the 30 seconds.
THEOREM FarewellLast == Spec => []NothingAfterShutdown
BY InvAlways, PTL DEF Inv

\* A shutdown that keeps within the 30 seconds cuts off no request.
THEOREM ShutdownGraceful == Spec => []GracefulCutsNobody
BY InvAlways, PTL DEF Inv

-----------------------------------------------------------------------------
(* What HangupServed and TermObeyed rest on *)

\* A SIGHUP that has been sent and for which no reload has begun yet still
\* stands behind a signal in the channel, unless the daemon shuts down.
HangupStands ==
    wanted => signals # <<>> \/ phase \in Draining \cup Leaving \cup {"down"}

\* While the servers drain, the 30 seconds run or are over.
DeadlineRuns == phase \in Draining => timer \in {"running", "expired"}

\* Only Signal and TakeHangup touch wanted, and only they and TakeTerm the
\* channel.
LEMMA SignalsUnchanged ==
    ASSUME [Next]_vars, ~TakeHangup, ~TakeTerm,
           \A s \in {"HUP", "TERM"} : ~Signal(s)
    PROVE  UNCHANGED <<signals, wanted>>
<1>1. CASE UNCHANGED vars
  BY <1>1
<1>2. CASE MainStep
  BY <1>2 DEF MainStep, OpenTrail, Connect, Restore, StartFails, Listen,
              ListenFalco, Announce, Notify, ReloadEnds, LogReload,
              FalcoDrained, ApiDrained, LogShutdown, CloseBus, CloseTrail, Exit
<1>3. CASE Expire \/ KilledByDefault
  BY <1>3 DEF Expire, KilledByDefault
<1>4. CASE \E r \in Requests :
              \/ \E k \in Kinds, v \in Listeners : Arrive(r, k, v)
              \/ phase \notin Ended /\ Step(r)
  BY <1>4 DEF Arrive, Step, Read, Malformed, Call, CallFails, JobDone, JobFails,
              LogRequest, KillAgent, KillFails, LogKill, Answer
<1> QED
  BY <1>1, <1>2, <1>3, <1>4 DEF Next

\* How much of the shutdown is left.
Left(p) ==
    CASE p = "drainfalco" -> 6
      [] p = "drainapi" -> 5
      [] p = "drained" -> 4
      [] p = "bye" -> 3
      [] p = "unplugged" -> 2
      [] p = "closed" -> 1
      [] OTHER -> 0

\* What a step does to the phase: a shutdown begins with TakeTerm only, and
\* goes on to its next point.
LEMMA PhaseMoves ==
    ASSUME Inv, [Next]_vars
    PROVE  /\ phase' \in Draining \cup Leaving =>
                 phase \in Draining \cup Leaving \/ TakeTerm
           /\ phase \in Draining \cup Leaving =>
                 \/ phase' = phase
                 \/ phase' \in Draining \cup Leaving \cup {"down"} /\ Left(phase') < Left(phase)
           /\ phase = "down" => phase' = "down"
           /\ phase \in Draining \cup Leaving => timer' = timer \/ timer' = "expired"
<1>1. CASE UNCHANGED vars
  BY <1>1
<1>2. CASE MainStep
  <2> USE DEF Left
  <2>1. CASE OpenTrail \/ Connect \/ Restore \/ StartFails \/ Listen \/ ListenFalco
    BY <2>1 DEF OpenTrail, Connect, Restore, StartFails, Listen, ListenFalco
  <2>2. CASE Announce \/ Notify \/ TakeHangup \/ ReloadEnds \/ LogReload
    BY <2>2 DEF Announce, Notify, TakeHangup, ReloadEnds, LogReload
  <2>3. CASE TakeTerm
    BY <2>3 DEF TakeTerm
  <2>4. CASE FalcoDrained \/ ApiDrained \/ LogShutdown
    BY <2>4 DEF FalcoDrained, ApiDrained, LogShutdown
  <2>5. CASE CloseBus \/ CloseTrail \/ Exit
    BY <2>5 DEF CloseBus, CloseTrail, Exit
  <2> QED
    BY <1>2, <2>1, <2>2, <2>3, <2>4, <2>5 DEF MainStep
<1>3. CASE Expire \/ KilledByDefault \/ \E s \in {"HUP", "TERM"} : Signal(s)
  BY <1>3 DEF Expire, KilledByDefault, Signal
<1>4. CASE \E r \in Requests :
              \/ \E k \in Kinds, v \in Listeners : Arrive(r, k, v)
              \/ phase \notin Ended /\ Step(r)
  BY <1>4 DEF Arrive, Step, Read, Malformed, Call, CallFails, JobDone, JobFails,
              LogRequest, KillAgent, KillFails, LogKill, Answer
<1> QED
  BY <1>1, <1>2, <1>3, <1>4 DEF Next

\* No SIGHUP is lost, although the runtime drops it when the channel is full,
\* and the drain of a server always has a deadline: what HangupServed and
\* TermObeyed need beside a main loop that goes on.
THEOREM SignalsStand == Spec => [](HangupStands /\ DeadlineRuns)
<1>1. Init => HangupStands /\ DeadlineRuns
  BY DEF Init, HangupStands, DeadlineRuns
<1>2. Inv /\ HangupStands /\ [Next]_vars => HangupStands'
  <2> SUFFICES ASSUME Inv, HangupStands, [Next]_vars PROVE HangupStands'
    OBVIOUS
  <2>1. CASE TakeHangup
    BY <2>1 DEF TakeHangup, HangupStands
  <2>2. CASE TakeTerm
    BY <2>2 DEF TakeTerm, HangupStands
  <2>3. ASSUME NEW s \in {"HUP", "TERM"}, Signal(s)
        PROVE  HangupStands'
    BY <2>3 DEF Signal, Deliver, HangupStands
  <2>4. CASE UNCHANGED <<signals, wanted>>
    BY <2>4, PhaseMoves DEF HangupStands
  <2> QED
    BY <2>1, <2>2, <2>3, <2>4, SignalsUnchanged
<1>3. Inv /\ DeadlineRuns /\ [Next]_vars => DeadlineRuns'
  <2> SUFFICES ASSUME Inv, DeadlineRuns, [Next]_vars PROVE DeadlineRuns'
    OBVIOUS
  <2>1. CASE TakeTerm
    BY <2>1 DEF TakeTerm, DeadlineRuns
  <2>2. CASE ~TakeTerm /\ phase' \in Draining
    <3>1. phase \in Draining
      BY <2>2, PhaseMoves DEF Left
    <3> QED
      BY <3>1, PhaseMoves DEF DeadlineRuns
  <2> QED
    BY <2>1, <2>2 DEF DeadlineRuns
<1> QED
  BY <1>1, <1>2, <1>3, InvAlways, PTL DEF Spec

\* A SIGTERM in the channel stays there until the shutdown begins, which no
\* later signal, request or reload takes back: from then on the daemon only
\* comes nearer to its end.
THEOREM ShutdownOnlyAdvances ==
    Spec => [][/\ signals = <<"TERM">> =>
                     signals' = <<"TERM">> \/ phase' = "drainfalco"
               /\ phase \in Draining \cup Leaving /\ phase' # phase =>
                     /\ phase' \in Draining \cup Leaving \cup {"down"}
                     /\ Left(phase') < Left(phase)
               /\ phase = "down" => phase' = "down"]_vars
<1> DEFINE Advances ==
        /\ signals = <<"TERM">> => signals' = <<"TERM">> \/ phase' = "drainfalco"
        /\ phase \in Draining \cup Leaving /\ phase' # phase =>
              /\ phase' \in Draining \cup Leaving \cup {"down"}
              /\ Left(phase') < Left(phase)
        /\ phase = "down" => phase' = "down"
<1>1. Inv /\ [Next]_vars => [Advances]_vars
  <2> SUFFICES ASSUME Inv, [Next]_vars PROVE Advances
    OBVIOUS
  <2>1. signals = <<"TERM">> => signals' = <<"TERM">> \/ phase' = "drainfalco"
    <3>1. CASE TakeHangup \/ TakeTerm
      BY <3>1 DEF TakeHangup, TakeTerm
    <3>2. ASSUME NEW s \in {"HUP", "TERM"}, Signal(s), signals = <<"TERM">>
          PROVE  signals' = signals
      BY <3>2 DEF Signal, Deliver
    <3> QED
      BY <3>1, <3>2, SignalsUnchanged
  <2> QED
    BY <2>1, PhaseMoves
<1> HIDE DEF Advances
<1>2. Spec => [][Advances]_vars
  BY <1>1, InvAlways, PTL DEF Spec
<1> QED
  BY <1>2 DEF Advances
=============================================================================
