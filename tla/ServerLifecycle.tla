--------------------------- MODULE ServerLifecycle ---------------------------
(***************************************************************************)
(* A service process from start to exit: server.Run                        *)
(* (internal/server/server.go), what chatmgmt plugs into it                *)
(* (cmd/chatmgmt/setup.go), the requests in flight and the SMS goroutines  *)
(* they leave behind (AuthService.bgWG).                                   *)
(*                                                                         *)
(* The goroutines are Run itself, which becomes the shutdown function once *)
(* the servers are started, one per server, one per request and one per    *)
(* SMS.  Time is counted from the moment the shutdown begins and passes    *)
(* only while the shutdown function waits: local code takes none.          *)
(***************************************************************************)
EXTENDS Naturals

CONSTANTS
    Requests,             \* the requests that clients send
    ShutdownDrainDelay, ShutdownHTTPTimeout, ShutdownOTELTimeout,
    HandlerTime,          \* assumption: how long a handler may run
    SendTime              \* assumption: how long sending an SMS may take

ASSUME ServerAssumption ==
    /\ ShutdownDrainDelay \in Nat \ {0}
    /\ ShutdownHTTPTimeout \in Nat \ {0}
    /\ ShutdownOTELTimeout \in Nat \ {0}
    /\ HandlerTime \in Nat \ {0}
    /\ SendTime \in Nat \ {0}

VARIABLES
    params,         \* which of "grpc" and "setup" the service has
    phase,          \* where Run, then the shutdown function, is
    result,         \* the first error of Run or of its errgroup, and what Run returned
    cancelled,      \* {"ctx"} once the context is done
    open,           \* clients, providers and listeners that are open
    srv,            \* per server, where its goroutine is
    quit,           \* the servers that were told to stop
    shuttingDown,   \* {"flag"} once the flag is set
    probe,          \* {t} if /healthz last said 200, at t
    clock,          \* ticks since the shutdown began
    timer,          \* when the current wait of the shutdown function times out
    req,            \* per request, the handler
    sms,            \* per request, the goroutine that sends its SMS
    stragglers      \* history: the requests httpSrv.Shutdown gave up on

runVars      == <<params, phase, result, cancelled, open>>
serverVars   == <<srv, quit>>
shutdownVars == <<shuttingDown, timer, stragglers>>
requestVars  == <<req, sms>>
serverLifecycleVars == <<runVars, serverVars, shutdownVars, probe, clock, requestVars>>

Servers == {"http", "grpc"}

Phases ==
    {"config", "tracer", "metrics", "setup", "listen_http", "listen_grpc", "serving", "drain",
     "stop_grpc", "stop_http", "wait", "close", "flush_metrics", "flush_traces", "finished",
     "returned"}

Handler == [pc : {"idle", "redis", "store", "done"}, via : Servers, by : Nat,
            answer : {"none", "ok", "ErrUnavailable", "refused"}]

NewHandler == [pc |-> "idle", via |-> "http", by |-> 0, answer |-> "none"]

\* The handler of r returns, and the client has its answer.
Answers(r, answer) ==
    req' = [req EXCEPT ![r] = [NewHandler EXCEPT !.pc = "done", !.answer = answer]]

ServerTypeOK ==
    /\ params \in SUBSET {"grpc", "setup"}
    /\ phase \in Phases
    /\ result \in {"none", "nil", "error"}
    /\ cancelled \in SUBSET {"ctx"}
    /\ open \in SUBSET {"tracer", "metrics", "redis", "http", "grpc"}
    /\ srv \in [Servers -> {"none", "starting", "serving", "closed"}]
    /\ quit \in SUBSET Servers
    /\ shuttingDown \in SUBSET {"flag"}
    /\ probe \in SUBSET Nat
    /\ clock \in Nat
    /\ timer \in Nat
    /\ req \in [Requests -> Handler]
    /\ sms \in [Requests -> [pc : {"none", "sending", "done"}, by : Nat]]
    /\ stragglers \in SUBSET Requests

\* chatmgmt has both; gateway, ingest and fanout serve /healthz only.
ServerInit ==
    /\ params \in {{"grpc", "setup"}, {}}
    /\ phase = "config"
    /\ result = "none"
    /\ cancelled = {}
    /\ open = {}
    /\ srv = [s \in Servers |-> "none"]
    /\ quit = {}
    /\ shuttingDown = {}
    /\ probe = {}
    /\ clock = 0
    /\ timer = 0
    /\ req = [r \in Requests |-> NewHandler]
    /\ sms = [r \in Requests |-> [pc |-> "none", by |-> 0]]
    /\ stragglers = {}

Running(r) == req[r].pc \in {"redis", "store"}
Sending(r) == sms[r].pc = "sending"

\* The process exits as soon as Run returns.
Alive == phase # "returned"

-----------------------------------------------------------------------------
(***************************************************************************)
(* Run, up to the start of the servers.                                    *)
(***************************************************************************)

\* One step of the start: it succeeds, having opened what, or Run returns its error;
\* nothing that was opened before is closed then.
Initialise(from, to, what) ==
    /\ phase = from
    /\ \/ phase' = to /\ open' = open \cup what /\ UNCHANGED result
       \/ phase' = "returned" /\ result' = "error" /\ UNCHANGED open
    /\ UNCHANGED srv

\* The environment is read and required keys are checked (config.Load).
LoadConfig  == Initialise("config", "tracer", {})
InitTracer  == Initialise("tracer", "metrics", {"tracer"})
InitMetrics == Initialise("metrics", "setup", {"metrics"})
ListenHTTP  == Initialise("listen_http", "listen_grpc", {"http"})

\* setup: it may also fail once the Redis client is created (no key store outside the
\* local environment, grpc-gateway), and then returns no cleanup function.
Setup ==
    \/ "setup" \in params /\ Initialise("setup", "listen_http", {"redis"})
    \/ /\ phase = "setup"
       /\ "setup" \in params
       /\ phase' = "returned"
       /\ result' = "error"
       /\ open' = open \cup {"redis"}
       /\ UNCHANGED srv
    \/ /\ phase = "setup"
       /\ "setup" \notin params
       /\ phase' = "listen_http"
       /\ UNCHANGED <<result, open, srv>>

\* resolveGRPCListener, when there is a gRPC server; then startServers.
StartServers ==
    /\ phase = "listen_grpc"
    /\ \/ /\ phase' = "serving"
          /\ open' = open \cup (params \cap {"grpc"})
          /\ srv' = [s \in Servers |-> IF s \in {"http"} \cup params THEN "starting" ELSE "none"]
          /\ UNCHANGED result
       \/ /\ "grpc" \in params
          /\ phase' = "returned"
          /\ result' = "error"
          /\ UNCHANGED <<open, srv>>

Start ==
    /\ LoadConfig \/ InitTracer \/ InitMetrics \/ Setup \/ ListenHTTP \/ StartServers
    /\ UNCHANGED <<params, cancelled, quit, shutdownVars, probe, clock, requestVars>>

\* SIGTERM or SIGINT, at any time.
Signal ==
    /\ Alive
    /\ cancelled = {}
    /\ cancelled' = {"ctx"}
    /\ UNCHANGED <<params, phase, result, open, serverVars, shutdownVars, probe, clock, requestVars>>

-----------------------------------------------------------------------------
(***************************************************************************)
(* The goroutines of the servers.                                          *)
(***************************************************************************)

\* Serve is entered.  After GracefulStop the gRPC server's returns an error at once,
\* after Shutdown the HTTP server's returns ErrServerClosed, which is not an error.
Serve(s) ==
    /\ srv[s] = "starting"
    /\ \/ s \notin quit /\ srv' = [srv EXCEPT ![s] = "serving"] /\ UNCHANGED <<result, open>>
       \/ /\ s \in quit
          /\ srv' = [srv EXCEPT ![s] = "closed"]
          /\ open' = open \ {s}
          /\ IF s = "grpc" THEN result' = "error" ELSE UNCHANGED result
    /\ UNCHANGED cancelled

\* Mutant: the error is returned, the group's context is not cancelled.
ServeFailsAlone(s) ==
    /\ srv[s] = "serving"
    /\ s \notin quit
    /\ srv' = [srv EXCEPT ![s] = "closed"]
    /\ open' = open \ {s}
    /\ result' = "error"
    /\ UNCHANGED cancelled

\* Serve returns an error: the errgroup keeps it and cancels the context.
ServeFails(s) ==
    /\ srv[s] = "serving"
    /\ s \notin quit
    /\ srv' = [srv EXCEPT ![s] = "closed"]
    /\ open' = open \ {s}
    /\ result' = "error"
    /\ cancelled' = {"ctx"}

\* Serve returns because its server was stopped.
ServeStops(s) ==
    /\ srv[s] = "serving"
    /\ s \in quit
    /\ srv' = [srv EXCEPT ![s] = "closed"]
    /\ UNCHANGED <<result, open, cancelled>>

-----------------------------------------------------------------------------
(***************************************************************************)
(* Requests.                                                               *)
(***************************************************************************)

\* A connection is accepted and its handler starts.  Only the handlers that setup
\* registers use the stores.
Accept(r, s) ==
    /\ req[r].pc = "idle"
    /\ srv[s] = "serving"
    /\ s \notin quit
    /\ req' = [req EXCEPT ![r] =
         [@ EXCEPT !.pc = IF "setup" \in params THEN "redis" ELSE "store", !.via = s,
                   !.by = clock + HandlerTime]]
    /\ UNCHANGED sms

\* The connection is refused: the listener is closed.
Refuse(r, s) ==
    /\ req[r].pc = "idle"
    /\ s \in {"http"} \cup params
    /\ srv[s] = "closed" \/ s \in quit
    /\ Answers(r, "refused")
    /\ UNCHANGED sms

\* RequestOTP asks the rate limiter first, and fails closed.
UseRedis(r) ==
    /\ req[r].pc = "redis"
    /\ \/ "redis" \in open /\ req' = [req EXCEPT ![r].pc = "store"]
       \/ "redis" \notin open /\ Answers(r, "ErrUnavailable")
    /\ UNCHANGED sms

\* The handler answers; a RequestOTP that stored an OTP has added to bgWG and
\* started the goroutine that sends it.
Answer(r) ==
    /\ req[r].pc = "store"
    /\ Answers(r, "ok")
    /\ \/ /\ "setup" \in params
          /\ sms' = [sms EXCEPT ![r] = [pc |-> "sending", by |-> clock + SendTime]]
       \/ UNCHANGED sms

\* SendOTP returns, with an error or not, and bgWG.Done is called.
SendSMS(r) ==
    /\ Sending(r)
    /\ sms' = [sms EXCEPT ![r] = [pc |-> "done", by |-> 0]]
    /\ UNCHANGED req

\* healthHandler
Healthz ==
    /\ Alive
    /\ srv["http"] = "serving"
    /\ "http" \notin quit
    /\ probe' = IF shuttingDown = {} THEN {clock} ELSE {}
    /\ UNCHANGED <<runVars, serverVars, shutdownVars, clock, requestVars>>

-----------------------------------------------------------------------------
(***************************************************************************)
(* shutdownFunc.                                                           *)
(***************************************************************************)

\* The server is told to stop: it closes its listener.
Stop(s) ==
    /\ quit' = quit \cup {s}
    /\ open' = IF srv[s] = "serving" THEN open \ {s} ELSE open

\* Mutant: the health check is not told.
BeginShutdownSilently ==
    /\ phase = "serving"
    /\ cancelled # {}
    /\ phase' = "drain"
    /\ timer' = clock + ShutdownDrainDelay
    /\ UNCHANGED <<result, open, quit, shuttingDown, stragglers>>

\* Lines 250-254: the context is done, /healthz turns to 503, and the sleep begins.
BeginShutdown ==
    /\ phase = "serving"
    /\ cancelled # {}
    /\ phase' = "drain"
    /\ shuttingDown' = {"flag"}
    /\ timer' = clock + ShutdownDrainDelay
    /\ UNCHANGED <<result, open, quit, stragglers>>

\* The sleep is over; GracefulStop is called if there is a gRPC server.
EndDrain ==
    /\ phase = "drain"
    /\ clock >= timer
    /\ phase' = "stop_grpc"
    /\ IF "grpc" \in params THEN Stop("grpc") ELSE UNCHANGED <<open, quit>>
    /\ UNCHANGED <<result, shuttingDown, timer, stragglers>>

GRPCDrained == \A r \in Requests : ~(Running(r) /\ req[r].via = "grpc")
HTTPDrained == \A r \in Requests : ~(Running(r) /\ req[r].via = "http")

\* Mutant: Stop in place of GracefulStop, which does not wait for the handlers.
EndGRPCAtOnce ==
    /\ phase = "stop_grpc"
    /\ phase' = "stop_http"
    /\ Stop("http")
    /\ timer' = clock + ShutdownHTTPTimeout
    /\ UNCHANGED <<result, shuttingDown, stragglers>>

\* GracefulStop returns once no RPC is in flight, however long that takes; Shutdown of
\* the HTTP server is called with a deadline.
EndGRPC ==
    /\ phase = "stop_grpc"
    /\ GRPCDrained
    /\ phase' = "stop_http"
    /\ Stop("http")
    /\ timer' = clock + ShutdownHTTPTimeout
    /\ UNCHANGED <<result, shuttingDown, stragglers>>

\* Shutdown returns, with nothing in flight or at its deadline, which is only logged.
\* The cleanup follows if setup returned one.
EndHTTP ==
    /\ phase = "stop_http"
    /\ HTTPDrained \/ clock >= timer
    /\ stragglers' = {r \in Requests : Running(r) /\ req[r].via = "http"}
    /\ IF "setup" \in params
       THEN phase' = "wait" /\ UNCHANGED timer
       ELSE phase' = "flush_metrics" /\ timer' = clock + ShutdownOTELTimeout
    /\ UNCHANGED <<result, open, quit, shuttingDown>>

\* Mutant: the cleanup does not wait for the SMS goroutines.
EndWaitAtOnce ==
    /\ phase = "wait"
    /\ phase' = "close"
    /\ UNCHANGED <<result, open, quit, shuttingDown, timer, stragglers>>

\* authSvc.Wait() returns when bgWG is at zero; the cleanup ignores its context.
EndWait ==
    /\ phase = "wait"
    /\ \A r \in Requests : ~Sending(r)
    /\ phase' = "close"
    /\ UNCHANGED <<result, open, quit, shuttingDown, timer, stragglers>>

\* redisClient.Close(); an error is only logged.  One deadline for both providers.
CloseRedis ==
    /\ phase = "close"
    /\ phase' = "flush_metrics"
    /\ open' = open \ {"redis"}
    /\ timer' = clock + ShutdownOTELTimeout
    /\ UNCHANGED <<result, quit, shuttingDown, stragglers>>

\* Mutant: the tracer provider gets a deadline of its own.
FlushMetricsRestarts ==
    /\ phase = "flush_metrics"
    /\ phase' = "flush_traces"
    /\ open' = open \ {"metrics"}
    /\ timer' = clock + ShutdownOTELTimeout
    /\ UNCHANGED <<result, quit, shuttingDown, stragglers>>

FlushMetrics ==
    /\ phase = "flush_metrics"
    /\ phase' = "flush_traces"
    /\ open' = open \ {"metrics"}
    /\ UNCHANGED <<result, quit, shuttingDown, timer, stragglers>>

FlushTraces ==
    /\ phase = "flush_traces"
    /\ phase' = "finished"
    /\ open' = open \ {"tracer"}
    /\ UNCHANGED <<result, quit, shuttingDown, timer, stragglers>>

\* g.Wait returns once the servers' goroutines have returned too.
Return ==
    /\ phase = "finished"
    /\ \A s \in Servers : srv[s] \in {"none", "closed"}
    /\ phase' = "returned"
    /\ result' = IF result = "error" THEN "error" ELSE "nil"
    /\ UNCHANGED <<open, quit, shuttingDown, timer, stragglers>>

Shutdown ==
    /\ \/ BeginShutdown \/ EndDrain \/ EndGRPC \/ EndHTTP \/ EndWait \/ CloseRedis
       \/ FlushMetrics \/ FlushTraces \/ Return
    /\ UNCHANGED <<params, cancelled, srv, probe, clock, requestVars>>

\* What the shutdown function waits for; time passes only meanwhile.
Waiting ==
    \/ phase = "drain" /\ clock < timer
    \/ phase = "stop_grpc" /\ ~GRPCDrained
    \/ phase = "stop_http" /\ ~HTTPDrained /\ clock < timer
    \/ phase = "wait" /\ \E r \in Requests : Sending(r)
    \/ phase \in {"flush_metrics", "flush_traces"} /\ clock < timer

Tick ==
    /\ Waiting
    /\ \A r \in Requests : (Running(r) => clock < req[r].by) /\ (Sending(r) => clock < sms[r].by)
    /\ clock' = clock + 1
    /\ UNCHANGED <<runVars, serverVars, shutdownVars, probe, requestVars>>

-----------------------------------------------------------------------------

\* The process has exited.
Exited == phase = "returned" /\ UNCHANGED serverLifecycleVars

ServerStep(s) ==
    /\ Alive
    /\ Serve(s) \/ ServeStops(s) \/ ServeFails(s)
    /\ UNCHANGED <<params, phase, quit, shutdownVars, probe, clock, requestVars>>

RequestStep(r) ==
    /\ Alive
    /\ \/ \E s \in Servers : Accept(r, s) \/ Refuse(r, s)
       \/ UseRedis(r) \/ Answer(r) \/ SendSMS(r)
    /\ UNCHANGED <<runVars, serverVars, shutdownVars, probe, clock>>

ServerNext ==
    \/ Start
    \/ Signal
    \/ Shutdown
    \/ Tick
    \/ Healthz
    \/ \E s \in Servers : ServerStep(s)
    \/ \E r \in Requests : RequestStep(r)
    \/ Exited

ServerSpec == ServerInit /\ [][ServerNext]_serverLifecycleVars

\* Goroutines are scheduled, time passes, and handlers and SMS sends end.  Nobody is
\* obliged to send a request or a signal.
ServerFairSpec ==
    /\ ServerSpec
    /\ WF_serverLifecycleVars(Start)
    /\ WF_serverLifecycleVars(Shutdown)
    /\ WF_serverLifecycleVars(Tick)
    /\ \A s \in Servers :
            WF_serverLifecycleVars((srv[s] = "starting" \/ s \in quit) /\ ServerStep(s))
    /\ \A r \in Requests :
            WF_serverLifecycleVars((Running(r) \/ Sending(r)) /\ RequestStep(r))

-----------------------------------------------------------------------------

\* Params.Setup: the Redis client is closed after both servers stopped, so no handler
\* finds it closed, except one that httpSrv.Shutdown gave up on at its deadline.
OnlyStragglersLoseRedis ==
    \A r \in Requests :
        \/ req[r].answer = "ErrUnavailable"
        \/ Running(r) /\ phase \in {"flush_metrics", "flush_traces", "finished", "returned"}
        => r \in stragglers

\* ADR-018, no goroutine outlives its owner: when Run returns and the process exits, no
\* SMS of an OTP that RequestOTP answered for is still being sent, except for a request
\* that httpSrv.Shutdown gave up on.
SMSNotAbandoned ==
    \A r \in Requests : phase = "returned" /\ Sending(r) => r \in stragglers

\* A service whose servers work refuses no connection until ShutdownDrainDelay after
\* its health check last said it was healthy: the load balancer has that long.
RefusedAfterDrain ==
    [][\A r \in Requests :
         (req'[r].answer = "refused" /\ req[r].answer # "refused" /\ result # "error")
         => \A t \in probe : clock >= t + ShutdownDrainDelay]_serverLifecycleVars

\* How long the shutdown may take: the drain delay, the RPCs accepted until it ends,
\* the HTTP requests accepted until those have ended, the SMS sends of these, and the
\* flush.  ShutdownHTTPTimeout does not enter: the cleanup waits for what straggles.
ShutdownBound == ShutdownDrainDelay + 2 * HandlerTime + SendTime + ShutdownOTELTimeout

\* Shutdown completes within a bounded time, although neither GracefulStop nor the
\* cleanup has a deadline, and leaves nothing open.
BoundedShutdown ==
    /\ clock <= ShutdownBound
    /\ phase = "finished" => open \subseteq {s \in Servers : srv[s] = "starting"}

\* Once the context is done, or a server has failed, Run returns.
RunReturns ==
    (cancelled # {} \/ result = "error") ~> (phase = "returned")

-----------------------------------------------------------------------------
(***************************************************************************)
(* The inductive invariant behind the four safety properties.              *)
(***************************************************************************)

Starting == {"config", "tracer", "metrics", "setup", "listen_http", "listen_grpc"}
Drained  == {"wait", "close", "flush_metrics", "flush_traces", "finished"}
Closed   == {"flush_metrics", "flush_traces", "finished"}
Stopping == {"stop_grpc", "stop_http"} \cup Drained

\* Only servers of the service run, once all is started, and one stops accepting only
\* when it was told to or has failed.
StartInv ==
    /\ \A s \in Servers : srv[s] # "none" => s \in {"http"} \cup params
    /\ \A s \in Servers : srv[s] = "closed" => s \in quit \/ result = "error"
    /\ phase \in Starting =>
            /\ \A s \in Servers : srv[s] = "none"
            /\ \A r \in Requests : ~Running(r) /\ ~Sending(r)
    /\ "setup" \notin params => \A r \in Requests : ~Sending(r) /\ req[r].pc # "redis"
    /\ "setup" \in params /\ phase \in {"listen_http", "listen_grpc", "serving", "drain",
            "stop_grpc", "stop_http", "wait", "close"} => "redis" \in open

\* Whoever runs after Shutdown has returned was given up on, and so was whoever sends
\* after Wait has returned.
DrainInv ==
    /\ phase \in Stopping => params \cap {"grpc"} \subseteq quit
    /\ phase \in Stopping \ {"stop_grpc"} => "http" \in quit
    /\ phase \notin Drained \cup {"returned"} => stragglers = {}
    /\ phase = "stop_http" => GRPCDrained
    /\ phase \in Drained => \A r \in Requests : Running(r) => r \in stragglers
    /\ phase \in {"close"} \cup Closed => \A r \in Requests : Sending(r) => r \in stragglers

\* What is open, and the listener of a server that was stopped before Serve.
OpenInv ==
    /\ "setup" \notin params => "redis" \notin open
    /\ open \cap Servers \subseteq {"http"} \cup params
    /\ phase \in Closed => "redis" \notin open
    /\ phase \in {"flush_traces", "finished"} => "metrics" \notin open
    /\ phase \notin Starting \cup {"returned"} =>
            \A s \in {"http"} \cup (params \cap {"grpc"}) : srv[s] # "none"
    /\ \A s \in open \cap Servers : srv[s] # "closed" /\ (s \in quit => srv[s] = "starting")

\* No listener is closed before the drain delay is over.
DelayInv ==
    /\ probe \subseteq {0}
    /\ shuttingDown = {} => clock = 0
    /\ phase \in {"drain"} \cup Stopping => shuttingDown # {}
    /\ phase \in Starting \cup {"serving"} => quit = {} /\ clock = 0
    /\ phase = "drain" => timer = ShutdownDrainDelay /\ quit = {}
    /\ phase \in Stopping \/ quit # {} => clock >= ShutdownDrainDelay

\* When handlers and sends end at the latest, and with them each wait.
LastRPC  == ShutdownDrainDelay + HandlerTime
LastHTTP == LastRPC + HandlerTime
LastSend == LastHTTP + SendTime

TimeInv ==
    /\ \A r \in Requests : Running(r) =>
            /\ clock <= req[r].by
            /\ req[r].by <= IF req[r].via = "grpc" THEN LastRPC ELSE LastHTTP
    /\ \A r \in Requests : Sending(r) => clock <= sms[r].by /\ sms[r].by <= LastSend
    /\ phase \in Starting \cup {"serving", "drain"} => clock <= ShutdownDrainDelay
    /\ phase = "stop_grpc" => clock <= LastRPC
    /\ phase = "stop_http" => clock <= LastHTTP
    /\ phase \in {"wait", "close"} => clock <= LastSend
    /\ phase \in {"flush_metrics", "flush_traces"} =>
            clock <= timer /\ timer <= LastSend + ShutdownOTELTimeout

\* The invariant as a whole, from the first line of Run to its return.
ServerIInv ==
    /\ ServerTypeOK
    /\ StartInv
    /\ DrainInv
    /\ OpenInv
    /\ DelayInv
    /\ TimeInv
    /\ OnlyStragglersLoseRedis
    /\ SMSNotAbandoned
    /\ BoundedShutdown

-----------------------------------------------------------------------------

\* server.go, Params.Setup: the cleanup that setup returned, which waits for the SMS
\* goroutines and closes the Redis client, runs after the HTTP and gRPC servers stopped;
\* ADR-020, they are fully drained before infrastructure clients are closed.
CleanupAfterServersStop ==
    "setup" \in params /\ phase \in {"wait", "close"} => \A r \in Requests : ~Running(r)
=============================================================================
