----------------------- MODULE ServerLifecycleProofs -----------------------
(***************************************************************************)
(* For any number of requests, any drain delay, timeouts and durations:    *)
(* ServerIInv is an invariant of a service process, and with it what the   *)
(* shutdown closes under whom, how long it takes and whom it refuses.      *)
(***************************************************************************)
EXTENDS ServerLifecycle, TLAPS

\* The process before its first line.
LEMMA ServerInitInv == ServerInit => ServerIInv
<1> SUFFICES ASSUME ServerInit PROVE ServerIInv
    OBVIOUS
<1>1. /\ \A r \in Requests : req[r].pc = "idle" /\ req[r].answer = "none" /\ sms[r].pc = "none"
      /\ \A r \in Requests : ~Running(r) /\ ~Sending(r)
    BY DEF ServerInit, NewHandler, Running, Sending
<1>2. ServerTypeOK
    BY DEF ServerInit, ServerTypeOK, Phases, Handler, NewHandler, Servers
<1>3. StartInv /\ DrainInv /\ OpenInv
    BY <1>1 DEF ServerInit, StartInv, DrainInv, OpenInv, Starting, Stopping, Drained, Closed,
        Servers
<1>4. DelayInv /\ TimeInv
    BY <1>1, ServerAssumption DEF ServerInit, DelayInv, TimeInv, Starting, Stopping, Drained
<1>5. OnlyStragglersLoseRedis /\ SMSNotAbandoned /\ BoundedShutdown
    BY <1>1, ServerAssumption
    DEF ServerInit, OnlyStragglersLoseRedis, SMSNotAbandoned, BoundedShutdown, ShutdownBound
<1> QED
    BY <1>2, <1>3, <1>4, <1>5 DEF ServerIInv

\* Handlers and sends are what they were when their records are.
LEMMA RequestsUnchanged ==
    ASSUME UNCHANGED requestVars
    PROVE  /\ \A r \in Requests : Running(r)' = Running(r) /\ Sending(r)' = Sending(r)
           /\ GRPCDrained' = GRPCDrained /\ HTTPDrained' = HTTPDrained
BY DEF requestVars, Running, Sending, GRPCDrained, HTTPDrained

\* The steps of Run up to the start of the servers.
LEMMA StartKeeps ==
    ASSUME ServerIInv, Start
    PROVE  ServerIInv'
<1> USE DEF ServerIInv
<1>1. /\ UNCHANGED <<params, cancelled, quit, shutdownVars, probe, clock, requestVars>>
      /\ UNCHANGED <<shuttingDown, timer, stragglers, req, sms>>
    BY DEF Start, shutdownVars, requestVars
<1>2. /\ phase \in Starting
      /\ phase' \in {"returned", "serving"} \cup Starting
      /\ phase' \in Starting \cup {"returned"} => UNCHANGED srv
      /\ phase' = "serving" => \A s \in Servers :
            srv'[s] = IF s \in {"http"} \cup params THEN "starting" ELSE "none"
      /\ phase' # "returned" => UNCHANGED result
      /\ result' \in {result, "error"}
      /\ open \subseteq open'
      /\ open' \subseteq open \cup {"tracer", "metrics", "http"} \cup (params \cap {"grpc"})
                        \cup (IF "setup" \in params THEN {"redis"} ELSE {})
      /\ "setup" \in params /\ phase' \in {"listen_http", "listen_grpc", "serving"} =>
            "redis" \in open'
    BY DEF Start, LoadConfig, InitTracer, InitMetrics, ListenHTTP, Setup, StartServers,
        Initialise, Starting, StartInv, Servers, ServerTypeOK
<1>3. ServerTypeOK'
    BY ZenonT(60), <1>1
    DEF Start, LoadConfig, InitTracer, InitMetrics, ListenHTTP, Setup, StartServers,
        Initialise, ServerTypeOK, Phases, Servers
<1>4. StartInv'
    BY <1>1, <1>2, RequestsUnchanged DEF StartInv, Starting, Servers
<1>5. DrainInv'
    BY <1>1, <1>2, RequestsUnchanged DEF DrainInv, Starting, Stopping, Drained, Closed
<1>6. OpenInv'
    BY <1>1, <1>2 DEF OpenInv, Starting, Closed, StartInv, Servers, DelayInv
<1>7. DelayInv' /\ TimeInv'
    BY <1>1, <1>2, RequestsUnchanged, ServerAssumption
    DEF DelayInv, TimeInv, Starting, Stopping, Drained
<1>8. OnlyStragglersLoseRedis' /\ SMSNotAbandoned'
    BY <1>1, <1>2, RequestsUnchanged
    DEF OnlyStragglersLoseRedis, SMSNotAbandoned, StartInv, Starting
<1>9. BoundedShutdown'
    BY <1>1, <1>2 DEF BoundedShutdown, Starting
<1> QED
    BY <1>3, <1>4, <1>5, <1>6, <1>7, <1>8, <1>9

\* A signal and a health check: the health check says 200 only before the shutdown, when
\* the clock has not started.
LEMMA SignalKeeps ==
    ASSUME ServerIInv, Signal \/ Healthz
    PROVE  ServerIInv'
<1> USE DEF ServerIInv
<1>1. /\ UNCHANGED <<params, phase, result, open, srv, quit, shuttingDown, timer, stragglers,
                     clock, req, sms, requestVars>>
      /\ cancelled' \in SUBSET {"ctx"}
      /\ probe' \in {probe, {}, {0}}
    BY ZenonT(60)
    DEF Signal, Healthz, runVars, serverVars, shutdownVars, requestVars, ServerTypeOK,
        DelayInv
<1>2. ServerTypeOK'
    BY <1>1 DEF ServerTypeOK
<1>3. StartInv' /\ DrainInv' /\ OpenInv'
    BY <1>1, RequestsUnchanged DEF StartInv, DrainInv, OpenInv
<1>4. DelayInv' /\ TimeInv'
    BY <1>1, RequestsUnchanged DEF DelayInv, TimeInv
<1>5. OnlyStragglersLoseRedis' /\ SMSNotAbandoned' /\ BoundedShutdown'
    BY <1>1, RequestsUnchanged DEF OnlyStragglersLoseRedis, SMSNotAbandoned, BoundedShutdown
<1> QED
    BY <1>2, <1>3, <1>4, <1>5

\* A server's goroutine: it closes no listener but its own, and stops serving only if it
\* was told to or fails.
LEMMA ServerKeeps ==
    ASSUME ServerIInv, NEW s \in Servers, ServerStep(s)
    PROVE  ServerIInv'
<1> USE DEF ServerIInv
<1>1. UNCHANGED <<params, phase, quit, shuttingDown, timer, stragglers, probe, clock, req, sms,
                  requestVars>>
    BY DEF ServerStep, shutdownVars, requestVars
<1>2. /\ \A t \in Servers : t # s => srv'[t] = srv[t]
      /\ srv[s] \in {"starting", "serving"}
      /\ \/ s \notin quit /\ srv[s] = "starting" /\ srv'[s] = "serving" /\ UNCHANGED <<result, open>>
         \/ /\ srv'[s] = "closed"
            /\ open' = open \ {s}
            /\ result' \in {result, "error"}
            /\ s \in quit \/ result' = "error"
  <2>1. CASE Serve(s)
    BY <2>1 DEF Serve, ServerTypeOK
  <2>2. CASE ServeFails(s)
    BY <2>2 DEF ServeFails, ServerTypeOK
  <2>3. CASE ServeStops(s)
    <3>1. s \notin open
        BY <2>3 DEF ServeStops, OpenInv
    <3> QED
        BY <2>3, <3>1 DEF ServeStops, ServerTypeOK
  <2> QED
    BY <2>1, <2>2, <2>3 DEF ServerStep
<1>3. ServerTypeOK'
    BY ZenonT(60), <1>1 DEF ServerStep, Serve, ServeFails, ServeStops, ServerTypeOK
<1>4. StartInv'
    BY <1>1, <1>2, RequestsUnchanged DEF StartInv, Servers
<1>5. DrainInv' /\ DelayInv' /\ TimeInv'
    BY <1>1, RequestsUnchanged DEF DrainInv, DelayInv, TimeInv
<1>6. OpenInv'
    BY <1>1, <1>2 DEF OpenInv, Servers
<1>7. OnlyStragglersLoseRedis' /\ SMSNotAbandoned'
    BY <1>1, RequestsUnchanged DEF OnlyStragglersLoseRedis, SMSNotAbandoned
<1>8. BoundedShutdown'
  <2>1. clock' <= ShutdownBound
    BY <1>1 DEF BoundedShutdown, ShutdownBound
  <2>2. ASSUME phase' = "finished", NEW x \in open'
        PROVE  x \in Servers /\ srv'[x] = "starting"
    <3>1. x \in open /\ phase = "finished"
        BY <1>1, <1>2, <2>2
    <3>2. x \in Servers /\ srv[x] = "starting"
        BY <3>1 DEF BoundedShutdown
    <3>3. x \in quit
        BY <3>1, <3>2 DEF OpenInv, DrainInv, Stopping, Drained, Servers
    <3> QED
        BY <1>2, <2>2, <3>2, <3>3
  <2> QED
    BY <2>1, <2>2 DEF BoundedShutdown
<1> QED
    BY <1>3, <1>4, <1>5, <1>6, <1>7, <1>8

\* Time passes: somebody the shutdown function waits for is still due.
LEMMA TickKeeps ==
    ASSUME ServerIInv, Tick
    PROVE  ServerIInv'
<1> USE DEF ServerIInv
<1>1. /\ UNCHANGED <<params, phase, result, cancelled, open, srv, quit, shuttingDown, timer,
                     stragglers, probe, req, sms, requestVars>>
      /\ clock' = clock + 1 /\ clock \in Nat
    BY DEF Tick, runVars, serverVars, shutdownVars, requestVars, ServerTypeOK
<1>2. ServerTypeOK'
    BY <1>1 DEF ServerTypeOK
<1>3. StartInv' /\ DrainInv' /\ OpenInv'
    BY SMTT(30), <1>1, RequestsUnchanged DEF StartInv, DrainInv, OpenInv
<1>4. OnlyStragglersLoseRedis' /\ SMSNotAbandoned'
    BY <1>1, RequestsUnchanged DEF OnlyStragglersLoseRedis, SMSNotAbandoned
<1>5. phase \in {"drain", "stop_grpc", "stop_http", "wait", "flush_metrics", "flush_traces"}
    BY DEF Tick, Waiting
<1>6. DelayInv'
    BY <1>1, <1>5, ServerAssumption DEF DelayInv, Starting, Stopping, Drained
<1>7. TimeInv'
  <2>1. \A r \in Requests : (Running(r) => clock' <= req[r].by) /\ (Sending(r) => clock' <= sms[r].by)
    BY <1>1 DEF Tick, ServerTypeOK, Handler
  <2>2. ASSUME NEW r \in Requests
        PROVE  /\ Running(r)' => /\ clock' <= req'[r].by
                                 /\ req'[r].by <= IF req'[r].via = "grpc" THEN LastRPC ELSE LastHTTP
               /\ Sending(r)' => clock' <= sms'[r].by /\ sms'[r].by <= LastSend
    BY <1>1, <2>1, RequestsUnchanged DEF TimeInv, LastRPC, LastHTTP, LastSend
  <2>3. phase = "drain" => clock' <= ShutdownDrainDelay
    BY <1>1, ServerAssumption DEF Tick, Waiting, DelayInv
  <2>4. phase = "stop_grpc" => clock' <= LastRPC
    BY SMTT(30), <1>1, <2>1, ServerAssumption DEF Tick, Waiting, TimeInv, GRPCDrained, LastRPC,
        ServerTypeOK, Handler
  <2>5. phase = "stop_http" => clock' <= LastHTTP
    BY SMTT(30), <1>1, <2>1, ServerAssumption
    DEF Tick, Waiting, TimeInv, HTTPDrained, LastRPC, LastHTTP,
        ServerTypeOK, Handler
  <2>6. phase = "wait" => clock' <= LastSend
    BY SMTT(30), <1>1, <2>1, ServerAssumption
    DEF Tick, Waiting, TimeInv, LastRPC, LastHTTP, LastSend,
        ServerTypeOK
  <2>7. phase \in {"flush_metrics", "flush_traces"} =>
            clock' <= timer /\ timer <= LastSend + ShutdownOTELTimeout
    BY SMTT(30), <1>1 DEF Tick, Waiting, TimeInv, ServerTypeOK
  <2> QED
    BY <1>1, <1>5, <2>2, <2>3, <2>4, <2>5, <2>6, <2>7
    DEF TimeInv, Starting, LastRPC, LastHTTP, LastSend
<1>8. BoundedShutdown'
    BY SMTT(30), <1>1, <1>5, <1>7, ServerAssumption
    DEF BoundedShutdown, TimeInv, ShutdownBound, Starting,
        LastRPC, LastHTTP, LastSend, ServerTypeOK
<1> QED
    BY <1>2, <1>3, <1>4, <1>6, <1>7, <1>8

\* What a step of request r may do: the handler starts, on a server that accepts, it goes
\* on, with Redis if that is open, it answers, or the SMS goroutine ends.
LEMMA RequestForms ==
    ASSUME ServerIInv, NEW r \in Requests, RequestStep(r)
    PROVE  /\ req' \in [Requests -> Handler]
           /\ sms' \in [Requests -> [pc : {"none", "sending", "done"}, by : Nat]]
           /\ \A x \in Requests : x # r => req'[x] = req[x] /\ sms'[x] = sms[x]
           /\ \/ /\ \E s \in Servers : srv[s] = "serving" /\ s \notin quit /\ req'[r].via = s
                 /\ Running(r)' /\ req'[r].by = clock + HandlerTime
                 /\ req'[r].pc = "redis" => "setup" \in params
                 /\ req'[r].answer = req[r].answer /\ UNCHANGED sms
              \/ /\ ~Running(r)' /\ UNCHANGED sms
                 /\ req'[r].answer = "ErrUnavailable" => Running(r) /\ "redis" \notin open
                                                         /\ "setup" \in params
              \/ /\ Running(r) /\ Running(r)' /\ req'[r].pc = "store" /\ UNCHANGED sms
                 /\ req'[r].via = req[r].via /\ req'[r].by = req[r].by
                 /\ req'[r].answer = req[r].answer
              \/ /\ Running(r) /\ ~Running(r)' /\ req'[r].answer = "ok" /\ "setup" \in params
                 /\ Sending(r)' /\ sms'[r].by = clock + SendTime
              \/ UNCHANGED req /\ ~Sending(r)'
<1> USE DEF ServerIInv, ServerTypeOK, Running, Sending
<1>1. req[r] \in Handler /\ clock \in Nat
    OBVIOUS
<1>2. ASSUME NEW a \in {"ok", "ErrUnavailable", "refused"}
      PROVE  LET e == [NewHandler EXCEPT !.pc = "done", !.answer = a] IN
             e \in Handler /\ e.pc = "done" /\ e.answer = a
    BY ZenonT(60) DEF NewHandler, Handler, Servers
<1>3. ASSUME NEW s \in Servers, Accept(r, s)
      PROVE  /\ req' \in [Requests -> Handler]
             /\ \A x \in Requests : x # r => req'[x] = req[x]
             /\ req'[r].via = s /\ req'[r].by = clock + HandlerTime
             /\ req'[r].answer = req[r].answer
             /\ req'[r].pc \in {"redis", "store"}
             /\ req'[r].pc = "redis" => "setup" \in params
  <2> DEFINE pc == IF "setup" \in params THEN "redis" ELSE "store"
             e == [req[r] EXCEPT !.pc = pc, !.via = s, !.by = clock + HandlerTime]
  <2>1. pc \in {"redis", "store"} /\ (pc = "redis" => "setup" \in params)
    OBVIOUS
  <2>2. req' = [req EXCEPT ![r] = e]
    BY <1>3 DEF Accept
  <2> HIDE DEF pc
  <2>3. clock + HandlerTime \in Nat
    BY <1>1, ServerAssumption
  <2>4. e \in Handler
    BY ZenonT(60), <1>1, <2>1, <2>3 DEF Handler
  <2>5. e.pc = pc /\ e.via = s /\ e.by = clock + HandlerTime /\ e.answer = req[r].answer
    BY <1>1 DEF Handler
  <2> HIDE DEF e
  <2> QED
    BY <2>1, <2>2, <2>4, <2>5
<1>4. CASE \E s \in Servers : Accept(r, s)
    BY ZenonT(60), <1>3, <1>4 DEF Accept
<1>5. CASE \E s \in Servers : Refuse(r, s)
    BY <1>2, <1>5 DEF Refuse, Answers
<1>6. CASE UseRedis(r)
  <2>1. CASE "redis" \in open
    BY <1>1, <1>6, <2>1 DEF UseRedis, Handler
  <2>2. CASE "redis" \notin open
    <3>1. "setup" \in params
        BY <1>6 DEF UseRedis, StartInv
    <3>2. Answers(r, "ErrUnavailable") /\ UNCHANGED sms /\ req[r].pc = "redis"
        BY <1>6, <2>2 DEF UseRedis
    <3> QED
        BY <1>2, <2>2, <3>1, <3>2 DEF Answers
  <2> QED
    BY <2>1, <2>2
<1>7. CASE Answer(r)
    BY <1>1, <1>2, <1>7, ServerAssumption DEF Answer, Answers
<1>8. CASE SendSMS(r)
    BY <1>8 DEF SendSMS
<1> QED
    BY <1>4, <1>5, <1>6, <1>7, <1>8 DEF RequestStep

\* A request keeps the invariant: a handler finds Redis closed only if it was given up
\* on, and it starts, and with it its SMS, early enough to end in time.
LEMMA RequestKeeps ==
    ASSUME ServerIInv, NEW r \in Requests, RequestStep(r)
    PROVE  ServerIInv'
<1> USE DEF ServerIInv
<1>1. /\ UNCHANGED <<params, phase, result, cancelled, open, srv, quit, shuttingDown, timer,
                     stragglers, probe, clock>>
      /\ phase # "returned" /\ clock \in Nat
    BY DEF RequestStep, Alive, runVars, serverVars, shutdownVars, ServerTypeOK
<1>2. \A x \in Requests : x # r =>
            /\ req'[x] = req[x] /\ sms'[x] = sms[x]
            /\ Running(x)' = Running(x) /\ Sending(x)' = Sending(x)
    BY RequestForms DEF Running, Sending
<1>3. ServerTypeOK'
    BY <1>1, RequestForms DEF ServerTypeOK
<1>4. (\E s \in Servers : srv[s] = "serving" /\ s \notin quit /\ req'[r].via = s) =>
        /\ phase \in {"serving", "drain", "stop_grpc"}
        /\ phase = "stop_grpc" => req'[r].via = "http"
  <2>1. SUFFICES ASSUME NEW s \in Servers, srv[s] = "serving", s \notin quit, req'[r].via = s
                 PROVE  /\ phase \in {"serving", "drain", "stop_grpc"}
                        /\ phase = "stop_grpc" => req'[r].via = "http"
    OBVIOUS
  <2>2. phase \in {"serving", "drain"} \cup Stopping
    BY <1>1, <2>1 DEF ServerTypeOK, Phases, StartInv, Starting, Stopping, Drained
  <2>3. s = "http" \/ (s = "grpc" /\ "grpc" \in params)
    BY <2>1 DEF StartInv, Servers
  <2> QED
    BY <2>1, <2>2, <2>3 DEF DrainInv, Stopping
<1>5. OnlyStragglersLoseRedis'
  <2>1. Running(r) /\ "redis" \notin open /\ "setup" \in params => r \in stragglers
    BY <1>1 DEF StartInv, DrainInv, Starting, Drained, ServerTypeOK, Phases
  <2>2. Running(r)' /\ phase \in Closed => Running(r)
    BY <1>4, RequestForms DEF Closed, Running
  <2>3. req'[r].answer = "ErrUnavailable" => r \in stragglers
    BY <2>1, RequestForms DEF OnlyStragglersLoseRedis
  <2> QED
    BY <1>1, <1>2, <2>2, <2>3 DEF OnlyStragglersLoseRedis, Closed
<1>6. SMSNotAbandoned' /\ BoundedShutdown' /\ OpenInv' /\ DelayInv'
    BY <1>1 DEF SMSNotAbandoned, BoundedShutdown, OpenInv, DelayInv
<1>7. StartInv'
    BY SMTT(90), <1>1, <1>2, <1>4, RequestForms DEF StartInv, Starting, Running, Sending
<1>8. DrainInv'
    BY SMTT(90), <1>1, <1>2, <1>4, RequestForms
    DEF DrainInv, Drained, Closed, GRPCDrained, Running, Sending
<1>9. TimeInv'
  <2>1. ASSUME Running(r)'
        PROVE  /\ clock <= req'[r].by
               /\ req'[r].by <= IF req'[r].via = "grpc" THEN LastRPC ELSE LastHTTP
    <3>1. CASE Running(r) /\ req'[r].via = req[r].via /\ req'[r].by = req[r].by
        BY <3>1 DEF TimeInv
    <3>2. CASE /\ \E s \in Servers : srv[s] = "serving" /\ s \notin quit /\ req'[r].via = s
               /\ req'[r].by = clock + HandlerTime
      <4>1. PICK s \in Servers : srv[s] = "serving" /\ s \notin quit /\ req'[r].via = s
        BY <3>2
      <4>2. clock \in Nat /\ HandlerTime \in Nat /\ ShutdownDrainDelay \in Nat
        BY ServerAssumption DEF ServerTypeOK
      <4>3. clock <= IF s = "grpc" THEN ShutdownDrainDelay ELSE LastRPC
        BY SMTT(90), <1>1, <1>4, <4>1, <4>2 DEF TimeInv, Starting, LastRPC, Servers
      <4>4. \A a, d, h \in Nat :
                /\ a <= a + h
                /\ a <= d => a + h <= d + h
                /\ a <= d + h => a + h <= d + h + h
        OBVIOUS
      <4>5. CASE s = "grpc"
        BY <3>2, <4>1, <4>2, <4>3, <4>4, <4>5 DEF LastRPC
      <4>6. CASE s # "grpc"
        BY <3>2, <4>1, <4>2, <4>3, <4>4, <4>6 DEF LastRPC, LastHTTP
      <4> QED
        BY <4>5, <4>6
    <3>3. CASE UNCHANGED req
        BY <2>1, <3>3 DEF TimeInv, Running
    <3> QED
        BY <2>1, <3>1, <3>2, <3>3, RequestForms
  <2>2. ASSUME Sending(r)'
        PROVE  clock <= sms'[r].by /\ sms'[r].by <= LastSend
    <3>1. CASE UNCHANGED sms
        BY <2>2, <3>1 DEF TimeInv, Sending
    <3>2. CASE Running(r) /\ sms'[r].by = clock + SendTime
        BY SMTT(30), <1>1, <3>2, ServerAssumption
        DEF TimeInv, LastRPC, LastHTTP, LastSend, ServerTypeOK, Handler
    <3> QED
        BY <2>2, <3>1, <3>2, RequestForms
  <2>3. \A x \in Requests : Running(x)' =>
            /\ clock' <= req'[x].by
            /\ req'[x].by <= IF req'[x].via = "grpc" THEN LastRPC ELSE LastHTTP
    BY <1>1, <1>2, <2>1 DEF TimeInv
  <2>4. \A x \in Requests : Sending(x)' => clock' <= sms'[x].by /\ sms'[x].by <= LastSend
    BY <1>1, <1>2, <2>2 DEF TimeInv
  <2> QED
    BY ZenonT(60), <1>1, <2>3, <2>4 DEF TimeInv, LastRPC, LastHTTP, LastSend
<1> QED
    BY <1>3, <1>5, <1>6, <1>7, <1>8, <1>9

\* The shutdown function keeps the types.
LEMMA ShutdownType ==
    ASSUME ServerIInv, Shutdown
    PROVE  ServerTypeOK'
<1>1. /\ UNCHANGED <<params, cancelled, srv, probe, clock, req, sms>>
      /\ ServerTypeOK
    BY DEF Shutdown, requestVars, ServerIInv
<1>2. phase' \in Phases
    BY <1>1 DEF Shutdown, BeginShutdown, EndDrain, EndGRPC, EndHTTP, EndWait, CloseRedis,
        FlushMetrics, FlushTraces, Return, Phases
<1>3. /\ result' \in {"none", "nil", "error"} /\ shuttingDown' \in SUBSET {"flag"}
      /\ open' \subseteq open /\ quit' \in SUBSET Servers
    BY ZenonT(60), <1>1
    DEF Shutdown, BeginShutdown, EndDrain, EndGRPC, EndHTTP, EndWait, CloseRedis,
        FlushMetrics, FlushTraces, Return, Stop, ServerTypeOK, Servers
<1>4. timer' \in Nat /\ stragglers' \in SUBSET Requests
    BY SMTT(30), <1>1, ServerAssumption
    DEF Shutdown, BeginShutdown, EndDrain, EndGRPC, EndHTTP, EndWait, CloseRedis,
        FlushMetrics, FlushTraces, Return, ServerTypeOK
<1> QED
    BY <1>1, <1>2, <1>3, <1>4 DEF ServerTypeOK

\* The phases in which the invariant asks something of quit, and how Stop changes it.
LEMMA StopKeeps ==
    ASSUME ServerIInv, NEW s \in {"http"} \cup (params \cap {"grpc"}), Stop(s),
           UNCHANGED <<params, srv>>, phase \notin Starting \cup {"returned"}
    PROVE  /\ open' \subseteq open /\ open \subseteq open' \cup {s}
           /\ \A t \in open' \cap Servers :
                srv'[t] # "closed" /\ (t \in quit' => srv'[t] = "starting")
<1>1. s \in Servers /\ srv[s] # "none"
    BY DEF ServerIInv, OpenInv, Servers
<1>2. srv[s] \in {"none", "starting", "serving", "closed"}
    BY <1>1 DEF ServerIInv, ServerTypeOK
<1> QED
    BY <1>1, <1>2 DEF ServerIInv, OpenInv, Stop

\* The first half of the shutdown: the drain delay, GracefulStop, Shutdown.
LEMMA ServersStop ==
    ASSUME ServerIInv, Shutdown, BeginShutdown \/ EndDrain \/ EndGRPC
    PROVE  ServerIInv'
<1> USE DEF ServerIInv
<1>1. /\ UNCHANGED <<params, cancelled, srv, probe, clock, req, sms, requestVars, result,
                     stragglers>>
      /\ clock \in Nat /\ ServerTypeOK'
    BY ShutdownType DEF Shutdown, requestVars, ServerTypeOK, BeginShutdown, EndDrain, EndGRPC
<1>2. \A r \in Requests : Running(r)' = Running(r) /\ Sending(r)' = Sending(r)
    BY <1>1, RequestsUnchanged
<1>3. OnlyStragglersLoseRedis' /\ SMSNotAbandoned' /\ BoundedShutdown'
    BY <1>1, <1>2 DEF OnlyStragglersLoseRedis, SMSNotAbandoned, BoundedShutdown, BeginShutdown,
        EndDrain, EndGRPC
<1>4. ASSUME \/ phase' = "drain" /\ clock <= ShutdownDrainDelay
             \/ phase' = "stop_grpc" /\ clock <= LastRPC
             \/ phase' = "stop_http" /\ clock <= LastHTTP
      PROVE  TimeInv'
  <2>1. \A r \in Requests : Running(r)' =>
            /\ clock' <= req'[r].by
            /\ req'[r].by <= IF req'[r].via = "grpc" THEN LastRPC ELSE LastHTTP
    BY <1>1, <1>2 DEF TimeInv
  <2>2. \A r \in Requests : Sending(r)' => clock' <= sms'[r].by /\ sms'[r].by <= LastSend
    BY <1>1, <1>2 DEF TimeInv
  <2>3. /\ phase' \in Starting \cup {"serving", "drain"} => clock' <= ShutdownDrainDelay
        /\ phase' = "stop_grpc" => clock' <= LastRPC
        /\ phase' = "stop_http" => clock' <= LastHTTP
        /\ phase' \notin {"wait", "close", "flush_metrics", "flush_traces"}
    BY <1>1, <1>4 DEF Starting
  <2> QED
    BY <2>1, <2>2, <2>3 DEF TimeInv, LastRPC, LastHTTP, LastSend
<1>5. /\ ShutdownDrainDelay \in Nat /\ HandlerTime \in Nat
      /\ LastRPC \in Nat /\ LastHTTP \in Nat
      /\ ShutdownDrainDelay <= LastRPC /\ LastRPC <= LastHTTP
    BY ServerAssumption DEF LastRPC, LastHTTP
<1>6. CASE BeginShutdown
  <2>1. /\ phase = "serving" /\ phase' = "drain" /\ UNCHANGED <<open, quit>>
        /\ shuttingDown' # {} /\ timer' = clock + ShutdownDrainDelay
    BY <1>6 DEF BeginShutdown
  <2>2. StartInv' /\ DrainInv' /\ OpenInv'
    BY <1>1, <1>2, <2>1 DEF StartInv, DrainInv, OpenInv, Starting, Stopping, Drained, Closed
  <2>3. clock = 0 /\ quit = {} /\ timer' = ShutdownDrainDelay
    BY <1>5, <2>1 DEF DelayInv
  <2>4. DelayInv'
    BY <1>1, <2>1, <2>3 DEF DelayInv, Starting, Stopping, Drained
  <2>5. TimeInv'
    BY <1>4, <1>5, <2>1, <2>3
  <2> QED
    BY <1>1, <1>3, <2>2, <2>4, <2>5
<1>7. CASE EndDrain
  <2>1. /\ phase = "drain" /\ phase' = "stop_grpc" /\ clock >= timer
        /\ UNCHANGED <<shuttingDown, timer>>
        /\ quit' = quit \cup (params \cap {"grpc"})
        /\ open' \subseteq open /\ open \subseteq open' \cup {"grpc"}
        /\ \A t \in open' \cap Servers :
                srv'[t] # "closed" /\ (t \in quit' => srv'[t] = "starting")
    BY SMTT(30), <1>1, <1>7, StopKeeps DEF EndDrain, Stop, Starting, OpenInv
  <2>2. StartInv' /\ DrainInv'
    BY <1>1, <1>2, <2>1 DEF StartInv, DrainInv, Starting, Stopping, Drained, Closed
  <2>3. OpenInv'
    BY <1>1, <2>1 DEF OpenInv, Starting, Closed
  <2>4. timer = ShutdownDrainDelay /\ shuttingDown # {} /\ clock <= ShutdownDrainDelay
    BY <2>1 DEF DelayInv, TimeInv
  <2>5. DelayInv'
    BY <1>1, <1>5, <2>1, <2>4 DEF DelayInv, Starting, Stopping, Drained
  <2>6. clock <= LastRPC
    BY <1>1, <1>5, <2>4
  <2>7. TimeInv'
    BY <1>4, <2>1, <2>6
  <2> QED
    BY <1>1, <1>3, <2>2, <2>3, <2>5, <2>7
<1>8. CASE EndGRPC
  <2>1. /\ phase = "stop_grpc" /\ phase' = "stop_http" /\ GRPCDrained
        /\ UNCHANGED <<shuttingDown>>
        /\ quit' = quit \cup {"http"}
        /\ open' \subseteq open /\ open \subseteq open' \cup {"http"}
        /\ \A t \in open' \cap Servers :
                srv'[t] # "closed" /\ (t \in quit' => srv'[t] = "starting")
    BY <1>1, <1>8, StopKeeps DEF EndGRPC, Stop, Starting
  <2>2. StartInv'
    BY <1>1, <1>2, <2>1 DEF StartInv, Starting
  <2>3. DrainInv'
    BY <1>1, <1>2, <2>1, RequestsUnchanged DEF DrainInv, Stopping, Drained, Closed
  <2>4. OpenInv'
    BY <1>1, <2>1 DEF OpenInv, Starting, Closed
  <2>5. shuttingDown # {} /\ clock >= ShutdownDrainDelay /\ probe \subseteq {0} /\ clock <= LastRPC
    BY <2>1 DEF DelayInv, TimeInv, Stopping
  <2>6. DelayInv'
    BY <1>1, <2>1, <2>5 DEF DelayInv, Starting, Stopping, Drained
  <2>7. clock <= LastHTTP
    BY <1>1, <1>5, <2>5
  <2>8. TimeInv'
    BY <1>4, <2>1, <2>7
  <2> QED
    BY <1>1, <1>3, <2>2, <2>3, <2>4, <2>6, <2>8
<1> QED
    BY <1>6, <1>7, <1>8

\* Once httpSrv.Shutdown has returned, the times kept for handlers and sends stay, and it
\* is left to bound the wait and the flush.
LEMMA TimesStay ==
    ASSUME TimeInv, UNCHANGED <<clock, req, sms>>,
           \A r \in Requests : Running(r)' = Running(r) /\ Sending(r)' = Sending(r),
           phase' \in Drained \cup {"returned"},
           phase' \in {"wait", "close"} => clock <= LastSend,
           phase' \in {"flush_metrics", "flush_traces"} =>
               clock <= timer' /\ timer' <= LastSend + ShutdownOTELTimeout
    PROVE  TimeInv'
<1>1. \A r \in Requests : Running(r)' =>
            /\ clock' <= req'[r].by
            /\ req'[r].by <= IF req'[r].via = "grpc" THEN LastRPC ELSE LastHTTP
    BY ZenonT(60) DEF TimeInv
<1>2. \A r \in Requests : Sending(r)' => clock' <= sms'[r].by /\ sms'[r].by <= LastSend
    BY ZenonT(60) DEF TimeInv
<1>3. phase' \notin Starting \cup {"serving", "drain", "stop_grpc", "stop_http"}
    BY DEF Starting, Drained
<1> QED
    BY ZenonT(60), <1>1, <1>2, <1>3 DEF TimeInv

\* The second half: from the end of httpSrv.Shutdown, whose stragglers it names, to the
\* return of Run.
LEMMA CleanupRuns ==
    ASSUME ServerIInv, Shutdown,
           EndHTTP \/ EndWait \/ CloseRedis \/ FlushMetrics \/ FlushTraces \/ Return
    PROVE  ServerIInv'
<1> USE DEF ServerIInv
<1>1. /\ UNCHANGED <<params, cancelled, srv, probe, clock, req, sms, requestVars, quit,
                     shuttingDown>>
      /\ open' \subseteq open
      /\ clock \in Nat /\ ServerTypeOK'
    BY ShutdownType DEF Shutdown, requestVars, ServerTypeOK, EndHTTP, EndWait, CloseRedis,
        FlushMetrics, FlushTraces, Return
<1>2. \A r \in Requests : Running(r)' = Running(r) /\ Sending(r)' = Sending(r)
    BY SMTT(30), <1>1, RequestsUnchanged
<1>3. /\ phase \in {"stop_http"} \cup Drained
      /\ phase' \in Drained \cup {"returned"}
      /\ result = "error" => result' = "error"
    BY ZenonT(60) DEF EndHTTP, EndWait, CloseRedis, FlushMetrics, FlushTraces, Return, Drained
<1>4. DelayInv'
    BY <1>1, <1>3 DEF DelayInv, Starting, Stopping, Drained
<1>5. StartInv'
    BY <1>1, <1>2, <1>3 DEF StartInv, Starting, Drained, EndHTTP, EndWait, CloseRedis,
        FlushMetrics, FlushTraces, Return
<1>6. CASE EndHTTP
  <2>1. /\ phase = "stop_http" /\ UNCHANGED open
        /\ stragglers' = {r \in Requests : Running(r) /\ req[r].via = "http"}
        /\ \/ "setup" \in params /\ phase' = "wait"
           \/ /\ "setup" \notin params /\ phase' = "flush_metrics"
              /\ timer' = clock + ShutdownOTELTimeout
    BY <1>6 DEF EndHTTP
  <2>2. \A r \in Requests : Running(r) => r \in stragglers'
    BY <2>1 DEF DrainInv, GRPCDrained, ServerTypeOK, Handler, Servers
  <2>3. DrainInv'
    BY <1>1, <1>2, <2>1, <2>2 DEF DrainInv, StartInv, Stopping, Drained, Closed
  <2>4. OpenInv'
    BY <1>1, <2>1 DEF OpenInv, Starting, Closed
  <2>5. TimeInv'
    <3>1. clock <= LastHTTP
        BY <2>1 DEF TimeInv
    <3>2. clock <= LastSend /\ LastSend \in Nat
        BY <1>1, <3>1, ServerAssumption DEF LastRPC, LastHTTP, LastSend
    <3>3. phase' = "flush_metrics" =>
            clock <= timer' /\ timer' <= LastSend + ShutdownOTELTimeout
      <4>1. phase' = "flush_metrics" => timer' = clock + ShutdownOTELTimeout
        BY <2>1
      <4>2. clock \in Nat /\ ShutdownOTELTimeout \in Nat
        BY <1>1, ServerAssumption
      <4> QED
        BY <3>2, <4>1, <4>2
    <3>4. phase' \in {"wait", "flush_metrics"}
        BY <2>1
    <3> QED
        BY <1>1, <1>2, <1>3, <3>2, <3>3, <3>4, TimesStay
  <2>6. OnlyStragglersLoseRedis' /\ SMSNotAbandoned' /\ BoundedShutdown'
    BY <1>1, <1>2, <2>1, <2>2
    DEF OnlyStragglersLoseRedis, SMSNotAbandoned, BoundedShutdown, DrainInv, Drained
  <2> QED
    BY <1>1, <1>4, <1>5, <2>3, <2>4, <2>5, <2>6
<1>7. CASE EndWait
  <2>1. /\ phase = "wait" /\ phase' = "close" /\ \A r \in Requests : ~Sending(r)
        /\ UNCHANGED <<open, timer, stragglers>>
    BY <1>7 DEF EndWait
  <2>2. DrainInv' /\ OpenInv'
    BY SMTT(30), <1>1, <1>2, <2>1 DEF DrainInv, OpenInv, Stopping, Drained, Starting, Closed
  <2>3. TimeInv'
    <3>1. clock <= LastSend
        BY <2>1 DEF TimeInv
    <3> QED
        BY <1>1, <1>2, <1>3, <2>1, <3>1, TimesStay
  <2>4. OnlyStragglersLoseRedis' /\ SMSNotAbandoned' /\ BoundedShutdown'
    BY ZenonT(30), <1>1, <1>2, <2>1
    DEF OnlyStragglersLoseRedis, SMSNotAbandoned, BoundedShutdown
  <2> QED
    BY <1>1, <1>4, <1>5, <2>2, <2>3, <2>4
<1>8. CASE CloseRedis
  <2>1. /\ phase = "close" /\ phase' = "flush_metrics" /\ UNCHANGED stragglers
        /\ open' = open \ {"redis"} /\ timer' = clock + ShutdownOTELTimeout
    BY <1>8 DEF CloseRedis
  <2>2. DrainInv' /\ OpenInv'
    BY <1>1, <1>2, <2>1 DEF DrainInv, OpenInv, Stopping, Drained, Starting, Closed
  <2>3. TimeInv'
    <3>1. clock <= LastSend
        BY <2>1 DEF TimeInv
    <3>2. LastSend \in Nat
        BY ServerAssumption DEF LastRPC, LastHTTP, LastSend
    <3>3. clock <= timer' /\ timer' <= LastSend + ShutdownOTELTimeout
        BY <1>1, <2>1, <3>1, <3>2, ServerAssumption
    <3> QED
        BY <1>1, <1>2, <1>3, <2>1, <3>1, <3>3, TimesStay
  <2>4. OnlyStragglersLoseRedis' /\ SMSNotAbandoned' /\ BoundedShutdown'
    BY <1>1, <1>2, <2>1
    DEF OnlyStragglersLoseRedis, SMSNotAbandoned, BoundedShutdown, DrainInv, Drained
  <2> QED
    BY <1>1, <1>4, <1>5, <2>2, <2>3, <2>4
<1>9. CASE FlushMetrics \/ FlushTraces
  <2>1. /\ UNCHANGED <<timer, stragglers>>
        /\ \/ phase = "flush_metrics" /\ phase' = "flush_traces" /\ open' = open \ {"metrics"}
           \/ phase = "flush_traces" /\ phase' = "finished" /\ open' = open \ {"tracer"}
    BY <1>9 DEF FlushMetrics, FlushTraces
  <2>2. DrainInv' /\ OpenInv'
    BY <1>1, <1>2, <2>1 DEF DrainInv, OpenInv, Stopping, Drained, Starting, Closed
  <2>3. TimeInv'
    <3>1. clock <= timer /\ timer <= LastSend + ShutdownOTELTimeout
        BY <2>1 DEF TimeInv
    <3>2. phase' \notin {"wait", "close"}
        BY <2>1
    <3> QED
        BY <1>1, <1>2, <1>3, <2>1, <3>1, <3>2, TimesStay
  <2>4. OnlyStragglersLoseRedis' /\ SMSNotAbandoned'
    BY <1>1, <1>2, <2>1
    DEF OnlyStragglersLoseRedis, SMSNotAbandoned
  <2>5. phase' = "finished" => open' \subseteq {s \in Servers : srv'[s] = "starting"}
    BY SMTT(30), <1>1, <2>1
    DEF ServerTypeOK, OpenInv, DrainInv, Stopping, Drained, Closed, Servers
  <2>6. BoundedShutdown'
    BY <1>1, <2>5 DEF BoundedShutdown, ShutdownBound
  <2> QED
    BY <1>1, <1>4, <1>5, <2>2, <2>3, <2>4, <2>6
<1>10. CASE Return
  <2>1. phase = "finished" /\ phase' = "returned" /\ UNCHANGED <<open, timer, stragglers>>
    BY <1>10 DEF Return
  <2>2. DrainInv' /\ OpenInv'
    BY SMTT(30), <1>1, <1>2, <2>1 DEF DrainInv, OpenInv, Stopping, Drained, Starting, Closed
  <2>3. TimeInv'
    <3>1. phase' \notin {"wait", "close", "flush_metrics", "flush_traces"}
        BY <2>1
    <3> QED
        BY <1>1, <1>2, <1>3, <3>1, TimesStay
  <2>4. OnlyStragglersLoseRedis' /\ SMSNotAbandoned' /\ BoundedShutdown'
    BY <1>1, <1>2, <2>1
    DEF OnlyStragglersLoseRedis, SMSNotAbandoned, BoundedShutdown, DrainInv, Closed
  <2> QED
    BY <1>1, <1>4, <1>5, <2>2, <2>3, <2>4
<1> QED
    BY <1>6, <1>7, <1>8, <1>9, <1>10

\* ServerIInv is inductive.
LEMMA LifecycleStep == ServerIInv /\ [ServerNext]_serverLifecycleVars => ServerIInv'
<1> SUFFICES ASSUME ServerIInv, [ServerNext]_serverLifecycleVars
             PROVE  ServerIInv'
    OBVIOUS
<1>1. CASE UNCHANGED serverLifecycleVars
  <2>1. /\ UNCHANGED <<params, phase, result, cancelled, open, srv, quit, shuttingDown, timer,
                       stragglers, probe, clock, req, sms, requestVars>>
    BY <1>1 DEF serverLifecycleVars, runVars, serverVars, shutdownVars, requestVars
  <2>2. ServerTypeOK'
    BY SMTT(30), <2>1 DEF ServerTypeOK, ServerIInv
  <2>3. StartInv' /\ DrainInv' /\ OpenInv'
    <3>1. /\ \A r \in Requests : Running(r)' = Running(r) /\ Sending(r)' = Sending(r)
          /\ GRPCDrained' = GRPCDrained
        BY ZenonT(60), <2>1, RequestsUnchanged
    <3>2. StartInv'
        BY ZenonT(60), <2>1, <3>1 DEF StartInv, ServerIInv
    <3>3. DrainInv'
        BY ZenonT(60), <2>1, <3>1 DEF DrainInv, ServerIInv
    <3>4. OpenInv'
        BY ZenonT(60), <2>1 DEF OpenInv, ServerIInv
    <3> QED
        BY <3>2, <3>3, <3>4
  <2>4. DelayInv' /\ TimeInv'
    BY <2>1, RequestsUnchanged DEF DelayInv, TimeInv, ServerIInv
  <2>5. OnlyStragglersLoseRedis' /\ SMSNotAbandoned' /\ BoundedShutdown'
    BY ZenonT(30), <2>1, RequestsUnchanged
    DEF OnlyStragglersLoseRedis, SMSNotAbandoned, BoundedShutdown, ServerIInv
  <2> QED
    BY <2>2, <2>3, <2>4, <2>5 DEF ServerIInv
<1>2. CASE Shutdown
    BY <1>2, ServersStop, CleanupRuns DEF Shutdown
<1> QED
    BY <1>1, <1>2, StartKeeps, SignalKeeps, TickKeeps, ServerKeeps, RequestKeeps
    DEF ServerNext, Exited

\* The invariant of server.Run, its servers, its handlers and its shutdown function, for
\* any number of requests and any timeouts.
THEOREM LifecycleInvariant == ServerSpec => []ServerIInv
BY ServerInitInv, LifecycleStep, PTL DEF ServerSpec

\* The cleanup of setup.go closes the Redis client under no handler except those that
\* httpSrv.Shutdown gave up on at its deadline.
THEOREM RedisOutlivesHandlers == ServerSpec => []OnlyStragglersLoseRedis
<1>1. ServerIInv => OnlyStragglersLoseRedis
    BY DEF ServerIInv
<1> QED
    BY <1>1, LifecycleInvariant, PTL

\* authSvc.Wait in the cleanup is enough: when Run returns, the only SMS goroutines left
\* are those of handlers that httpSrv.Shutdown gave up on.
THEOREM SMSAwaited == ServerSpec => []SMSNotAbandoned
<1>1. ServerIInv => SMSNotAbandoned
    BY DEF ServerIInv
<1> QED
    BY <1>1, LifecycleInvariant, PTL

\* The shutdown takes no longer than the drain delay, two handlers, one SMS and the flush
\* timeout, and leaves open only the listener of a server that never came to serve.
THEOREM ShutdownIsBounded == ServerSpec => []BoundedShutdown
<1>1. ServerIInv => BoundedShutdown
    BY DEF ServerIInv
<1> QED
    BY <1>1, LifecycleInvariant, PTL

\* A connection is refused only by a listener that failed, or that the shutdown closed
\* at least ShutdownDrainDelay after /healthz last said 200.
THEOREM DrainBeforeRefusing == ServerSpec => RefusedAfterDrain
<1> DEFINE Early ==
        \A r \in Requests :
            (req'[r].answer = "refused" /\ req[r].answer # "refused" /\ result # "error")
            => \A t \in probe : clock >= t + ShutdownDrainDelay
<1>1. ServerIInv /\ [ServerNext]_serverLifecycleVars => [Early]_serverLifecycleVars
  <2> SUFFICES ASSUME ServerIInv, ServerNext, NEW r \in Requests,
                      req'[r].answer = "refused", req[r].answer # "refused", result # "error",
                      NEW t \in probe
               PROVE  clock >= t + ShutdownDrainDelay
    OBVIOUS
  <2>1. t = 0 /\ clock \in Nat
    <3>1. ServerTypeOK /\ probe \subseteq {0}
        BY ZenonT(60) DEF ServerIInv, DelayInv
    <3>2. clock \in Nat
        BY ZenonT(60), <3>1 DEF ServerTypeOK
    <3> QED
        BY <3>1, <3>2
  <2>2. \E x \in Requests : RequestStep(x)
    BY ZenonT(60) DEF ServerNext, Start, Signal, Shutdown, Tick, Healthz, ServerStep, Exited,
        serverLifecycleVars, requestVars
  <2>3. \E x \in Requests, s \in Servers : Refuse(x, s)
    <3>1. PICK x \in Requests : RequestStep(x)
        BY ZenonT(60), <2>2
    <3>2. ASSUME NEW s \in Servers, Accept(x, s) PROVE FALSE
        BY <3>2 DEF Accept, ServerIInv, ServerTypeOK, Handler
    <3>3. ASSUME NEW a \in {"ok", "ErrUnavailable"}, Answers(x, a) PROVE FALSE
        BY <3>3 DEF Answers, NewHandler, ServerIInv, ServerTypeOK
    <3>4. ASSUME UseRedis(x) PROVE FALSE
        BY SMTT(30), <3>3, <3>4 DEF UseRedis, ServerIInv, ServerTypeOK, Handler
    <3>5. ~Answer(x) /\ ~SendSMS(x)
        BY ZenonT(60), <3>3 DEF Answer, SendSMS
    <3> QED
        BY ZenonT(60), <3>1, <3>2, <3>4, <3>5 DEF RequestStep
  <2>4. quit # {}
    BY ZenonT(30), <2>3 DEF Refuse, ServerIInv, StartInv
  <2> QED
    BY <2>1, <2>4, ServerAssumption DEF ServerIInv, DelayInv
<1> QED
    BY <1>1, LifecycleInvariant, PTL DEF ServerSpec, RefusedAfterDrain
=============================================================================
