---------------------------- MODULE LimiterCalls ----------------------------
(***************************************************************************)
(* The fixed-window limiter as its callers see it: RequestOTP and          *)
(* VerifyOTP ask it whether a call may go on, while windows open and       *)
(* close.  The history of each key tells what the windows add up to.       *)
(***************************************************************************)
EXTENDS RateLimiter, Sequences, FiniteSets

CONSTANT MaxCalls      \* bound: how often a script runs on one key

VARIABLE log           \* history: per key, when the script ran, the count it returned, and
                       \* what its caller was told

callVars == <<now, limiterVars, log>>

\* The limit each caller passes for its key.
Limit(k) ==
    CASE k[1] = "otp_req:phone"    -> OTPRequestRateLimitPerPhone
      [] k[1] = "otp_verify:phone" -> MaxOTPVerifyAttempts
      [] k[1] = "otp_req:ip"       -> OTPRequestRateLimitPerIP

CallsInit == ClockInit /\ LimiterInit /\ log = [k \in RateKeys |-> <<>>]

\* A call of CheckAndIncrement.  When the reply is lost, the caller gets an error or
\* go-redis sends the script again, and that is another run of it.  (An error without a
\* run leaves no trace.)
Call(k) ==
    /\ Len(log[k]) < MaxCalls
    /\ CheckAndIncrement(k)
    /\ \E told \in {IF Allowed(k, Limit(k)) THEN "allowed" ELSE "denied"}
                    \cup (IF "redis" \in Faults THEN {"error"} ELSE {}) :
            log' = [log EXCEPT ![k] = Append(@, [at |-> now, count |-> Incr(k), told |-> told])]
    /\ UNCHANGED <<now, lockout>>

CallsTick == Tick /\ UNCHANGED <<limiterVars, log>>

\* The bounds are reached.
CallsOver == now = MaxTime /\ (\A k \in RateKeys : Len(log[k]) = MaxCalls) /\ UNCHANGED callVars

CallsNext == CallsTick \/ (\E k \in RateKeys : Call(k)) \/ CallsOver

CallsSpec == CallsInit /\ [][CallsNext]_callVars

-----------------------------------------------------------------------------

LogEntry == [at : Nat, count : Nat \ {0}, told : {"allowed", "denied", "error"}]

CallsTypeOK ==
    /\ now \in Nat
    /\ LimiterTypeOK
    /\ log \in [RateKeys -> Seq(LogEntry)]

\* The runs of key k's script that its callers were told allowed, in [t, t + window).
AdmittedFrom(k, t) ==
    {i \in DOMAIN log[k] : /\ log[k][i].told = "allowed"
                           /\ t <= log[k][i].at
                           /\ log[k][i].at < t + OTPRateLimitWindow}

\* A fixed window lets more than its limit through around its end, but never twice the
\* limit: in any span as long as a window at most 2 * limit - 1 calls are let through,
\* because the call that opened the earlier window lies outside the span.
AdmittedInAnySpan ==
    \A k \in RateKeys : \A t \in 0..now : Cardinality(AdmittedFrom(k, t)) <= 2 * Limit(k) - 1

\* The window does not slide: a caller is turned away only if the limit was used up
\* within the last window, so a client that keeps calling is let through again.
DenialJustified ==
    \A k \in RateKeys : \A i \in DOMAIN log[k] :
        log[k][i].told = "denied" =>
            Cardinality({j \in 1..(i - 1) : log[k][j].at + OTPRateLimitWindow > log[k][i].at})
                >= Limit(k)

-----------------------------------------------------------------------------
(***************************************************************************)
(* The inductive invariant behind the two.                                 *)
(***************************************************************************)

\* The run that opened the window in which run i of a log falls.
Opener(runs, i) == i - runs[i].count + 1

\* The log of a key falls into windows: each is a stretch of consecutive runs, counted from
\* 1, that ends before the window of the run that opened it does, and the next one opens
\* after that.
WindowsOK(runs) ==
    \A j \in DOMAIN runs :
        /\ runs[j].count <= j
        /\ runs[j].at < runs[Opener(runs, j)].at + OTPRateLimitWindow
        /\ \A i \in 1..(j - 1) :
            /\ runs[i].at <= runs[j].at
            /\ IF i < Opener(runs, j)
                 THEN runs[Opener(runs, i)].at + OTPRateLimitWindow <= runs[Opener(runs, j)].at
                 ELSE Opener(runs, i) = Opener(runs, j)

\* The counter of a key is that of the last run, for the window it fell in.
CounterOK(k, runs) ==
    IF runs = <<>>
      THEN counter[k].until = 0
      ELSE /\ counter[k].n = runs[Len(runs)].count
           /\ counter[k].until = runs[Opener(runs, Len(runs))].at + OTPRateLimitWindow
           /\ runs[Len(runs)].at <= now

ToldOK(k, runs) ==
    \A i \in DOMAIN runs :
        /\ runs[i].told = "allowed" => runs[i].count <= Limit(k)
        /\ runs[i].told = "denied" => runs[i].count > Limit(k)

\* The windows of the history are those the counters count, and callers are told what the
\* count of their run says.
WindowInv ==
    /\ CallsTypeOK
    /\ \A k \in RateKeys :
        WindowsOK(log[k]) /\ CounterOK(k, log[k]) /\ ToldOK(k, log[k])
=============================================================================
