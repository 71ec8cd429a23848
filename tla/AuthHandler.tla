---------------------------- MODULE AuthHandler ----------------------------
(***************************************************************************)
(* The gRPC handlers (port/auth_handler.go): each calls the operation of   *)
(* the same name and turns its error into a status.  The status is all     *)
(* that a client learns of a call that failed.                             *)
(***************************************************************************)
EXTENDS AuthService, ErrorMapping

\* The error an operation returned, from its result.  "error" is one that wraps no
\* domain error; a Redis failure is joined with ErrUnavailable.
ErrorOf(result) ==
    CASE result = "ok"             -> {}
      [] result = "ErrUnavailable" -> {Opaque, "ErrUnavailable"}
      [] OTHER                     -> {result}

\* errmap.ToGRPCError(err), and OK for nil
StatusOf(call) == ToGRPCStatus(ErrorOf(call.result))

\* The status says that the operation was refused: nothing went wrong inside.
Refused(call) == call.pc = "done" /\ StatusOf(call) \notin {"OK", "Internal"}

-----------------------------------------------------------------------------

\* A client of RequestOTP and VerifyOTP can take any status but Internal at its word:
\* OK, and the session was opened by this very call; refused, and the call has opened
\* none and left no OTP behind.  The operations fail at many points before and after the
\* write that matters, with replies lost and requests repeated.
StatusTellsOutcome ==
    /\ \A r \in Verifications :
        /\ ver[r].result = "ok" => \E c \in commits : c.session = r
        /\ Refused(ver[r]) => \A c \in commits : c.session # r
    /\ \A q \in OTPRequests :
        Refused(req[q]) => req[q].sms = "none" /\ \A p \in Phones : otp[p].mac # q

\* Why: what was committed or sent is answered OK or Internal, since no error is made
\* after the write that matters but the error of a lost reply; and a call whose OTP is in
\* the table was not refused, for it only misses the OTP it wrote itself once that is gone.
OutcomeInv ==
    /\ \A c \in commits : ver[c.session].pc = "done" /\ ver[c.session].result \in {"ok", "error"}
    /\ \A r \in Verifications : ver[r].result = "ok" => \E c \in commits : c.session = r
    /\ \A q \in OTPRequests : req[q].sms # "none" => req[q].result = "ok"
    /\ \A p \in Phones :
        /\ otp[p].status = "absent" => otp[p].mac = None
        /\ otp[p].mac # None =>
            LET q == req[otp[p].mac] IN
            q.pc \in {"create", "existing"} \/ (q.pc = "done" /\ q.result \in {"ok", "error"})

\* Every error that an operation returns, alone or joined with another, gets statuses
\* that relate as TablesAgreeOn says: alone, it means the same over gRPC, HTTP and WebSocket
\* and is reported as worth a retry if IsRetryable says so; joined, the gRPC and HTTP statuses
\* still agree, and the close code does unless a resource error meets an error of access.
\* Each of the three tables of internal/errmap takes the first row that matches, in an order
\* of its own.
TablesAgree ==
    /\ \A r \in Verifications : ver[r].result \in {"none", "ok"} \cup Consistent
    /\ \A q \in OTPRequests : req[q].result \in {"none", "ok"} \cup Consistent
    /\ \A f \in Refreshes : ref[f].result \in {"none", "ok"} \cup Consistent
    /\ \A l \in Logouts : out[l].result \in {"none", "ok"} \cup Consistent
=============================================================================
