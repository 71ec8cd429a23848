---------------------------- MODULE ErrorMapping ----------------------------
(***************************************************************************)
(* The domain errors (domain/errors.go) and the tables that turn them into *)
(* what a client sees (internal/errmap).  An error value is the set of     *)
(* what its chain holds, as errors.Is finds it: domain errors, wrapped or  *)
(* joined, and Opaque for everything else.  nil is the empty set.          *)
(***************************************************************************)
EXTENDS Naturals, FiniteSetsExt

Opaque == "error"

AuthErrors ==
    {"ErrUnauthorized", "ErrInvalidOTP", "ErrOTPExpired", "ErrDeviceMismatch",
     "ErrInvalidRefreshToken", "ErrRefreshTokenReuse", "ErrSessionExpired", "ErrSessionRevoked"}
InputErrors ==
    {"ErrInvalidInput", "ErrMessageTooLarge", "ErrInvalidContentType", "ErrEmptyID",
     "ErrInvalidID", "ErrInvalidPhoneNumber"}
MemberErrors == {"ErrForbidden", "ErrNotMember"}
LimitErrors ==
    {"ErrRateLimited", "ErrPhoneRateLimited", "ErrIPRateLimited", "ErrMaxSessionsExceeded",
     "ErrSlowConsumer"}

\* Every domain error but ErrConfigRequired, which never reaches a handler.
DomainErrors ==
    {"ErrNotFound", "ErrAlreadyExists", "ErrDuplicateMessage", "ErrUnavailable"}
    \cup AuthErrors \cup MemberErrors \cup InputErrors \cup LimitErrors

IsRetryable(err) == err \cap ((LimitErrors \ {"ErrSlowConsumer"}) \cup {"ErrUnavailable"}) # {}
IsClientError(err) ==
    err \cap (AuthErrors \cup MemberErrors \cup InputErrors \cup {"ErrNotFound"}) # {}

\* The tables, neighbouring rows with the same code taken together; the first row
\* that matches wins.
grpcMappings ==
    << <<{"ErrNotFound"}, "NotFound">>,
       <<{"ErrAlreadyExists", "ErrDuplicateMessage"}, "AlreadyExists">>,
       <<AuthErrors, "Unauthenticated">>,
       <<MemberErrors, "PermissionDenied">>,
       <<InputErrors, "InvalidArgument">>,
       <<LimitErrors, "ResourceExhausted">>,
       <<{"ErrUnavailable"}, "Unavailable">> >>

httpMappings ==
    << <<{"ErrNotFound"}, 404>>,
       <<{"ErrAlreadyExists"}, 409>>,
       <<{"ErrDuplicateMessage"}, 200>>,
       <<AuthErrors, 401>>,
       <<MemberErrors, 403>>,
       <<InputErrors, 400>>,
       <<LimitErrors, 429>>,
       <<{"ErrUnavailable"}, 503>> >>

\* Mutant: the rows for rate limits come before those for validation.
wsMappingsReordered ==
    << <<AuthErrors, 4001>>,
       <<MemberErrors, 4003>>,
       <<{"ErrNotFound"}, 4004>>,
       <<{"ErrAlreadyExists", "ErrDuplicateMessage"}, 4009>>,
       <<LimitErrors, 4029>>,
       <<{"ErrInvalidInput", "ErrEmptyID", "ErrInvalidID", "ErrInvalidPhoneNumber"}, 4000>>,
       <<{"ErrMessageTooLarge"}, 4013>>,
       <<{"ErrInvalidContentType"}, 4000>>,
       <<{"ErrUnavailable"}, 1013>> >>

wsMappings ==
    << <<AuthErrors, 4001>>,
       <<MemberErrors, 4003>>,
       <<{"ErrNotFound"}, 4004>>,
       <<{"ErrAlreadyExists", "ErrDuplicateMessage"}, 4009>>,
       <<{"ErrInvalidInput", "ErrEmptyID", "ErrInvalidID", "ErrInvalidPhoneNumber"}, 4000>>,
       <<{"ErrMessageTooLarge"}, 4013>>,
       <<{"ErrInvalidContentType"}, 4000>>,
       <<LimitErrors, 4029>>,
       <<{"ErrUnavailable"}, 1013>> >>

\* for _, m := range table: the code of the first row that errors.Is finds in err.
Lookup(table, err, default) ==
    LET rows == {i \in DOMAIN table : err \cap table[i][1] # {}} IN
    IF rows = {} THEN default ELSE table[Min(rows)][2]

ToGRPCStatus(err)     == IF err = {} THEN "OK" ELSE Lookup(grpcMappings, err, "Internal")
ToHTTPError(err)      == IF err = {} THEN 200  ELSE Lookup(httpMappings, err, 500)
ToWebSocketClose(err) == IF err = {} THEN 1000 ELSE Lookup(wsMappings, err, 1011)

\* What grpc-gateway makes of a gRPC status.
HTTPStatusFromCode ==
    [OK |-> 200, NotFound |-> 404, AlreadyExists |-> 409, Unauthenticated |-> 401,
     PermissionDenied |-> 403, InvalidArgument |-> 400, ResourceExhausted |-> 429,
     Unavailable |-> 503, Internal |-> 500]

-----------------------------------------------------------------------------

\* What a close code says, by its name in websocket.go, as a gRPC status.
MeaningOfClose(code) ==
    CASE code = 1000           -> "OK"
      [] code = 4001           -> "Unauthenticated"
      [] code = 4003           -> "PermissionDenied"
      [] code = 4004           -> "NotFound"
      [] code = 4009           -> "AlreadyExists"
      [] code \in {4000, 4013} -> "InvalidArgument"
      [] code = 4029           -> "ResourceExhausted"
      [] code = 1013           -> "Unavailable"
      [] OTHER                 -> "Internal"

\* The rows that the tables have in different orders: resource errors come first for gRPC
\* and HTTP, errors of access for WebSocket.
ResourceErrors == {"ErrNotFound", "ErrAlreadyExists", "ErrDuplicateMessage"}
AccessErrors   == AuthErrors \cup MemberErrors

\* How the tables relate on an error, whatever is joined in it.
\* HTTP: the status through grpc-gateway and that of a plain HTTP handler are the same,
\* except for ErrDuplicateMessage, which is no failure over HTTP.
\* Retry: the gRPC status says to try again exactly if IsRetryable does and nothing is the
\* client's fault.  (IsRetryable leaves out ErrSlowConsumer, IsClientError leaves out
\* ErrAlreadyExists and ErrDuplicateMessage.)
\* WebSocket: the close code means what the gRPC status says, except where a resource error
\* is joined with an error of access.  There gRPC and HTTP name the resource error, and the
\* close code the error of access.
TablesAgreeOn(err) ==
    LET grpc  == ToGRPCStatus(err)
        close == MeaningOfClose(ToWebSocketClose(err))
        split == err \cap ResourceErrors # {} /\ err \cap AccessErrors # {}
    IN
    /\ "ErrDuplicateMessage" \notin err => ToHTTPError(err) = HTTPStatusFromCode[grpc]
    /\ err \cap {"ErrAlreadyExists", "ErrDuplicateMessage", "ErrSlowConsumer"} = {} =>
           (grpc \in {"ResourceExhausted", "Unavailable"}
                <=> IsRetryable(err) /\ ~IsClientError(err))
    /\ ~split => close = grpc
    /\ split => /\ grpc \in {"NotFound", "AlreadyExists"}
                /\ close \in {"Unauthenticated", "PermissionDenied"}

\* The errors for which this holds alone and when another error is joined to them.
Consistent ==
    {e \in DomainErrors \cup {Opaque} : \A f \in DomainErrors \cup {Opaque} : TablesAgreeOn({e, f})}
=============================================================================
