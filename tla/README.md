# TLA+ verification of the realtime messaging platform

The repository is a messaging platform under construction. The only service with
behaviour is `chatmgmt`: login by one-time password (OTP), access and refresh tokens,
sessions. `gateway`, `ingest` and `fanout` start the shared server and nothing else.
This project models `chatmgmt`, the server process all four share, and the key store written
for `chatmgmt`.

## The system

A client calls four operations (`internal/chatmgmt/app`). Several instances of the service
may run; all shared state is in DynamoDB and Redis.

| Operation | What it does, in order |
| --- | --- |
| `RequestOTP` | counts the call per phone and per address (Redis), puts an OTP unless one is active (DynamoDB), answers, and sends the SMS from a detached goroutine |
| `VerifyOTP` | counts the call and checks the lockout, reads and compares the OTP, finds the user; then registers user, phone and session, or evicts sessions and adds one, in one transaction that spends the OTP; then mints |
| `RefreshTokens` | reads the session, compares the token, writes the rotated session, mints; a reused token deletes the session |
| `Logout` | deletes the session, revokes the access token (Redis) |

The hard part is that each operation is a sequence of separate requests: calls interleave
between any two of them, any of them can fail before or after it took effect, the client
libraries repeat requests, two secondary indexes lag, and items expire.

The process around it (`internal/server`) starts an HTTP and a gRPC server and, on a signal or
when a server fails, shuts down in a fixed order: fail the health check, sleep, stop gRPC, stop
HTTP, run the cleanup of `chatmgmt` (wait for the SMS goroutines, close Redis), flush telemetry.
Requests, SMS goroutines and server goroutines go on meanwhile.

## Modules

| Module | Code | State and actions |
| --- | --- | --- |
| `AuthDomain` | `domain/constants.go`, `domain/clock.go`, `auth/refresh.go` | constants, the clock, truncation to seconds, faults |
| `RateLimiter` | `adapter/redis_ratelimit.go` | `counter`, `lockout`; increment, check, lock out |
| `OTPStore` | `adapter/dynamo_otp.go`, `auth/otp.go` | `otp`, per phone; put, increment, TTL |
| `UserStore` | `adapter/dynamo_users.go` | `users` with the rows that reserve a phone, `phoneIndex` |
| `SessionStore` | `adapter/dynamo_sessions.go`, `redis_revocation.go` | `sessions`, `sessionIndex`, `revoked` |
| `Transactor` | `adapter/dynamo_tx.go` | the two transactions; history `commits`, `guesses` |
| `RequestOTP`, `VerifyOTP`, `RefreshTokens`, `Logout` | `app/auth_*.go` | one record per call: where it is, its locals, its result; one action per request |
| `AuthService` | `app/auth_service.go`, `port/auth_handler.go` | the composition, and the properties |
| `OneTimeLogin` | | the abstract specification: a phone requests a code, the code is issued, lapses or is spent on a session of the phone's account |
| `LoginRefinement` | | `AuthService` implements `OneTimeLogin`: the mapping |
| `ErrorMapping` | `internal/errmap`, `domain/errors.go` | the three tables, their lookup and the classification of errors, as operators on sets of errors |
| `AuthHandler` | `port/auth_handler.go` | composes `AuthService` and `ErrorMapping`: the status of a call, and what a client may conclude from it |
| `LimiterCalls` | `adapter/redis_ratelimit.go` | the limiter alone, with the history of each key: when its script ran, the count it returned and what the caller was told |
| `ServerLifecycle` | `internal/server/server.go`, `cmd/*/main.go`, `cmd/chatmgmt/setup.go`, `internal/observability` | where `Run` and each server goroutine is, what is open, the requests and SMS goroutines; one action per step of the start and of the shutdown |
| `AWSKeyStore` | `adapter/aws_keystore.go` | the cache of public keys, per-call records of `PublicKey`, and SSM |
| `SessionCount` | | the limits on a user's sessions, with a history of the sessions that the logins overlooked |
| `MCAuthService`, `MCLogin`, `MCLogins` | | instances for TLC; `MCLogin` starts from an account with two sessions, `MCLogins` from one with a session that the index does not show yet |
| `AuthAccountProofs` | | proofs about `AuthService` (types, accounts) and `LoginRefinement`, and the lemmas on how a step changes a call that the next four build on |
| `AuthOTPProofs` | | the life of an OTP, the error tables and the statuses of `AuthHandler` |
| `AuthSessionProofs`, `AuthOwnerProofs`, `AuthLimitProofs` | | sessions and tokens; on top of them, whose sessions end, and the session limit |
| `LimiterCallsProofs`, `ServerLifecycleProofs`, `AWSKeyStoreProofs` | | proofs about the modules they are named after |

How the code is read:

- A step is one request to a store (atomic) together with the local code up to the next
  request, the clock readings of that next request included (`at`). `CreateOTP`'s adapter
  reads the clock once more just before its request; the model uses one reading for both.
- A request may fail with no effect, or take effect with its reply lost. In the second case
  the call gets an error, or the client library repeats the request (`ReplyLost`, at most
  `MaxRetries` times per call). `TransactWriteItems` carries a token that makes repetition
  harmless. A transaction conflict is a failure without effect.
- Phones, codes, tokens and IDs are names. A call names what it generates, so generated
  values are distinct, as random ones are. A code that is presented is one that was sent by
  SMS, or a wrong one.
- Time runs in ticks, `TicksPerSecond` to a second. Stored times are whole seconds, as
  RFC 3339 strings are.
- DynamoDB, Redis, SSM and the SMS network are not in the repository. They are modelled
  from the calls the code makes: conditional writes, transactions, upsert on `UpdateItem`,
  TTL deletion at any time after expiry, indexes that catch up row by row, a script that
  runs atomically.
- In `AWSKeyStore` a step is one critical section or one SSM request. The constructor is
  the initial state. A parse error is a failed load. The private key never
  changes and is left out. The store is not wired into `cmd/chatmgmt/setup.go` yet.
- In `OneTimeLogin` the account of a phone stands for both of its rows in the users table.
  An OTP is pending as long as its item says so: its expiry is `AcceptableOTPKept`'s subject.
- An error is the set of what `errors.Is` finds in its chain: domain errors, and `Opaque` for
  everything else. `errors.Join` is union.
- In `ServerLifecycle` time counts from the start of the shutdown and passes only while the
  shutdown function waits. A handler takes at most `HandlerTime` and a send `SendTime`.
  These are assumptions: the store clients time out each request (`config.go:123`, `:131`), but
  nothing limits a handler as a whole, and the SMS goroutine has no deadline at all
  (`auth_request_otp.go:132`). A handler is one
  Redis request and the rest; one that finds the Redis client closed fails as `RequestOTP` does.
  grpc-gateway calls the handlers in process, so an HTTP request needs no gRPC connection.

## Runs

Passing:

| Run | Shows |
| --- | --- |
| `otp_faults` | two `VerifyOTP` calls and two OTPs, every dependency failing, requests repeated: an OTP opens one session, in the step that spends it; a status other than Internal tells what happened; the error tables agree on what the calls return, as far as `TablesAgreeOn` says; also `OutcomeInv` |
| `otp_life` | two ticks to a second, wrong codes, lockout, expiry, a second OTP: no acceptable OTP is replaced or deleted, each comparison is counted, and `OneTimeLogin` is implemented; also `OTPLifeInv` |
| `index_lag` | two phones, lagging indexes, DynamoDB, minting and SMS failing: one user per phone, no OTP opens another account, no login evicts another account's session, `OneTimeLogin` is implemented; also `IInv`, `LoginInv` and `OwnerInv` |
| `logins` | two more logins and a refresh, limit 1, a lagging session index, a session at its expiry: the limit and one session per device hold, apart from sessions the index did not show to a login or a refresh revived; also `EvictionInv` |
| `calls_return` | every call returns (liveness) |
| `sessions` | two refreshes and a logout across token and session expiry, with failures and repeated requests: exchanged tokens are refused, logged-out tokens stay revoked, a deleted session stays deleted if no refresh was about to write it, and only its own tokens or the TTL end a session; also `SessionInv` and `OwnerInv` |
| `key_store` | two lookups, two keys, rotation, retirement, SSM failures, a load that gets any page of the keys: a key published since the start is turned away only if a page left it out, a call misses a key it has just stored only if another call removed it, every lookup returns; also `KeyIInv` |
| `limiter` | one key, limit 2, up to six calls over almost three windows, replies lost: no span as long as a window admits more than 2 x limit - 1 calls, and a denial is always due to calls of the last window; also `WindowInv` |
| `server` | one service with and one without gRPC and setup, two requests, any failure at the start, a signal or a failing server at any time: see below |

What `server` shows. Only a handler that `httpSrv.Shutdown` gave up on finds Redis closed, and
only its SMS can be cut off by the exit. Unless a server failed, no connection is refused within
`ShutdownDrainDelay` of a healthy answer of `/healthz`. Once the context is done or a server has
failed, `Run` returns. The shutdown takes at most
`ShutdownDrainDelay + 2 * HandlerTime + SendTime + ShutdownOTELTimeout`: `GracefulStop` and the
cleanup have no deadline, an HTTP request accepted while gRPC drains runs its full time, and
`ShutdownHTTPTimeout` does not help because the cleanup may then wait for what straggles. On
this instance the bound is reached: TLC refutes it with `<`. For a service with no gRPC server
and no setup the sum of the three constants is enough.

Some results have exceptions, because the code has them:

- `SessionLimit` and `OneSessionPerDevice` do not count two kinds of sessions, which
  `SessionCount` records as they arise: an active session that `user_sessions-index` did not show
  when a login listed the sessions of the user, and one that a refresh extended after it had
  expired. In `logins` both kinds arise; TLC finds two active sessions of a user with limit 1, and
  two of one device, if they are counted.
- `EveryGuessCounted` is stated for a DynamoDB that does not fail, because a failed increment is
  only logged; it is a lower bound, as a repeated increment counts a guess twice.
- `EstablishedKeyAccepted` and `RefreshFindsKey` leave out a key that a response of SSM left out:
  `loadPublicKeysFromSSM` reads one page. `RefreshFindsKey` also leaves out a key that another call,
  which had loaded earlier, removed from the cache between the refresh and the second read. A
  cooldown that another call started can turn away a key published after the start; no
  property says otherwise.
- `TablesAgree`: gRPC and HTTP agree on every error but `ErrDuplicateMessage`, which is 200 over HTTP.
  WebSocket agrees with gRPC except where a resource error is joined with an error of access:
  `errmap/websocket.go` has the rows for access first. An error that joins `ErrNotFound` and
  `ErrInvalidOTP` is NotFound and 404 but closes with 4001. No operation of the service returns such a join today.

Violated, each a statement of the documents or of a comment that the code does not meet
(the findings in `PROJECT.json` quote them):

| Run | The code |
| --- | --- |
| `viol_sentinel` | may take the row that reserves a phone for its user |
| `viol_revived` | writes back a deleted session |
| `viol_cleanup` | runs the cleanup while HTTP handlers that outlived the timeout still run |

Further differences between documents and code, met while modelling. The models have the
code's behaviour (the last two are outside them). No run is kept for them: for most, one
request or one line decides.

| Document | Code |
| --- | --- |
| no user has more than 5 active sessions (`ADR-015.md:1410`) | the limit is enforced on what a lagging index lists, `auth_verify_otp.go:293`: TLC finds two sessions with limit 1 in `logins` |
| of concurrent refreshes exactly one succeeds (`ADR-015.md:1254`) | the update has no condition, `dynamo_sessions.go:214`: both succeed |
| a refresh finds a newly deployed key (`ADR-015.md:318`) | a slower refresh may overwrite a newer cache before it is read again, `aws_keystore.go:240` |
| `loadPublicKeysFromSSM` fetches all public key parameters (`aws_keystore.go:246`) | it fetches one page and ignores `NextToken`, `aws_keystore.go:250` |
| the total shutdown budget is 30 s (`domain/constants.go:40`) | nothing enforces it; by the bound above `chatmgmt` may need 31 s with handlers of 10 s and a send of 3 s |
| the cleanup must not block indefinitely, it has a bounded context (`ADR-020.md:67`) | it ignores its context, `setup.go:136` |
| every domain error has explicit mappings (`errmap/grpc.go:2`) | `ErrConfigRequired` has none, `errors.go:49` |
| a duplicate message is gRPC OK (`domain/errors.go:31-32`) | `AlreadyExists`, `errmap/grpc.go:26` |
| `attempt_count` is in [0, 5], incremented under a condition (`ADR-015.md:213`, `:1312`) | incremented without one, `dynamo_otp.go:191` |
| the transaction checks expiry and attempts (`ADR-015.md:523-524`) | it checks neither, `dynamo_tx.go:125` |
| `ErrAlreadyExists` means user or phone exists (`dynamo_tx.go:53-54`) | returned for a failed OTP condition too, `dynamo_tx.go:216` |
| repeating a verification whose answer was lost returns the session (`ADR-015.md:205-206`, `:1135`) | refused as invalid, `auth_verify_otp.go:131` |
| minting comes before the session update (`ADR-015.md:1163`) | after it, `auth_refresh.go:129-133` |
| a session ends after 30 days regardless of activity (`PR1-DECISIONS.md:178`) | each refresh extends it, `auth_refresh.go:119` |
| the cooldown limits SSM calls to two a minute (`PR1-DECISIONS.md:70`) | checked and started apart, and not started by a failed refresh, `aws_keystore.go:191`, `:242` |
| five minutes after a rotation new tokens carry the new key (`PR1-DECISIONS.md:90-91`) | the signing key is loaded once, `aws_keystore.go:138` |
| names like `GATEWAY_HTTP_PORT` set keys (`config.go:154`, `.env.example`) | each underscore becomes a level, so `gateway.http_port` and `log_level` are never set, `config.go:157` |

Bounds. Each run has as many calls as its question needs actors: two for a race, and more where
something must come before it. Limits are scaled down so that they are reached (a window of a
few ticks, one or two sessions, one or two attempts), keeping the order of the durations where
it matters to the run. `MaxTime` is past the longest lifetime a run is about. Runs about
interleaving only stop the clock (`MaxTime = 0`), which removes no interleaving; `logins` is
stopped in the second in which the session of its account expires, so that a refresh may still
revive it (with one second more it passes too, in 3.5 million states). One repeated request per
call is enough for a request to meet its own effect. Calls of one kind are interchangeable,
hence the symmetry sets; liveness runs use none. `server` has two requests, one to hold a server
open and one to come late; the handler time is longer than the HTTP timeout, so that requests
outlive it. `limiter` has time for two windows to end and calls enough to fill three; keys do
not influence each other, so one is enough. Deadlock is checked everywhere: `Terminating`,
`CallsOver` and `Exited` are the ends of the calls, of the limiter's bounds and of the process.

Fairness is weak, per call that has arrived: its goroutine is scheduled and each request
returns or fails. The latter is an assumption about the network; the code adds nothing to
it, as no call waits for another and no lock is held across a request. In `server` it is weak
fairness of `Run`, of each server that is starting or was stopped, of each running handler and
send, and of the time that passes while the shutdown waits. Nobody is obliged to call or to send
a signal. In the other runs neither time, TTL deletion nor index replication is assumed fair.

## Proofs

The theorems hold for every number of calls, phones, devices, requests and lookups, every limit
and duration, and with every fault. What they assume are the named `ASSUME`s of `AuthDomain`,
`UserStore`, `AWSKeyStore` and `ServerLifecycle`: limits and durations are positive (those of
`AWSKeyStore` may be 0), names are distinct. Each inductive invariant is also an invariant of a run.

| Theorem | States | From |
| --- | --- | --- |
| `TypesCorrect` | `TypeOK` and `CallInv` | |
| `InductiveInvariant` | `IInv` | `TypesCorrect` |
| `PhoneUniqueness`, `SingleConsumption`, `OwnAccount` | `OneUserPerPhone`, `OTPSpentOnce`, `OTPOpensOwnAccount` | `IInv` |
| `LoginInvariant`, `Refinement` | `LoginInv`, `ImplementsOneTimeLogin` | `IInv` |
| `LifeInvariant`, `GuessesAreCounted` | `OTPLifeInv`, `EveryGuessCounted` | `IInv` |
| `SingleActive` | `AcceptableOTPKept` (action) | `OTPLifeInv` |
| `JoinedErrorsAgree`, `RoutesAgree` | `TablesAgreeOn` every error, `TablesAgree` | `TypesCorrect` for the second |
| `OutcomeInvariant`, `StatusIsTrue` | `OutcomeInv`, `StatusTellsOutcome` | `IInv` |
| `SessionInvariant`, `LoggedOutStaysOut` | `SessionInv`, `LogoutOutlivesToken` | `IInv` |
| `OldTokenRefused`, `DeletedForGood`, `ConsumptionIsAtomic` | `ExchangedTokenRefused`, `GoneForGood`, `OTPConsumptionAtomic` (actions) | `SessionInv`; for `GoneForGood` also `LoginInv` |
| `EvictionMakesRoom`, `SessionsBounded`, `DeviceHasOneSession` | `EvictionInv`, `SessionLimit`, `OneSessionPerDevice`, for `CountSpec` | `IInv`, `LoginInv`, `SessionInv` |
| `OwnersInvariant`, `OnlyOwnersEnd` | `OwnerInv`, `EndedByOwner` (action) | `IInv`, `SessionInv`; for `EndedByOwner` also `LoginInv` |
| `WindowsInvariant`, `SpanIsBounded`, `DenialsAreJustified` | `WindowInv`, `AdmittedInAnySpan`, `DenialJustified` | |
| `LifecycleInvariant`, `RedisOutlivesHandlers`, `SMSAwaited`, `ShutdownIsBounded` | `ServerIInv`, `OnlyStragglersLoseRedis`, `SMSNotAbandoned`, `BoundedShutdown` | |
| `DrainBeforeRefusing` | `RefusedAfterDrain` (action) | `ServerIInv` |
| `KeyStoreInvariant`, `EstablishedKeys`, `RefreshedKeys` | `KeyIInv`, `EstablishedKeyAccepted`, `RefreshFindsKey` | |

The arguments, and what each invariant adds to the property it is for:

- Accounts. `OTPSpentOnce` is not inductive: nothing in it stops a spent OTP from being put
  back. `IInv` adds that an OTP is written only by a call that has sent no SMS yet, that only
  sent codes are presented, and that a spent OTP was sent and is pending nowhere. Hence a
  repeated put can reactivate only an OTP nobody has. `OneUserPerPhone` needs that every
  registered phone is reserved, and `OTPOpensOwnAccount` that what a call found through the
  index is in the table.
- Refinement. Every action maps to a step of `OneTimeLogin` or to none. `LoginInv` adds what
  makes the mapping a function of the tables: a user_id has one row, a row that reserves a phone
  comes with its user, and a call that has committed has returned, so it opens no second session.
- OTPs. A guess is a read of the OTP in one step and an increment in another, so
  `EveryGuessCounted` counts the calls in between. It needs that the counter of a new OTP starts
  with no guess at it outstanding: without DynamoDB failures an OTP is in the table only once its
  call has returned. `AcceptableOTPKept` needs that the `:now` of a put is never ahead of the
  clock, and the arithmetic of truncating times to seconds.
- Answers. `StatusTellsOutcome` says what a status excludes; `OutcomeInv` says why: no error but
  that of a lost reply arises after the write that matters, and a `RequestOTP` call that finds an
  OTP is not refused while its own is in the table.
- Error tables. `errors.Is` finds any of several joined errors, and the first row that matches
  decides; the three tables have their rows in different orders. So the theorem is about every
  set of errors: a lookup that finds nothing in the rows before a row and something in it returns
  that row, and the rows of each table fall into the same eight classes of errors. Resource errors
  come before errors of access for gRPC and HTTP and after them for WebSocket, hence the exception.
- Tokens. `SessionInv` ties three things together: tokens presented were handed out by calls that
  have returned; a session is only given the token of a call that has not, so never an exchanged
  one; and a revocation key never outlasts a token minted now, so that setting it again does not
  shorten it.
- Session limit. The limit is enforced by a read and deletions that come before the transaction
  that adds the session, so it is not obvious that two logins do not both find room.
  `EvictionInv` says they may both find it, but not both use it: a phone has one pending OTP, and
  while the OTP of a call can still be spent no other login to the account has added a session
  since the call listed them. `CountSpec` is `AuthService`'s `Spec` with the history `overlooked`,
  which restricts no step, so its behaviours have all the invariants proved for `Spec`. At the
  moment a call lists the sessions, each counted one is on its list or becomes overlooked; from then
  on a step of another call adds no counted session while the OTP can be spent. `ItemInv` adds
  that table and index agree on the device of a session and that its user has a row, so that
  a registration finds no session of its new user. The theorems are without conditions on
  the index or on refreshes. They start from empty tables; the run starts from an account.
- Whose sessions end. `EvictSession` deletes by an entry read from the index in an earlier
  request, the deletion on reuse by the session ID of an access token. `OwnerInv` says why both
  hit the right session. Every entry for a user, in the table, in the late index or in the list
  of a call, goes back to a commit for that user; `IInv` ties that user to the phone of the
  commit's OTP, `LoginInv` makes the row unique. And a session's tokens were made for it: the
  previous one was handed out for it, the current one is of a call on it. A session that
  `RefreshTokens` wrote back without a user is why the invariant leaves out `None`.
- Limiter. The counter alone does not say which calls it stands for. `WindowInv` relates it to
  the history: the count a run returned gives the run that opened its window, all runs of
  a window lie within its length, and windows do not overlap. A span as long as a window then
  meets at most two windows, and not the first run of the earlier one if it meets both, hence
  2 x limit - 1; the runs before a denied one in its window are the calls that justify the denial.
- Server. The properties are about the end of the shutdown, `ServerIInv` about every phase before
  it: which servers exist and were told to quit, that whoever still runs or sends after a wait was
  given up on, what is open, and by when each handler, each send and hence each wait is over.
- Key store. `KeyIInv` adds to `EstablishedKeyAccepted` that the keys are also in every
  refresh that has loaded and not yet stored. For `RefreshFindsKey` it follows the key of one call:
  in SSM since the call began, in what the call loads, and in the cache from its store until
  another call stores a set without it (`due`).

The proofs go one lemma per operation and one case per action. Lemmas about record updates
come first, so that the cases do not unfold them: what a step of a call does to its record
(`OnwardForms`, `EndForms`, `VerifyMoves`, `RefreshMoves`, `LogoutMoves`) is stated once and used
for every invariant.

Only model-checked:

- `CallsReturn`, `LookupsReturn`, `RunReturns`: liveness under fairness is outside what the
  prover handles.
- The violated properties.

## Not modelled

- `SessionStore.Create`, `RevocationStore.IsRevoked`, `errmap.FromGRPCError`: no callers.
- Cryptography, encodings, ID and phone validation, header extraction: pure functions of
  strings.
- The values of configuration keys, logging, client construction, Terraform: no behaviour
  over time. Which store client is passed where in `setup`.
- `pkg/protocol`: declarations. `gateway`, `ingest` and `fanout` have nothing beyond the server
  process, which `ServerLifecycle` models.

## Plan

Once the update of `RefreshTokens` is conditional on a session that has not expired, no session is
revived and `Revived` can go from `SessionCount`; once the refreshes of the key store are ordered by
when they loaded, `RefreshFindsKey` needs only the exception for pages.
