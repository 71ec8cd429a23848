----------------------------- MODULE Transactor -----------------------------
(***************************************************************************)
(* The two TransactWriteItems of adapter/dynamo_tx.go.  A transaction      *)
(* checks the conditions of all its items and applies all of its writes,   *)
(* or none, in one step.  The call r that runs it names the new user and   *)
(* the new session.                                                        *)
(***************************************************************************)
EXTENDS OTPStore, SessionStore

VARIABLES
    commits,     \* history: which call spent which OTP for whom
    guesses      \* history: how many wrong codes were compared with each OTP

historyVars == <<commits, guesses>>
tableVars   == <<otp, userVars, sessionVars, historyVars>>

Commit == [otp : OTPRequests, session : Verifications, user : UserIDs]

HistoryTypeOK ==
    /\ commits \in SUBSET Commit
    /\ guesses \in [OTPRequests -> Nat]

HistoryInit ==
    /\ commits = {}
    /\ guesses = [q \in OTPRequests |-> 0]

\* Mutants: the status, or the MAC, is left out of the condition.
OTPVerifyCondNoStatus(p, mac, ea) == otp[p].expires_at = ea /\ otp[p].mac = mac
OTPVerifyCondNoMac(p, mac, ea)    == otp[p].status = "pending" /\ otp[p].expires_at = ea

\* buildOTPVerifyUpdate: #st = :pending AND expires_at = :ea AND otp_mac = :mac
OTPVerifyCond(p, mac, ea) ==
    /\ otp[p].status = "pending"
    /\ otp[p].expires_at = ea
    /\ otp[p].mac = mac

\* Mutant: a status that is not one of the table's.
MarkUsed(p) == otp' = [otp EXCEPT ![p].status = "used"]

\* SET #st = :verified
MarkVerified(p) == otp' = [otp EXCEPT ![p].status = "verified"]

\* buildSessionPut, from the clock reading at
NewSession(r, u, d, at) ==
    [session_id |-> r, user_id |-> u, device_id |-> d,
     refresh_token |-> r, prev_token |-> None, token_generation |-> 1,
     created_at |-> RFC3339(at), expires_at |-> RFC3339(at + RefreshTokenLifetime)]

\* Mutant: the put of the phone row has no condition.
SentinelUnchecked(p) == TRUE

\* buildPhoneSentinelPut: attribute_not_exists(user_id) on "phone#" + number
SentinelFree(p) == UserIDFree(SentinelID(p))

\* The conditions of the four items of VerifyOTPAndCreateUser.
CreateUserCond(r, p, mac, ea) ==
    /\ OTPVerifyCond(p, mac, ea)
    /\ UserIDFree(NewUserID(r))
    /\ SentinelFree(p)
    /\ SessionIDFree(r)

VerifyOTPAndCreateUser(r, p, mac, ea, d, at) ==
    /\ CreateUserCond(r, p, mac, ea)
    /\ MarkVerified(p)
    /\ users' = users \cup {[user_id |-> NewUserID(r), phone_number |-> p],
                            [user_id |-> SentinelID(p), phone_number |-> p]}
    /\ sessions' = sessions \cup {NewSession(r, NewUserID(r), d, at)}
    /\ commits' = commits \cup {[otp |-> mac, session |-> r, user |-> NewUserID(r)]}
    /\ UNCHANGED <<phoneIndex, sessionIndex, revoked, guesses>>

\* The conditions of the two items of VerifyOTPAndCreateSession.
CreateSessionCond(r, p, mac, ea) ==
    /\ OTPVerifyCond(p, mac, ea)
    /\ SessionIDFree(r)

VerifyOTPAndCreateSession(r, p, mac, ea, u, d, at) ==
    /\ CreateSessionCond(r, p, mac, ea)
    /\ MarkVerified(p)
    /\ sessions' = sessions \cup {NewSession(r, u, d, at)}
    /\ commits' = commits \cup {[otp |-> mac, session |-> r, user |-> u]}
    /\ UNCHANGED <<users, phoneIndex, sessionIndex, revoked, guesses>>
=============================================================================
