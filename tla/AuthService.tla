---------------------------- MODULE AuthService ----------------------------
(***************************************************************************)
(* The auth service as a whole: any number of calls in flight, on any      *)
(* number of instances of the service, over the shared DynamoDB tables and *)
(* Redis keys, while time passes, expired items are deleted and the        *)
(* secondary indexes catch up.                                             *)
(***************************************************************************)
EXTENDS Logout

vars == <<now, limiterVars, tableVars, req, ver, ref, out>>

TypeOK ==
    /\ now \in Nat
    /\ LimiterTypeOK
    /\ OTPTypeOK
    /\ UserTypeOK
    /\ SessionTypeOK
    /\ HistoryTypeOK
    /\ RequestTypeOK
    /\ VerifyTypeOK
    /\ RefreshTypeOK
    /\ LogoutTypeOK

Init ==
    /\ ClockInit
    /\ LimiterInit
    /\ OTPInit
    /\ UserInit
    /\ SessionInit
    /\ HistoryInit
    /\ RequestInit
    /\ VerifyInit
    /\ RefreshInit
    /\ LogoutInit

TimePasses == Tick /\ UNCHANGED <<limiterVars, tableVars, req, ver, ref, out>>

TableMaintenance ==
    /\ \/ /\ \E p \in Phones : ExpireOTPItem(p)
          /\ UNCHANGED <<userVars, sessionVars>>
       \/ ExpireSessionItem /\ UNCHANGED <<otp, userVars>>
       \/ PropagateUser /\ UNCHANGED <<otp, sessionVars>>
       \/ PropagateSession /\ UNCHANGED <<otp, userVars>>
    /\ UNCHANGED <<now, limiterVars, historyVars, req, ver, ref, out>>

RequestSteps(q) == RequestStep(q) /\ UNCHANGED <<userVars, sessionVars, historyVars, ver, ref, out>>
VerifySteps(r)  == VerifyStep(r) /\ UNCHANGED <<req, ref, out>>
RefreshSteps(f) == RefreshStep(f) /\ UNCHANGED <<req, out>>
LogoutSteps(l)  == LogoutStep(l) /\ UNCHANGED req

\* Every call has returned and every SMS goroutine has ended.
Terminating ==
    /\ \A q \in OTPRequests : RequestDone(q)
    /\ \A r \in Verifications : ver[r].pc = "done"
    /\ \A f \in Refreshes : ref[f].pc = "done"
    /\ \A l \in Logouts : out[l].pc = "done"
    /\ UNCHANGED vars

Next ==
    \/ TimePasses
    \/ TableMaintenance
    \/ \E q \in OTPRequests : RequestSteps(q)
    \/ \E r \in Verifications : VerifySteps(r)
    \/ \E f \in Refreshes : RefreshSteps(f)
    \/ \E l \in Logouts : LogoutSteps(l)
    \/ Terminating

Spec == Init /\ [][Next]_vars

\* A call that has arrived keeps running: its goroutine is scheduled, and every
\* store call returns or fails.  Nobody is obliged to call.
Fairness ==
    /\ \A q \in OTPRequests : WF_vars(req[q].pc # "idle" /\ RequestSteps(q))
    /\ \A r \in Verifications : WF_vars(ver[r].pc # "idle" /\ VerifySteps(r))
    /\ \A f \in Refreshes : WF_vars(ref[f].pc # "idle" /\ RefreshSteps(f))
    /\ \A l \in Logouts : WF_vars(out[l].pc # "idle" /\ LogoutSteps(l))

FairSpec == Spec /\ Fairness

-----------------------------------------------------------------------------

\* The rows of registered users, as opposed to the rows that reserve a phone.
RegisteredUsers == {row \in users : \E r \in Verifications : row.user_id = NewUserID(r)}

\* phone_uniqueness_enforced: however registrations race (dynamo_tx.go,
\* VerifyOTPAndCreateUser), no phone ever has two users.
OneUserPerPhone ==
    \A a, b \in RegisteredUsers : a.phone_number = b.phone_number => a = b

\* otp_consumption_atomic: an OTP opens at most one session, whatever calls
\* present it, at whatever time, through registration or login.
OTPSpentOnce ==
    \A a, b \in commits : a.otp = b.otp => a = b

\* An OTP requested for a phone only ever opens sessions of that phone's account
\* (the user row or the row that reserves the phone).
OTPOpensOwnAccount ==
    \A c \in commits : [user_id |-> c.user, phone_number |-> req[c.otp].phone] \in users

\* The calls that compared a wrong code for p and have yet to count it.
Counting(p) == {r \in Verifications : ver[r].pc = "increment" /\ ver[r].phone = p}

\* Unless DynamoDB fails, every wrong code compared with the active OTP of a phone
\* is in its attempt_count or about to be: a guess is never free, although the
\* count is read in one step and incremented in another, by then perhaps on a
\* newer OTP.
EveryGuessCounted ==
    "dynamo" \notin Faults =>
    \A p \in Phones :
        otp[p].status = "pending" =>
            guesses[otp[p].mac] <= otp[p].attempt_count + Cardinality(Counting(p))

\* otp_single_active: an OTP that VerifyOTP would still accept is not replaced or
\* deleted by RequestOTP or by the TTL; it can only be spent.
AcceptableOTPKept ==
    [][\A p \in Phones :
         (otp[p].status = "pending" /\ ~After(now, otp[p].expires_at)) =>
            /\ otp'[p].mac = otp[p].mac
            /\ otp'[p].status \in {"pending", "verified"}]_vars

\* otp_consumption_atomic, per step: a session appears in the very step that spends
\* the OTP its call presented, and no OTP is spent without a session.  The code is
\* compared several store calls before the transaction, with an OTP that may have
\* been replaced since.
OTPConsumptionAtomic ==
    [][LET spent == {p \in Phones : otp[p].status = "pending" /\ otp'[p].status = "verified"}
           added == {s \in sessions' \ sessions : s.token_generation = 1}
       IN  /\ \A s \in added : \E p \in spent : ver[s.session_id].code = otp[p].mac
           /\ spent # {} => added # {}]_vars

\* "Old refresh token no longer valid after rotation": a refresh token for which some
\* refresh has returned new tokens is never accepted by a refresh that reads the
\* session later, whatever refreshes, deletions and repeated updates came between.
ExchangedTokenRefused ==
    [][\A f, g \in Refreshes :
         (/\ ref[f].result = "ok" /\ ref[f].sid = ref[g].sid /\ ref[f].token = ref[g].token
          /\ ref[g].pc = "get")
         => ref'[g].pc # "update"]_vars

\* A session that was deleted (logout, eviction, reuse, TTL) while no refresh was
\* between its read and its update of it stays deleted: no refresh starts on it and
\* nothing writes it again.
Gone(id) ==
    /\ \E c \in commits : c.session = id
    /\ SessionIDFree(id)
    /\ \A f \in Refreshes : ref[f].sid = id => ref[f].pc # "update"

GoneForGood == [][\A id \in Verifications : Gone(id) => Gone(id)']_vars

\* Nobody ends the session of somebody else: a session leaves the table before it has
\* expired only in a step of VerifyOTP that evicts it, in a call given a code sent to the
\* phone whose code opened the session; of RefreshTokens, in a call given a refresh token
\* that was handed out for that session; or of Logout, in a call given an access token of
\* it.  The evicting call may work from a list of sessions that is out of date, and the
\* session may have been rotated, deleted and written back since it was opened.
EndedByOwner ==
    [][\A s \in sessions : SessionIDFree(s.session_id)' =>
         \/ s.expires_at < RFC3339(now)
         \/ \E r \in Verifications, c \in commits :
               /\ ver[r].pc = "evict" /\ ver'[r].pc # "evict"
               /\ c.session = s.session_id
               /\ req[ver[r].code].phone = req[c.otp].phone
         \/ \E f \in Refreshes :
               /\ ref[f].pc = "delete" /\ ref'[f].pc # "delete"
               /\ ref[f].token \in Issued /\ SessionOf(ref[f].token) = s.session_id
         \/ \E l \in Logouts :
               /\ out[l].pc = "delete" /\ out'[l].pc # "delete"
               /\ out[l].jti \in Issued /\ SessionOf(out[l].jti) = s.session_id]_vars

\* Once Logout has answered, the access token it was given is revoked for as long as
\* it would have been accepted: the fixed lifetime of the key covers what is left of
\* the token's.
LogoutOutlivesToken ==
    \A l \in Logouts :
        out[l].result = "ok" =>
            TokenExpired(out[l].jti) \/ now < revoked[<<"jti", out[l].jti>>]

\* Every call that has arrived returns: no step waits on another call, and the
\* eviction loop ends.
CallsReturn ==
    /\ \A q \in OTPRequests : (req[q].pc # "idle") ~> RequestDone(q)
    /\ \A r \in Verifications : (ver[r].pc # "idle") ~> (ver[r].pc = "done")
    /\ \A f \in Refreshes : (ref[f].pc # "idle") ~> (ref[f].pc = "done")
    /\ \A l \in Logouts : (out[l].pc # "idle") ~> (out[l].pc = "done")

-----------------------------------------------------------------------------
(***************************************************************************)
(* The inductive invariant behind OneUserPerPhone, OTPSpentOnce and        *)
(* OTPOpensOwnAccount.                                                     *)
(***************************************************************************)

\* Where a call of VerifyOTP knows its code to be the OTP it read, and where it also
\* knows the user.
Matched    == {"find", "register", "find_race", "list", "evict", "revoke", "login"}
Identified == {"list", "evict", "revoke", "login"}

\* The locals of a call are set where the code uses them, and the OTP it goes on with
\* is the one it was given the code of.
VerifyCallOK(c) ==
    /\ c.pc \notin {"idle", "done"} => c.phone \in Phones
    /\ c.pc \in Matched => c.mac \in OTPRequests /\ c.mac = c.code
    /\ c.pc \in Identified => c.user \in UserIDs

RefreshCallOK(c) == (c.pc \notin {"idle", "done"} \/ c.result = "ok") => c.sid \in Verifications

CallInv ==
    /\ \A p \in Phones : otp[p].status = "pending" => otp[p].mac \in OTPRequests
    /\ \A r \in Verifications : VerifyCallOK(ver[r])
    /\ \A f \in Refreshes : RefreshCallOK(ref[f])

\* An OTP belongs to the phone it was requested for; it is written by a call that has
\* sent nothing yet, and only what was sent is presented.
OTPInv ==
    /\ \A q \in OTPRequests : req[q].sms # "none" => req[q].pc = "done"
    /\ \A p \in Phones : otp[p].mac # None =>
            req[otp[p].mac].phone = p /\ req[otp[p].mac].pc # "idle"
    /\ \A r \in Verifications : ver[r].code # None => ver[r].code \in CodesDelivered

\* A spent OTP was sent, and is not pending on any phone.
CommitInv ==
    /\ \A c \in commits : c.otp \in CodesDelivered
    /\ \A c \in commits, p \in Phones : otp[p].mac = c.otp => otp[p].status # "pending"

\* What a call found is in the table, and a registered phone is reserved.
UserInv ==
    /\ phoneIndex \subseteq users
    /\ \A r \in Verifications : ver[r].pc \in Identified =>
            [user_id |-> ver[r].user, phone_number |-> ver[r].phone] \in users
    /\ \A row \in RegisteredUsers : ~SentinelFree(row.phone_number)

\* The invariant as a whole: the accounts and the OTPs stay consistent, whatever
\* calls of RequestOTP and VerifyOTP interleave.
IInv ==
    /\ TypeOK
    /\ CallInv
    /\ OTPInv
    /\ CommitInv
    /\ UserInv
    /\ OneUserPerPhone
    /\ OTPSpentOnce
    /\ OTPOpensOwnAccount

-----------------------------------------------------------------------------
(***************************************************************************)
(* The inductive invariants behind AcceptableOTPKept and EveryGuessCounted *)
(* and behind the promises about sessions and tokens.                      *)
(***************************************************************************)

\* No call of RequestOTP is ahead of the clock with the :now of its put.  Unless
\* DynamoDB fails, an OTP is in the table only once the call that made it has returned,
\* so that nobody has guessed at an OTP that is yet to be written.
OTPLifeInv ==
    /\ \A q \in OTPRequests : req[q].at <= now
    /\ \A p \in Phones : IsFiniteSet(Counting(p))
    /\ "dynamo" \notin Faults =>
        /\ \A p \in Phones : otp[p].mac # None => req[otp[p].mac].pc = "done"
        /\ \A q \in OTPRequests : req[q].pc # "done" => guesses[q] = 0

\* A call that handed out tokens has returned, and minted them in the past.
IssuedInv ==
    /\ \A r \in Verifications : ver[r].result = "ok" => ver[r].pc = "done" /\ ver[r].at <= now
    /\ \A f \in Refreshes : ref[f].result = "ok" => ref[f].pc = "done" /\ ref[f].at <= now

\* Only what was handed out is presented, for a session that was handed out; and a
\* session never goes back to a refresh token that was exchanged for a new one: it is
\* only ever given the token of a call that has not returned.
RotationInv ==
    /\ \A f \in Refreshes :
        /\ ref[f].sid # None => ver[ref[f].sid].result = "ok"
        /\ ref[f].token # None => ref[f].token \in Issued
        /\ ref[f].result = "ok" => \A s \in GetByID(ref[f].sid) : s.refresh_token # ref[f].token
        /\ ref[f].pc = "update" => ref[f].gen >= 1
    /\ \A s \in sessions : s.token_generation >= 1

\* A key never outlasts the tokens minted now, so that to set it again never shortens it;
\* the key of a token that was logged out lasts as long as the token.
RevocationInv ==
    /\ \A k \in RevocationKeys : revoked[k] <= now + AccessTokenLifetime
    /\ \A l \in Logouts :
        /\ out[l].pc # "done" => out[l].result = "none"
        /\ (out[l].pc \notin {"idle", "done"} \/ out[l].result = "ok") => out[l].jti \in Issued
        /\ out[l].result = "ok" =>
               MintedAt(out[l].jti) + AccessTokenLifetime <= revoked[<<"jti", out[l].jti>>]

SessionInv == IssuedInv /\ RotationInv /\ RevocationInv

\* A call of VerifyOTP that got past the comparison of the codes was given one sent to
\* its phone, and every session that the table or the index shows for a user, or that a
\* call is about to evict for its user, was opened for that user.
SessionOwnerInv ==
    /\ \A r \in Verifications :
        /\ ver[r].pc \in Matched => req[ver[r].code].phone = ver[r].phone
        /\ ver[r].pc \in {"evict", "revoke"} => \A s \in ver[r].todo :
               \E c \in commits : c.session = s.session_id /\ c.user = ver[r].user
    /\ \A s \in sessions \cup sessionIndex : s.user_id # None =>
            \E c \in commits : c.session = s.session_id /\ c.user = s.user_id

\* The tokens of a session were made for it: the previous one was handed out for it, the
\* current one was or is about to be; and a refresh that goes on was given one of them.
TokenOwnerInv ==
    /\ \A s \in sessions :
        /\ s.prev_token # None => s.prev_token \in Issued /\ SessionOf(s.prev_token) = s.session_id
        /\ \A r \in Verifications : s.refresh_token = r => r = s.session_id
        /\ \A f \in Refreshes :
              (s.refresh_token = f /\ (ref[f].pc # "done" \/ ref[f].result = "ok")) =>
                  ref[f].pc \in {"update", "done"} /\ ref[f].sid = s.session_id
    /\ \A f \in Refreshes : ref[f].pc \in {"update", "delete"} =>
            ref[f].token \in Issued /\ SessionOf(ref[f].token) = ref[f].sid

OwnerInv == SessionOwnerInv /\ TokenOwnerInv

-----------------------------------------------------------------------------
(***************************************************************************)
(* What the documents say and the code does not do.                        *)
(***************************************************************************)

\* ADR-015 section 5.1: the row that reserves a phone is invisible to
\* phone_number-index, so FindByPhone only finds users and every session
\* belongs to one.
SessionsBelongToUsers ==
    \A s \in sessions : \E row \in RegisteredUsers : row.user_id = s.user_id

\* ADR-015 section 6.3: a revoked session is gone for good.
RevokedSessionStaysRevoked ==
    [][\A id \in Verifications :
         ((\E c \in commits : c.session = id) /\ SessionIDFree(id)) => SessionIDFree(id)']_vars
=============================================================================
