---------------------------- MODULE SessionCount ----------------------------
(***************************************************************************)
(* How many sessions the logins of a user leave in place.  VerifyOTP       *)
(* decides on its evictions from one query of user_sessions-index, which   *)
(* shows the sessions as they were some time ago; a refresh can extend a   *)
(* session that expired in the meantime.  The sessions that a login did    *)
(* not see, or that came back in this way, are kept in a history variable  *)
(* beside the auth service, which it does not change.                      *)
(***************************************************************************)
EXTENDS AuthService

VARIABLE overlooked      \* history: the IDs of these sessions

countVars == <<vars, overlooked>>

\* The sessions of a user that have not expired: what ListByUser should return.
ActiveSessions(u) ==
    {s \in sessions : s.user_id = u /\ s.expires_at > RFC3339(now)}

\* The active sessions that are not on the list a call of VerifyOTP gets in this step.
Unseen ==
    {s \in sessions : \E r \in Verifications :
        /\ ver[r].pc = "list" /\ ver'[r].pc # "list"
        /\ s \in ActiveSessions(ver[r].user)
        /\ \A t \in ListByUser(ver[r].user, RFC3339(ver[r].at)) : t.session_id # s.session_id}

\* The sessions that had expired and have a new expiry after this step.
Revived ==
    {s \in sessions' : /\ s.expires_at > RFC3339(now)
                       /\ \E t \in GetByID(s.session_id) : t.expires_at <= RFC3339(now)}

IDs(S) == {s.session_id : s \in S}

CountInit == Init /\ overlooked = {}
CountNext == Next /\ overlooked' = overlooked \cup IDs(Unseen \cup Revived)
CountSpec == CountInit /\ [][CountNext]_countVars

-----------------------------------------------------------------------------

\* The active sessions of a user that no login of the user overlooked.
Counted(u) == {s \in ActiveSessions(u) : s.session_id \notin overlooked}

\* concurrent_session_bounded: enforceSessionLimit runs before the transaction that adds a
\* session, in another step, on a list that may be out of date, and yet no user ever has
\* more than MaxSessionsPerUser active sessions, whatever logins, refreshes and logouts
\* interleave, apart from sessions that user_sessions-index did not show to a login and
\* sessions that a refresh extended after they had expired.
SessionLimit ==
    \A u \in UserIDs : Cardinality(IDs(Counted(u))) <= MaxSessionsPerUser

\* evictConflictingSessions: a user has at most one active session per device, apart from
\* sessions that user_sessions-index did not show to a login and sessions that a refresh
\* extended after they had expired.
OneSessionPerDevice ==
    \A u \in UserIDs : \A s, t \in Counted(u) :
        s.device_id = t.device_id => s.session_id = t.session_id

-----------------------------------------------------------------------------
(***************************************************************************)
(* The inductive invariant behind the two limits.                          *)
(***************************************************************************)

\* A session belongs to a row of the users table, or was written back without its user; its
\* ID is that of a login that has returned; and the table and the index agree on its device.
ItemInv ==
    /\ IsFiniteSet(sessions) /\ IsFiniteSet(sessionIndex)
    /\ \A s \in sessions \cup sessionIndex :
        /\ s.user_id = None \/ ~UserIDFree(s.user_id)
        /\ ver[s.session_id].pc = "done"
    /\ \A s, t \in sessions \cup sessionIndex :
        s.session_id = t.session_id /\ s.user_id # None /\ t.user_id # None
            => s.device_id = t.device_id

\* The OTP that a call was given the code of is still there to be spent.
Spendable(c) == otp[c.phone].status = "pending" /\ otp[c.phone].mac = c.mac

\* The sessions of its user that a call, once it has listed them, leaves in place.
Spared(c) == {s \in Counted(c.user) : s.session_id \notin IDs(c.todo)}

\* As long as the OTP of a call of VerifyOTP that evicts sessions can still be spent, no
\* other login has added a session since the call listed them, so that what it spares of
\* the sessions on its list leaves room for its own.
EvictionInv ==
    /\ ItemInv
    /\ \A r \in Verifications :
        /\ ver[r].pc = "login" => ver[r].todo = {}
        /\ (ver[r].pc \in {"evict", "revoke", "login"} /\ Spendable(ver[r])) =>
              /\ Cardinality(IDs(Spared(ver[r]))) < MaxSessionsPerUser
              /\ \A s \in Spared(ver[r]) : s.device_id # ver[r].device
=============================================================================
