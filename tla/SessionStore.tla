---------------------------- MODULE SessionStore ----------------------------
(***************************************************************************)
(* The sessions table (adapter/dynamo_sessions.go), its                    *)
(* user_sessions-index, and the revocation keys of Redis                   *)
(* (adapter/redis_revocation.go).                                          *)
(***************************************************************************)
EXTENDS UserStore

VARIABLES
    sessions,       \* the items of the table, at most one per session_id
    sessionIndex,   \* the items as the index shows them
    revoked         \* per revocation key, the tick at which it expires

sessionVars == <<sessions, sessionIndex, revoked>>

\* sessionItem; the attributes an item lacks read as None (the empty string).
SessionItem ==
    [session_id       : Verifications,
     user_id          : UserIDs \cup {None},
     device_id        : Devices \cup {None},
     refresh_token    : TokenIDs,              \* refresh_token_hash
     prev_token       : TokenIDs \cup {None},  \* prev_token_hash
     token_generation : Nat,
     created_at       : Nat,
     expires_at       : Nat]

\* revoked_jti: keys.  Logout and reuse detection revoke the jti of an access token,
\* the eviction of a session its session ID.
RevocationKeys == ({"jti"} \X TokenIDs) \cup ({"session"} \X Verifications)

SessionTypeOK ==
    /\ sessions \in SUBSET SessionItem
    /\ sessionIndex \in SUBSET SessionItem
    /\ revoked \in [RevocationKeys -> Nat]

SessionInit ==
    /\ sessions = {}
    /\ sessionIndex = {}
    /\ revoked = [k \in RevocationKeys |-> 0]

\* attribute_not_exists(session_id)
SessionIDFree(id) == \A s \in sessions : s.session_id # id

\* Mutant: an eventually consistent read, that may still return what was read before.
GetByIDStale(id) == {s \in sessions \cup sessionIndex : s.session_id = id}

\* GetByID, a consistent read: the item, or none
GetByID(id) == {s \in sessions : s.session_id = id}

\* Mutant: the sessions of every user are listed.
ListByAnyUser(u, sec) ==
    {s \in (IF IndexLag THEN sessionIndex ELSE sessions) : s.expires_at > sec}

\* ListByUser: the index entries of a user with expires_at > :now, where :now
\* is the second sec.
ListByUser(u, sec) ==
    {s \in (IF IndexLag THEN sessionIndex ELSE sessions) :
        s.user_id = u /\ s.expires_at > sec}

\* Delete: no condition, so deleting a missing item succeeds.
DeleteSession(id) == sessions' = {s \in sessions : s.session_id # id}

\* Mutant: the values of refresh_token_hash and prev_token_hash are swapped.
UpdateSwapsTokens(id, token, prev, generation, expiresAt) ==
    sessions' = {s \in sessions : s.session_id # id} \cup
                {[s EXCEPT !.refresh_token = prev, !.prev_token = token,
                           !.token_generation = generation, !.expires_at = expiresAt] :
                    s \in GetByID(id)}

\* Update: SET of five attributes and no condition, so that it creates an item
\* without user_id, device_id and created_at where there is none.
UpdateSession(id, token, prev, generation, expiresAt) ==
    LET bare == [session_id |-> id, user_id |-> None, device_id |-> None, created_at |-> 0]
        old  == GetByID(id)
        set(s) == [session_id |-> id, user_id |-> s.user_id, device_id |-> s.device_id,
                   created_at |-> s.created_at, refresh_token |-> token,
                   prev_token |-> prev, token_generation |-> generation,
                   expires_at |-> expiresAt]
    IN  sessions' = (sessions \ old) \cup (IF old = {} THEN {set(bare)} ELSE {set(s) : s \in old})

\* Mutant: the key expires halfway through the lifetime of an access token.
RevokeTooShort(k) == revoked' = [revoked EXCEPT ![k] = now + AccessTokenLifetime \div 2]

\* Revoke: SET revoked_jti:key with the lifetime of an access token.
Revoke(k) == revoked' = [revoked EXCEPT ![k] = now + AccessTokenLifetime]

\* DynamoDB TTL: an item whose ttl has passed is deleted at some later moment.
ExpireSessionItem ==
    /\ \E s \in sessions :
        /\ s.expires_at < RFC3339(now)
        /\ sessions' = sessions \ {s}
    /\ UNCHANGED <<sessionIndex, revoked>>

\* The index catches up with the table on one session_id.
PropagateSession ==
    /\ IndexLag
    /\ \E id \in Verifications :
        LET current == {s \in sessions : s.session_id = id}
            shown   == {s \in sessionIndex : s.session_id = id}
        IN  /\ current # shown
            /\ sessionIndex' = (sessionIndex \ shown) \cup current
    /\ UNCHANGED <<sessions, revoked>>
=============================================================================
