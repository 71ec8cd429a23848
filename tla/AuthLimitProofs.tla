--------------------------- MODULE AuthLimitProofs ---------------------------
(***************************************************************************)
(* VerifyOTP's evictions keep a user within the session limit and a device *)
(* to one session, apart from the sessions that a login overlooked.  The   *)
(* inductive invariant is EvictionInv with the two limits.                 *)
(***************************************************************************)
EXTENDS AuthSessionProofs, SessionCount, FiniteSetTheorems

\* A set of sessions that leaves room for one more on device d; one that keeps the limit.
HasRoom(S, d) == Cardinality(IDs(S)) < MaxSessionsPerUser /\ \A s \in S : s.device_id # d
Within(S) ==
    /\ Cardinality(IDs(S)) <= MaxSessionsPerUser
    /\ \A s, t \in S : s.device_id = t.device_id => s.session_id = t.session_id

\* Every session in T is one in S, perhaps rotated.
Below(T, S) ==
    \A t \in T : \E s \in S : s.session_id = t.session_id /\ s.device_id = t.device_id

\* Finitely many sessions have no more IDs than there are of them.
LEMMA FewIDs ==
    ASSUME NEW S, IsFiniteSet(S)
    PROVE  /\ IsFiniteSet(IDs(S)) /\ Cardinality(IDs(S)) \in Nat
           /\ Cardinality(IDs(S)) <= Cardinality(S)
<1> DEFINE f == [s \in S |-> s.session_id]
<1>1. f \in Surjection(S, IDs(S))
    BY DEF Surjection, IDs
<1>2. IsFiniteSet(IDs(S)) /\ Cardinality(IDs(S)) <= Cardinality(S)
    BY <1>1, FS_Surjection
<1> QED
    BY <1>2, FS_CardinalityType

\* Fewer sessions leave as much room.
LEMMA SmallerSets ==
    ASSUME NEW S, IsFiniteSet(S), NEW T, Below(T, S)
    PROVE  /\ \A d : HasRoom(S, d) => HasRoom(T, d)
           /\ Within(S) => Within(T)
<1>1. IDs(T) \subseteq IDs(S)
    BY DEF Below, IDs
<1>2. /\ Cardinality(IDs(T)) \in Nat /\ Cardinality(IDs(S)) \in Nat
      /\ Cardinality(IDs(T)) <= Cardinality(IDs(S))
    BY <1>1, FewIDs, FS_Subset, FS_CardinalityType
<1>3. \A d : (\A s \in S : s.device_id # d) => \A t \in T : t.device_id # d
    BY DEF Below
<1>4. Within(S) => \A s, t \in T : s.device_id = t.device_id => s.session_id = t.session_id
    BY DEF Below, Within
<1> QED
    BY <1>2, <1>3, <1>4, LimitAssumption DEF HasRoom, Within

\* A session fits where there is room for it.
LEMMA RoomForOne ==
    ASSUME NEW S, IsFiniteSet(S), NEW x, HasRoom(S, x.device_id), Within(S)
    PROVE  Within(S \cup {x})
<1> DEFINE old == IDs(S)
           new == IDs(S \cup {x})
<1>1. IsFiniteSet(old) /\ Cardinality(old) \in Nat /\ Cardinality(old) < MaxSessionsPerUser
    BY FewIDs DEF HasRoom
<1>2. new = old \cup {x.session_id}
    BY DEF IDs
<1> HIDE DEF old, new
<1>3. Cardinality(new) \in {Cardinality(old), Cardinality(old) + 1}
    BY <1>1, <1>2, FS_AddElement
<1>4. Cardinality(new) <= MaxSessionsPerUser
    BY <1>1, <1>3, LimitAssumption
<1> QED
    BY <1>4 DEF HasRoom, Within, new

\* enforceSessionLimit evicts enough: what it leaves has room for one more.
LEMMA EvictsEnough ==
    ASSUME NEW others, IsFiniteSet(others), NEW old \in SUBSET others, Oldest(old, others)
    PROVE  Cardinality(IDs(others \ old)) < MaxSessionsPerUser
<1>1. others \cap old = old
    OBVIOUS
<1>2. /\ Cardinality(others \ old) = Cardinality(others) - Cardinality(old)
      /\ IsFiniteSet(others \ old)
    BY <1>1, FS_Difference
<1>3. Cardinality(others) \in Nat
    BY FS_CardinalityType
<1>4. /\ Cardinality(IDs(others \ old)) \in Nat
      /\ Cardinality(IDs(others \ old)) <= Cardinality(others \ old)
    BY <1>2, FewIDs
<1> QED
    BY <1>2, <1>3, <1>4, LimitAssumption DEF Oldest, EvictCount

-----------------------------------------------------------------------------

\* The sessions that count for a user only grow by those that a step writes.
LEMMA CountedShrinks ==
    ASSUME TypeOK, TypeOK', now <= now', overlooked \subseteq overlooked', NEW u
    PROVE  \A s \in Counted(u)' :
                s \in Counted(u) \/ (s \in sessions' \ sessions /\ s.user_id = u)
<1>1. now \in Nat /\ now' \in Nat /\ \A s \in sessions : s.expires_at \in Nat
    BY DEF TypeOK, SessionTypeOK, SessionItem
<1>2. RFC3339(now) \in Nat /\ RFC3339(now') \in Nat /\ RFC3339(now) <= RFC3339(now')
    BY <1>1, SecondType, SecondMonotone
<1>3. RFC3339(now)' = RFC3339(now')
    BY DEF RFC3339
<1> QED
    BY <1>1, <1>2, <1>3 DEF ActiveSessions, Counted

\* Steps that write no session.
LEMMA NothingWritten ==
    ASSUME TypeOK, TypeOK', now <= now', overlooked \subseteq overlooked',
           sessions' \subseteq sessions, NEW u
    PROVE  Below(Counted(u)', Counted(u))
<1>1. Counted(u)' \subseteq Counted(u)
    BY CountedShrinks
<1> QED
    BY <1>1 DEF Below

\* A rotated session keeps its user and its device, or has no user; the others stay.
LEMMA RotatedItems ==
    ASSUME NEW id, NEW token, NEW prev, NEW generation, NEW expiresAt,
           UpdateSession(id, token, prev, generation, expiresAt)
    PROVE  /\ \A s \in sessions' :
                \/ s \in sessions
                \/ s.session_id = id /\ s.user_id = None
                \/ \E t \in GetByID(id) : /\ s.session_id = id /\ s.user_id = t.user_id
                                          /\ s.device_id = t.device_id
           /\ IsFiniteSet(sessions) => IsFiniteSet(sessions')
<1> DEFINE bare == [session_id |-> id, user_id |-> None, device_id |-> None, created_at |-> 0]
           set(s) == [session_id |-> id, user_id |-> s.user_id, device_id |-> s.device_id,
                      created_at |-> s.created_at, refresh_token |-> token,
                      prev_token |-> prev, token_generation |-> generation,
                      expires_at |-> expiresAt]
           old == GetByID(id)
           f == [s \in old |-> set(s)]
           new == {set(s) : s \in old}
<1>1. \A s : /\ set(s).session_id = id /\ set(s).user_id = s.user_id
             /\ set(s).device_id = s.device_id
    OBVIOUS
<1>2. set(bare).user_id = None
    BY <1>1
<1>3. sessions' = (sessions \ old) \cup (IF old = {} THEN {set(bare)} ELSE new)
    BY DEF UpdateSession
<1>4. f \in Surjection(old, new)
    BY DEF Surjection
<1> HIDE DEF set, bare, f
<1>5. ASSUME NEW s \in sessions'
      PROVE  \/ s \in sessions
             \/ s.session_id = id /\ s.user_id = None
             \/ \E t \in old : /\ s.session_id = id /\ s.user_id = t.user_id
                               /\ s.device_id = t.device_id
  <2>1. s \in sessions \/ s = set(bare) \/ \E t \in old : s = set(t)
    BY <1>3
  <2> QED
    BY <1>1, <1>2, <2>1
<1>6. ASSUME IsFiniteSet(sessions) PROVE IsFiniteSet(sessions')
  <2>1. IsFiniteSet(old) /\ IsFiniteSet(sessions \ old)
    BY <1>6, FS_Subset DEF GetByID
  <2> HIDE DEF old, new
  <2>2. IsFiniteSet(new) /\ IsFiniteSet({set(bare)})
    BY <1>4, <2>1, FS_Surjection, FS_Singleton
  <2>3. IsFiniteSet((sessions \ old) \cup new) /\ IsFiniteSet((sessions \ old) \cup {set(bare)})
    BY <2>1, <2>2, FS_Union
  <2> QED
    BY <1>3, <2>3
<1> QED
    BY <1>5, <1>6

\* What CountNext adds to a step of the service.
Overlooks == overlooked' = overlooked \cup IDs(Unseen \cup Revived)

\* A refresh writes the session that it read, if that counted; a session that had expired
\* is overlooked from then on.
LEMMA RotationBelow ==
    ASSUME TypeOK, TypeOK', UNCHANGED now, Overlooks, NEW f, Rotation(f), NEW u \in UserIDs
    PROVE  Below(Counted(u)', Counted(u))
<1> SUFFICES ASSUME NEW s \in Counted(u)'
             PROVE  \E t \in Counted(u) :
                        t.session_id = s.session_id /\ t.device_id = s.device_id
    BY DEF Below
<1>1. /\ s \in sessions' /\ s.user_id = u /\ s.expires_at > RFC3339(now)
      /\ s.session_id \notin overlooked' /\ s.session_id \notin overlooked
    BY DEF Counted, ActiveSessions, Overlooks, RFC3339
<1>2. CASE s \in sessions
    BY <1>1, <1>2 DEF Counted, ActiveSessions
<1>3. ASSUME NEW t \in GetByID(ref[f].sid), s.session_id = ref[f].sid, s.user_id = t.user_id,
             s.device_id = t.device_id
      PROVE  t \in Counted(u) /\ t.session_id = s.session_id /\ t.device_id = s.device_id
  <2>1. t \in sessions /\ t.session_id = s.session_id /\ t \in GetByID(s.session_id)
    BY <1>3 DEF GetByID
  <2>2. t.expires_at \in Nat /\ RFC3339(now) \in Nat
    BY <2>1, SecondType DEF TypeOK, SessionTypeOK, SessionItem
  <2>3. s \notin Revived
    BY <1>1 DEF Overlooks, IDs
  <2>4. ~(t.expires_at <= RFC3339(now))
    BY ZenonT(60), <1>1, <2>1, <2>3 DEF Revived
  <2>5. t.expires_at > RFC3339(now)
    BY <2>2, <2>4
  <2> QED
    BY <1>1, <1>3, <2>1, <2>5 DEF Counted, ActiveSessions
<1>4. s.user_id # None
    BY <1>1, UserIDAssumption
<1>5. \/ s \in sessions
      \/ s.session_id = ref[f].sid /\ s.user_id = None
      \/ \E t \in GetByID(ref[f].sid) : /\ s.session_id = ref[f].sid /\ s.user_id = t.user_id
                                        /\ s.device_id = t.device_id
    BY <1>1, RotatedItems DEF Rotation
<1> QED
    BY <1>2, <1>3, <1>4, <1>5

\* What EvictionInv says of one call.
EvictionOK(c) ==
    /\ c.pc = "login" => c.todo = {}
    /\ (c.pc \in {"evict", "revoke", "login"} /\ Spendable(c)) => HasRoom(Spared(c), c.device)

\* EvictionInv, call by call.
LEMMA EvictionForm ==
    EvictionInv <=> ItemInv /\ \A r \in Verifications : EvictionOK(ver[r])
BY DEF EvictionInv, EvictionOK, HasRoom

\* Finitely many sessions count.
LEMMA FinitelyCounted ==
    ASSUME ItemInv, NEW u
    PROVE  IsFiniteSet(sessions) /\ IsFiniteSet(sessionIndex) /\ IsFiniteSet(Counted(u))
BY FS_Subset DEF ItemInv, Counted, ActiveSessions

\* A call that a step leaves alone keeps its room, unless the step adds a session of its
\* user without spending its OTP.
LEMMA EvictionStays ==
    ASSUME ItemInv, NEW c \in VerifyCall, EvictionOK(c),
           (c.pc \in {"evict", "revoke", "login"} /\ Spendable(c)') =>
                Spendable(c) /\ Below(Counted(c.user)', Counted(c.user))
    PROVE  EvictionOK(c)'
<1>1. ASSUME c.pc \in {"evict", "revoke", "login"}, Spendable(c)'
      PROVE  HasRoom(Spared(c)', c.device)
  <2>1. HasRoom(Spared(c), c.device)
    BY ZenonT(60), <1>1 DEF EvictionOK
  <2>2. Below(Spared(c)', Spared(c))
    BY <1>1 DEF Spared, Below
  <2>3. IsFiniteSet(Spared(c))
    BY FinitelyCounted, FS_Subset DEF Spared
  <2> QED
    BY ZenonT(60), <2>1, <2>2, <2>3, SmallerSets
<1> QED
    BY <1>1 DEF EvictionOK, HasRoom

\* The same, for the record that the call then has.
LEMMA EvictNextRecord ==
    ASSUME TypeOK, NEW r \in Verifications, NEW todo, EvictNext(r, todo), NEW e, ver'[r] = e
    PROVE  /\ e.user = ver[r].user /\ e.device = ver[r].device /\ e.todo = todo
           /\ e.pc = "login" => e.todo = {}
<1>1. /\ ver'[r].user = ver[r].user /\ ver'[r].device = ver[r].device /\ ver'[r].todo = todo
      /\ ver'[r].pc = "login" => todo = {}
    BY ZenonT(60), EvictNextFields
<1> QED
    BY <1>1

\* A session that counts once a call has listed the sessions of its user is on the list.
LEMMA CountedIsListed ==
    ASSUME Overlooks, UNCHANGED <<now, sessions>>, NEW r \in Verifications, ver[r].pc = "list",
           ver'[r].pc # "list", NEW u, u = ver[r].user, NEW x \in Counted(u)'
    PROVE  \E t \in ListByUser(u, RFC3339(ver[r].at)) : t.session_id = x.session_id
<1>1. x \in ActiveSessions(u) /\ x.session_id \notin overlooked'
    BY DEF Counted, ActiveSessions, RFC3339
<1>2. x \notin Unseen
    BY <1>1 DEF Overlooks, IDs
<1>3. x \in sessions
    BY <1>1 DEF ActiveSessions
<1> QED
    BY ZenonT(60), <1>1, <1>2, <1>3 DEF Unseen

\* The call that runs the eviction loop: listing sets aside enough sessions to make room,
\* and every session that it strikes off its list is deleted.
LEMMA LoopKeepsRoom ==
    ASSUME TypeOK, TypeOK', CallInv, EvictionInv, Overlooks,
           NEW r \in Verifications, VerifySteps(r), NEW e \in VerifyCall,
           ver' = [ver EXCEPT ![r] = e]
    PROVE  EvictionOK(e)'
<1> DEFINE c == ver[r]
<1>1. /\ c \in VerifyCall /\ ver'[r] = e /\ now \in Nat /\ UNCHANGED now
      /\ overlooked \subseteq overlooked'
    BY VerifyEffects DEF TypeOK, VerifyTypeOK, Overlooks
<1>2. ItemInv /\ EvictionOK(c)
    BY EvictionForm
<1>3. CASE e.pc \notin {"evict", "revoke", "login"}
    BY ZenonT(60), <1>3 DEF EvictionOK
<1>4. CASE e.pc \in {"evict", "revoke", "login"} /\ ListSessions(r)
  <2> DEFINE listed == ListByUser(c.user, RFC3339(c.at))
             same   == {s \in listed : s.device_id = c.device}
             others == listed \ same
  <2>1. /\ listed \subseteq sessions \cup sessionIndex
        /\ \A s \in listed : s.user_id = c.user
    BY DEF ListByUser
  <2>2. PICK old \in SUBSET others : Oldest(old, others) /\ EvictNext(r, same \cup old)
    <3>1. ASSUME VerifyReturns(r, "error") PROVE FALSE
        BY ZenonT(30), <1>1, <1>4, <3>1 DEF VerifyReturns, NewCall, TypeOK, VerifyTypeOK
    <3> QED
        BY ZenonT(30), <1>4, <3>1 DEF ListSessions
  <2>3. /\ e.user = c.user /\ e.device = c.device /\ e.todo = same \cup old
        /\ e.pc = "login" => e.todo = {}
    BY ZenonT(60), <1>1, <2>2, EvictNextRecord
  <2>4. UNCHANGED sessions /\ c.pc = "list" /\ c.user # None
    BY ZenonT(60), <1>4, UserIDAssumption
    DEF ListSessions, tableVars, sessionVars, CallInv, VerifyCallOK, Identified
  <2>5. ASSUME NEW x \in Spared(e)'
        PROVE  \E t \in others \ old : /\ t.session_id = x.session_id
                                       /\ t.device_id = x.device_id
    <3>1. x \in Counted(e.user)' /\ x.session_id \notin IDs(same \cup old)
        BY <2>3 DEF Spared
    <3>2. ver'[r].pc # "list"
        BY <1>1, <1>4
    <3>3. PICK t \in listed : t.session_id = x.session_id
        BY ZenonT(60), <1>1, <2>3, <2>4, <3>1, <3>2, CountedIsListed
    <3>4. t \notin same \cup old
        BY <3>1, <3>3 DEF IDs
    <3>5. x \in sessions /\ x.user_id = c.user
        BY <2>3, <2>4, <3>1 DEF Counted, ActiveSessions
    <3>6. t.device_id = x.device_id
        BY <1>2, <2>1, <2>4, <3>3, <3>5 DEF ItemInv
    <3> QED
        BY <3>3, <3>4, <3>6
  <2>6. Below(Spared(e)', others \ old)
    BY <2>5 DEF Below
  <2>7. IsFiniteSet(others) /\ IsFiniteSet(others \ old)
    <3>1. IsFiniteSet(sessions \cup sessionIndex)
        BY <1>2, FS_Union DEF ItemInv
    <3> QED
        BY ZenonT(60), <2>1, <3>1, FS_Subset
  <2>8. HasRoom(others \ old, e.device)
    BY ZenonT(30), <2>2, <2>3, <2>7, EvictsEnough DEF HasRoom
  <2>9. HasRoom(Spared(e)', e.device)
    BY ZenonT(30), <2>6, <2>7, <2>8, SmallerSets
  <2> QED
    BY ZenonT(60), <2>3, <2>9 DEF EvictionOK, HasRoom
<1>5. ASSUME e.pc \in {"evict", "revoke"} \/ e.todo = {}, c.pc \in {"evict", "revoke"},
             e.user = c.user, e.device = c.device, e.phone = c.phone, e.mac = c.mac,
             UNCHANGED otp, sessions' \subseteq sessions,
             \A s \in sessions' : s.session_id \in IDs(c.todo) => s.session_id \in IDs(e.todo)
      PROVE  EvictionOK(e)'
  <2>1. ASSUME Spendable(e)' PROVE HasRoom(Spared(e)', e.device)
    <3>1. HasRoom(Spared(c), c.device)
        BY <1>2, <1>5, <2>1 DEF EvictionOK, Spendable
    <3>2. Counted(e.user)' \subseteq Counted(c.user)
        BY <1>1, <1>5 DEF Counted, ActiveSessions, RFC3339
    <3>3. Below(Spared(e)', Spared(c))
        BY <1>5, <3>2 DEF Spared, Below, Counted, ActiveSessions
    <3>4. IsFiniteSet(Spared(c))
        BY <1>2, FinitelyCounted, FS_Subset DEF Spared
    <3> QED
        BY <1>5, <3>1, <3>3, <3>4, SmallerSets
  <2> QED
    BY <1>5, <2>1 DEF EvictionOK, HasRoom
<1>6. CASE e.pc \in {"evict", "revoke", "login"} /\ EvictSession(r)
  <2>1. PICK s \in c.todo : /\ DeleteSession(s.session_id)
                            /\ e = [c EXCEPT !.pc = "revoke", !.todo = c.todo \ {s},
                                             !.victim = s.session_id]
    <3>1. ASSUME VerifyReturns(r, "error") PROVE FALSE
        BY ZenonT(30), <1>1, <1>6, <3>1 DEF VerifyReturns, NewCall, TypeOK, VerifyTypeOK
    <3>2. NextVictims(c.todo, c.device) \subseteq c.todo
        BY DEF NextVictims
    <3> QED
        BY ZenonT(30), <1>1, <1>6, <3>1, <3>2 DEF EvictSession, TypeOK, VerifyTypeOK
  <2>2. /\ e.pc = "revoke" /\ e.user = c.user /\ e.device = c.device /\ e.phone = c.phone
        /\ e.mac = c.mac /\ e.todo = c.todo \ {s}
    BY <1>1, <2>1 DEF VerifyCall
  <2>3. c.pc = "evict" /\ UNCHANGED otp
    BY <1>6 DEF EvictSession
  <2>4. sessions' \subseteq sessions /\ \A t \in sessions' : t.session_id # s.session_id
    BY <2>1 DEF DeleteSession
  <2>5. \A t \in sessions' : t.session_id \in IDs(c.todo) => t.session_id \in IDs(e.todo)
    BY <2>2, <2>4 DEF IDs
  <2> QED
    BY <1>5, <2>2, <2>3, <2>4, <2>5
<1>7. CASE e.pc \in {"evict", "revoke", "login"} /\ RevokeSession(r)
  <2>1. EvictNext(r, c.todo)
    <3>1. ASSUME VerifyReturns(r, "error") PROVE FALSE
        BY ZenonT(30), <1>1, <1>7, <3>1 DEF VerifyReturns, NewCall, TypeOK, VerifyTypeOK
    <3> QED
        BY <1>7, <3>1 DEF RevokeSession
  <2>2. /\ e.user = c.user /\ e.device = c.device /\ e.phone = c.phone /\ e.mac = c.mac
        /\ e.todo = c.todo /\ e.pc = IF c.todo = {} THEN "login" ELSE "evict"
    <3>1. /\ ver'[r].user = c.user /\ ver'[r].device = c.device /\ ver'[r].phone = c.phone
          /\ ver'[r].mac = c.mac /\ ver'[r].todo = c.todo
          /\ ver'[r].pc = IF c.todo = {} THEN "login" ELSE "evict"
        BY <2>1, EvictNextFields
    <3> QED
        BY ZenonT(60), <1>1, <3>1
  <2>3. c.pc = "revoke" /\ UNCHANGED <<otp, sessions>>
    BY <1>7 DEF RevokeSession
  <2> QED
    BY <1>5, <2>2, <2>3
<1> QED
    BY <1>1, <1>3, <1>4, <1>6, <1>7, LoopSteps

-----------------------------------------------------------------------------

\* Items that come from items shown before, or have no user, keep ItemInv.
LEMMA ItemsStay ==
    ASSUME ItemInv, users \subseteq users', IsFiniteSet(sessions'), IsFiniteSet(sessionIndex'),
           \A x \in Verifications : ver[x].pc = "done" => ver'[x].pc = "done",
           \A s \in sessions' \cup sessionIndex' :
              /\ s.session_id \in Verifications
              /\ \/ s.user_id = None /\ ver[s.session_id].pc = "done"
                 \/ \E t \in sessions \cup sessionIndex :
                       /\ t.session_id = s.session_id /\ t.user_id = s.user_id
                       /\ t.device_id = s.device_id
    PROVE  ItemInv'
<1>1. ASSUME NEW s \in sessions' \cup sessionIndex'
      PROVE  /\ s.user_id = None \/ ~UserIDFree(s.user_id)'
             /\ ver'[s.session_id].pc = "done"
    BY DEF ItemInv, UserIDFree
<1>2. ASSUME NEW s \in sessions' \cup sessionIndex', NEW t \in sessions' \cup sessionIndex',
             s.session_id = t.session_id, s.user_id # None, t.user_id # None
      PROVE  s.device_id = t.device_id
  <2>1. PICK x \in sessions \cup sessionIndex :
            x.session_id = s.session_id /\ x.user_id = s.user_id /\ x.device_id = s.device_id
    BY <1>2
  <2>2. PICK y \in sessions \cup sessionIndex :
            y.session_id = t.session_id /\ y.user_id = t.user_id /\ y.device_id = t.device_id
    BY <1>2
  <2> QED
    BY <1>2, <2>1, <2>2 DEF ItemInv
<1> QED
    BY ZenonT(60), <1>1, <1>2 DEF ItemInv

\* A call of VerifyOTP deletes sessions, or adds one with an ID that no item has.
LEMMA VerifyKeepsItems ==
    ASSUME TypeOK, TypeOK', CallInv, UserInv, IssuedInv, ItemInv, NEW r \in Verifications,
           VerifySteps(r), users \subseteq users'
    PROVE  ItemInv'
<1>1. /\ \A s \in sessions \cup sessionIndex : s.session_id \in Verifications
      /\ \A s \in sessions' \cup sessionIndex' : s.session_id \in Verifications
    BY DEF TypeOK, SessionTypeOK, SessionItem
<1>2. IsFiniteSet(sessions) /\ IsFiniteSet(sessionIndex) /\ UNCHANGED sessionIndex
    BY VerifyEffects DEF ItemInv
<1>3. /\ ver[r].pc # "done"
      /\ \A x \in Verifications : ver[x].pc = "done" => ver'[x].pc = "done"
    BY VerifySessions, CommitReturns
<1>4. CASE sessions' \subseteq sessions
  <2>1. IsFiniteSet(sessions')
    BY <1>2, <1>4, FS_Subset
  <2> QED
    BY <1>1, <1>2, <1>3, <1>4, <2>1, ItemsStay
<1>5. CASE VerifyOpens(r)
  <2>1. PICK u : /\ sessions' = sessions \cup {NewSession(r, u, ver[r].device, ver[r].at)}
                 /\ \/ ver[r].pc = "login" /\ u = ver[r].user
                    \/ UserIDFree(u) /\ \E row \in users' : row.user_id = u
    BY <1>5 DEF VerifyOpens
  <2> DEFINE new == NewSession(r, u, ver[r].device, ver[r].at)
  <2>2. new.user_id = u /\ new.session_id = r
    BY ZenonT(30) DEF NewSession
  <2>3. sessions' = sessions \cup {new}
    BY <2>1
  <2> HIDE DEF new
  <2>4. ~UserIDFree(u)'
    <3>1. ver[r].pc = "login" =>
            [user_id |-> ver[r].user, phone_number |-> ver[r].phone] \in users
        BY DEF UserInv, Identified
    <3>2. ver[r].pc = "login" => \E row \in users : row.user_id = ver[r].user
        BY <3>1
    <3> QED
        BY <2>1, <3>2 DEF UserIDFree
  <2>5. ver'[r].pc = "done"
    BY ZenonT(60), <1>5
    DEF VerifyOpens, VerifyCommits, Committed, VerifyReturns, NewCall, TypeOK, VerifyTypeOK
  <2>6. IsFiniteSet(sessions')
    BY <1>2, <2>3, FS_AddElement
  <2>7. \A s \in sessions \cup sessionIndex : s.session_id # r
    BY <1>3 DEF ItemInv
  <2>8. ASSUME NEW s \in sessions' \cup sessionIndex'
        PROVE  /\ s.user_id = None \/ ~UserIDFree(s.user_id)'
               /\ ver'[s.session_id].pc = "done"
    <3>1. CASE s = new
        BY <2>2, <2>4, <2>5, <3>1
    <3>2. CASE s \in sessions \cup sessionIndex
        BY <1>1, <1>3, <3>2 DEF ItemInv, UserIDFree
    <3> QED
        BY <1>2, <2>3, <3>1, <3>2
  <2>9. ASSUME NEW s \in sessions' \cup sessionIndex', NEW t \in sessions' \cup sessionIndex',
               s.session_id = t.session_id, s.user_id # None, t.user_id # None
        PROVE  s.device_id = t.device_id
    BY <1>2, <2>2, <2>3, <2>7, <2>9 DEF ItemInv
  <2> QED
    BY ZenonT(60), <1>2, <2>6, <2>8, <2>9 DEF ItemInv
<1> QED
    BY <1>4, <1>5, VerifySessions

\* The sessions of every user keep the limit and are on different devices.
LimitInv == EvictionInv /\ \A u \in UserIDs : Within(Counted(u))

\* The two limits, user by user.
LEMMA LimitForm ==
    SessionLimit /\ OneSessionPerDevice <=> \A u \in UserIDs : Within(Counted(u))
BY DEF SessionLimit, OneSessionPerDevice, Within

\* Steps that make no session count keep the limit.
LEMMA LimitStays ==
    ASSUME LimitInv, \A u \in UserIDs : Below(Counted(u)', Counted(u))
    PROVE  \A u \in UserIDs : Within(Counted(u)')
<1> SUFFICES ASSUME NEW u \in UserIDs PROVE Within(Counted(u)')
    OBVIOUS
<1>1. IsFiniteSet(Counted(u)) /\ Within(Counted(u))
    BY FinitelyCounted DEF LimitInv, EvictionInv
<1> QED
    BY <1>1, SmallerSets

\* The sessions that a call of VerifyOTP leaves in place on the account it logs in to are
\* all that count there, so that there is room for its own.
LEMMA LoginHasRoom ==
    ASSUME TypeOK, LimitInv, NEW r \in Verifications, NEW u,
           \/ ver[r].pc = "login" /\ u = ver[r].user /\ Spendable(ver[r])
           \/ UserIDFree(u) /\ u # None
    PROVE  HasRoom(Counted(u), ver[r].device)
<1>1. CASE ver[r].pc = "login" /\ u = ver[r].user /\ Spendable(ver[r])
  <2>1. ver[r].todo = {} /\ HasRoom(Spared(ver[r]), ver[r].device)
    BY ZenonT(30), <1>1, EvictionForm DEF LimitInv, EvictionOK
  <2>2. Spared(ver[r]) = Counted(u)
    BY <1>1, <2>1 DEF Spared, IDs
  <2> QED
    BY <2>1, <2>2
<1>2. CASE UserIDFree(u) /\ u # None
  <2>1. Counted(u) = {}
    BY <1>2 DEF LimitInv, EvictionInv, ItemInv, Counted, ActiveSessions
  <2>2. IDs(Counted(u)) = {}
    BY <2>1 DEF IDs
  <2>3. Cardinality(IDs(Counted(u))) = 0
    BY <2>2, FS_EmptySet
  <2>4. Cardinality(IDs(Counted(u))) < MaxSessionsPerUser
    BY <2>3, LimitAssumption
  <2> QED
    BY ZenonT(60), <2>1, <2>4 DEF HasRoom
<1> QED
    BY <1>1, <1>2

\* A call of VerifyOTP keeps the limit.  When it commits, it has room for its session, or
\* its user is new; and the other calls that had room on the same account lose their OTP.
LEMMA VerifyKeepsLimit ==
    ASSUME TypeOK, TypeOK', CallInv, UserInv, LoginInv, IssuedInv, LimitInv, Overlooks,
           NEW r \in Verifications, VerifySteps(r)
    PROVE  LimitInv'
<1>1. PICK e \in VerifyCall : ver' = [ver EXCEPT ![r] = e]
    BY VerifyLocals DEF CallSuccessors
<1>2. /\ EvictionInv /\ ItemInv
      /\ \A x \in Verifications : ver[x] \in VerifyCall /\ EvictionOK(ver[x])
    BY EvictionForm DEF LimitInv, TypeOK, VerifyTypeOK
<1>3. now <= now' /\ users \subseteq users' /\ overlooked \subseteq overlooked'
  <2>1. now <= now'
    BY VerifyEffects DEF TypeOK
  <2>2. users \subseteq users'
    BY ZenonT(60), VerifyStores DEF VerifyOTPAndCreateUser, VerifyOTPAndCreateSession
  <2>3. overlooked \subseteq overlooked'
    BY DEF Overlooks
  <2> QED
    BY <2>1, <2>2, <2>3
<1>4. \A p \in Phones : /\ otp'[p].mac = otp[p].mac
                        /\ otp'[p].status \in {otp[p].status, "verified"}
  <2>1. ASSUME NEW x, MarkVerified(x) \/ IncrementAttempts(x)
        PROVE  \A p \in Phones : /\ otp'[p].mac = otp[p].mac
                                 /\ otp'[p].status \in {otp[p].status, "verified"}
    BY <2>1, OTPUpdateType DEF TypeOK
  <2> QED
    BY ZenonT(60), <2>1, VerifyEffects
<1>5. \A x \in Verifications : ver[x].pc \in {"evict", "revoke", "login"} =>
        /\ ver[x].phone \in Phones /\ ~UserIDFree(ver[x].user)
        /\ [user_id |-> ver[x].user, phone_number |-> ver[x].phone] \in users
    BY DEF UserInv, UserIDFree, CallInv, VerifyCallOK, Identified
<1>6. ASSUME \A x \in Verifications :
               (x # r /\ ver[x].pc \in {"evict", "revoke", "login"} /\ Spendable(ver[x])')
                 => \A s \in sessions' \ sessions : s.user_id # ver[x].user,
             \A u \in UserIDs : Within(Counted(u)')
      PROVE  LimitInv'
  <2>1. ASSUME NEW x \in Verifications PROVE EvictionOK(ver[x])'
    <3>1. CASE x = r
      <4>1. EvictionOK(e)' /\ ver'[r] = e
        BY ZenonT(30), <1>1, <1>2, LoopKeepsRoom DEF TypeOK, VerifyTypeOK
      <4> QED
        BY ZenonT(60), <3>1, <4>1
        DEF EvictionOK, Spendable, Spared, Counted, ActiveSessions
    <3>2. CASE x # r
      <4>1. PICK c \in VerifyCall : c = ver[x]
        BY <1>2
      <4>2. ver'[x] = c
        BY <1>1, <3>2, <4>1 DEF TypeOK, VerifyTypeOK
      <4>3. ASSUME c.pc \in {"evict", "revoke", "login"}, Spendable(c)'
            PROVE  Spendable(c) /\ Below(Counted(c.user)', Counted(c.user))
        <5>1. Spendable(c)
            BY ZenonT(30), <1>4, <1>5, <4>1, <4>3 DEF Spendable
        <5>2. Spendable(ver[x])'
            BY <4>2, <4>3 DEF Spendable
        <5>3. \A s \in sessions' \ sessions : s.user_id # c.user
            BY <1>6, <3>2, <4>1, <4>3, <5>2
        <5>4. Counted(c.user)' \subseteq Counted(c.user)
            BY ZenonT(60), <1>3, <5>3, CountedShrinks
        <5> QED
            BY <5>1, <5>4 DEF Below
      <4>4. EvictionOK(c)'
        BY <1>2, <4>1, <4>3, EvictionStays
      <4> QED
        BY <4>2, <4>4 DEF EvictionOK, Spendable, Spared, Counted, ActiveSessions
    <3> QED
        BY <3>1, <3>2
  <2>2. ItemInv'
    BY <1>2, <1>3, VerifyKeepsItems
  <2> QED
    BY ZenonT(30), <1>6, <2>1, <2>2
    DEF LimitInv, EvictionInv, EvictionOK, HasRoom, Within
<1>7. CASE sessions' \subseteq sessions
  <2>1. \A u \in UserIDs : Within(Counted(u)')
    BY <1>3, <1>7, NothingWritten, LimitStays
  <2> QED
    BY <1>6, <1>7, <2>1
<1>8. CASE VerifyOpens(r)
  <2>1. PICK u : /\ sessions' = sessions \cup {NewSession(r, u, ver[r].device, ver[r].at)}
                 /\ \/ ver[r].pc = "login" /\ u = ver[r].user
                    \/ UserIDFree(u) /\ \E row \in users' : row.user_id = u
    BY <1>8 DEF VerifyOpens
  <2> DEFINE new == NewSession(r, u, ver[r].device, ver[r].at)
  <2>2. new.user_id = u /\ new.device_id = ver[r].device
    BY ZenonT(30) DEF NewSession
  <2>3. sessions' = sessions \cup {new}
    BY <2>1
  <2> HIDE DEF new
  <2>4. Spendable(ver[r]) /\ otp'[ver[r].phone].status = "verified" /\ ver[r].phone \in Phones
    <3>1. /\ ver[r].pc \in {"register", "login"} /\ MarkVerified(ver[r].phone)
          /\ OTPVerifyCond(ver[r].phone, ver[r].mac, ver[r].exp)
        BY <1>8 DEF VerifyOpens, VerifyCommits
    <3>2. ver[r].phone \in Phones
        BY <3>1 DEF CallInv, VerifyCallOK
    <3>3. otp'[ver[r].phone].status = "verified"
        BY <3>1, <3>2 DEF MarkVerified, TypeOK, OTPTypeOK, OTPItem
    <3> QED
        BY <3>1, <3>2, <3>3 DEF OTPVerifyCond, Spendable
  <2>5. HasRoom(Counted(u), ver[r].device)
    <3>1. UserIDFree(u) /\ (\E row \in users' : row.user_id = u) => u # None
        BY UserIDAssumption DEF TypeOK, UserTypeOK, UserRow
    <3> QED
        BY <2>1, <2>4, <3>1, LoginHasRoom
  <2>6. ASSUME NEW v \in UserIDs PROVE Within(Counted(v)')
    <3>1. IsFiniteSet(Counted(v)) /\ Within(Counted(v))
        BY <1>2, FinitelyCounted DEF LimitInv
    <3>2. Counted(v)' \subseteq Counted(v) \cup {new}
        BY <1>3, <2>3, CountedShrinks
    <3>3. v # u => Counted(v)' \subseteq Counted(v)
        BY <1>3, <2>2, <2>3, CountedShrinks
    <3>4. CASE v = u
      <4>1. Within(Counted(v) \cup {new})
        BY <2>2, <2>5, <3>1, <3>4, RoomForOne
      <4>2. IsFiniteSet(Counted(v) \cup {new})
        BY <3>1, FS_AddElement
      <4>3. Below(Counted(v)', Counted(v) \cup {new})
        BY <3>2 DEF Below
      <4> QED
        BY <4>1, <4>2, <4>3, SmallerSets
    <3>5. CASE v # u
      <4>1. Below(Counted(v)', Counted(v))
        BY <3>3, <3>5 DEF Below
      <4> QED
        BY <3>1, <4>1, SmallerSets
    <3> QED
        BY <3>4, <3>5
  <2>7. ASSUME NEW x \in Verifications, x # r, ver[x].pc \in {"evict", "revoke", "login"},
               Spendable(ver[x])', NEW s \in sessions' \ sessions
        PROVE  s.user_id # ver[x].user
    <3>1. ver'[x] = ver[x]
        BY <1>1, <2>7 DEF TypeOK, VerifyTypeOK
    <3>2. ver[x].phone # ver[r].phone
        BY ZenonT(60), <2>4, <2>7, <3>1 DEF Spendable
    <3>3. s.user_id = u
        BY <2>2, <2>3, <2>7
    <3>4. CASE UserIDFree(u)
        BY ZenonT(30), <1>5, <2>7, <3>3, <3>4
    <3>5. CASE ver[r].pc = "login" /\ u = ver[r].user
      <4>1. /\ [user_id |-> ver[x].user, phone_number |-> ver[x].phone] \in users
            /\ [user_id |-> ver[r].user, phone_number |-> ver[r].phone] \in users
        BY <1>5, <2>7, <3>5
      <4>2. \A a, b \in users : a.user_id = b.user_id => a = b
        BY DEF LoginInv
      <4> QED
        BY <3>2, <3>3, <3>5, <4>1, <4>2
    <3> QED
        BY <2>1, <3>4, <3>5
  <2> QED
    BY <1>6, <2>6, <2>7
<1> QED
    BY <1>7, <1>8, VerifySessions

-----------------------------------------------------------------------------

\* The index only ever shows what it or the table showed.
LEMMA IndexFollows ==
    ASSUME \/ TimePasses \/ TableMaintenance \/ UNCHANGED vars
           \/ \E q \in OTPRequests : RequestSteps(q)
           \/ \E f \in Refreshes : RefreshSteps(f)
           \/ \E l \in Logouts : LogoutSteps(l)
    PROVE  sessionIndex' \subseteq sessions \cup sessionIndex
<1>1. CASE TimePasses \/ UNCHANGED vars
    BY <1>1 DEF TimePasses, tableVars, sessionVars, vars
<1>2. CASE TableMaintenance
  <2>1. UNCHANGED sessionIndex \/ PropagateSession
    BY ZenonT(60), <1>2 DEF TableMaintenance, ExpireSessionItem, sessionVars
  <2> QED
    BY <2>1 DEF PropagateSession
<1>3. ASSUME NEW q \in OTPRequests, RequestSteps(q) PROVE UNCHANGED sessionIndex
    BY <1>3 DEF RequestSteps, sessionVars
<1>4. ASSUME NEW f \in Refreshes, RefreshSteps(f) PROVE UNCHANGED sessionIndex
    BY ZenonT(60), <1>4
    DEF RefreshSteps, RefreshStep, RefreshArrives, CheckSession, RotateToken, DeleteReused,
        RevokeReused, tableVars, sessionVars
<1>5. ASSUME NEW l \in Logouts, LogoutSteps(l) PROVE UNCHANGED sessionIndex
    BY ZenonT(60), <1>5
    DEF LogoutSteps, LogoutStep, LogoutArrives, LogoutDeletes, LogoutRevokes, tableVars,
        sessionVars
<1> QED
    BY <1>1, <1>2, <1>3, <1>4, <1>5

\* Steps that touch no call of VerifyOTP, make no session count and restore no OTP keep
\* the limit.
LEMMA OthersKeepLimit ==
    ASSUME TypeOK, CallInv, LimitInv, ItemInv', UNCHANGED ver,
           \A u \in UserIDs : Below(Counted(u)', Counted(u)),
           \A x \in Verifications : Spendable(ver[x])' =>
                Spendable(ver[x]) \/ ver[x].pc \notin {"evict", "revoke", "login"}
    PROVE  LimitInv'
<1>1. ItemInv /\ \A x \in Verifications : ver[x] \in VerifyCall /\ EvictionOK(ver[x])
    BY EvictionForm DEF LimitInv, TypeOK, VerifyTypeOK
<1>2. ASSUME NEW x \in Verifications PROVE EvictionOK(ver[x])'
  <2>1. PICK c \in VerifyCall : c = ver[x]
    BY <1>1
  <2>2. ver'[x] = c /\ EvictionOK(c)
    BY <1>1, <2>1
  <2>3. (c.pc \in {"evict", "revoke", "login"} /\ Spendable(c)') => Spendable(c)
    BY <2>1, <2>2 DEF Spendable
  <2>4. c.pc \in {"evict", "revoke", "login"} => Below(Counted(c.user)', Counted(c.user))
    <3>1. c.pc \in {"evict", "revoke", "login"} => c.user \in UserIDs
        BY <2>1 DEF CallInv, VerifyCallOK, Identified
    <3> QED
        BY ZenonT(60), <3>1
  <2>5. EvictionOK(c)'
    BY ZenonT(60), <1>1, <2>2, <2>3, <2>4, EvictionStays
  <2> QED
    BY ZenonT(30), <2>2, <2>5 DEF EvictionOK, Spendable, Spared, Counted, ActiveSessions
<1>3. \A u \in UserIDs : Within(Counted(u)')
    BY ZenonT(60), LimitStays
<1> QED
    BY ZenonT(30), <1>2, <1>3 DEF LimitInv, EvictionInv, EvictionOK, HasRoom, Within

\* The same for steps that write no session at all.
LEMMA DeletionsKeepLimit ==
    ASSUME TypeOK, TypeOK', CallInv, LimitInv, overlooked \subseteq overlooked',
           UNCHANGED <<ver, users>>, now <= now', sessions' \subseteq sessions,
           sessionIndex' \subseteq sessions \cup sessionIndex,
           \A x \in Verifications : Spendable(ver[x])' =>
                Spendable(ver[x]) \/ ver[x].pc \notin {"evict", "revoke", "login"}
    PROVE  LimitInv'
<1>1. ItemInv'
  <2>1. ItemInv /\ IsFiniteSet(sessions) /\ IsFiniteSet(sessionIndex)
    BY DEF LimitInv, EvictionInv, ItemInv
  <2>2. IsFiniteSet(sessions \cup sessionIndex)
    BY <2>1, FS_Union
  <2>3. IsFiniteSet(sessions') /\ IsFiniteSet(sessionIndex')
    BY <2>1, <2>2, FS_Subset
  <2>4. \A s \in sessions' \cup sessionIndex' : s.session_id \in Verifications
    BY DEF TypeOK, SessionTypeOK, SessionItem
  <2> QED
    BY <2>1, <2>3, <2>4, ItemsStay
<1>2. \A u \in UserIDs : Below(Counted(u)', Counted(u))
    BY ZenonT(60), NothingWritten
<1> QED
    BY <1>1, <1>2, OthersKeepLimit

\* RequestOTP never puts an OTP whose code somebody already presents.
LEMMA RequestKeepsLimit ==
    ASSUME TypeOK, TypeOK', CallInv, OTPInv, LimitInv, Overlooks, NEW q \in OTPRequests,
           RequestSteps(q)
    PROVE  LimitInv'
<1>1. UNCHANGED <<ver, sessions, users, sessionIndex>> /\ now <= now'
  <2>1. UNCHANGED now /\ UNCHANGED ver
    BY RequestLife
  <2>2. UNCHANGED sessions /\ UNCHANGED users /\ UNCHANGED sessionIndex
    BY DEF RequestSteps, sessionVars, userVars
  <2>3. now \in Nat
    BY DEF TypeOK
  <2> QED
    BY <2>1, <2>2, <2>3
<1>2. ASSUME NEW x \in Verifications, Spendable(ver[x])',
             ver[x].pc \in {"evict", "revoke", "login"}
      PROVE  Spendable(ver[x])
  <2>1. ver[x].mac \in OTPRequests /\ ver[x].mac \in CodesDelivered /\ ver[x].phone \in Phones
    <3>1. ver[x].pc \in Matched /\ ver[x].pc \notin {"idle", "done"}
        BY <1>2 DEF Matched
    <3>2. VerifyCallOK(ver[x])
        BY DEF CallInv
    <3>3. ver[x].mac \in OTPRequests /\ ver[x].mac = ver[x].code /\ ver[x].phone \in Phones
        BY <3>1, <3>2 DEF VerifyCallOK
    <3> QED
        BY ZenonT(60), <3>3, IdentityAssumption DEF OTPInv
  <2>2. req[ver[x].mac].pc = "done"
    BY <2>1 DEF CodesDelivered, OTPInv
  <2>3. CASE UNCHANGED otp
    BY <1>1, <1>2, <2>3 DEF Spendable
  <2>4. ASSUME req[q].pc = "create", NEW t, PutOTP(req[q].phone, q, t)
        PROVE  Spendable(ver[x])
    <3>1. q # ver[x].mac
        BY <2>2, <2>4
    <3>2. \/ otp'[ver[x].phone] = otp[ver[x].phone]
          \/ otp'[ver[x].phone].mac = q
        BY ZenonT(60), <2>1, <2>4 DEF PutOTP, TypeOK, OTPTypeOK
    <3> QED
        BY <1>1, <1>2, <3>1, <3>2 DEF Spendable
  <2> QED
    BY ZenonT(30), <2>3, <2>4, RequestLife
<1> QED
    BY <1>1, <1>2, DeletionsKeepLimit DEF Overlooks

\* A refresh deletes the session, or writes it with the same user and device, or with no
\* user when it was deleted since it was read.
LEMMA RefreshKeepsLimit ==
    ASSUME TypeOK, TypeOK', CallInv, SessionInv, LimitInv, Overlooks, NEW f \in Refreshes,
           RefreshSteps(f)
    PROVE  LimitInv'
<1>1. IssuedInv /\ RotationInv /\ ItemInv
    BY DEF SessionInv, LimitInv, EvictionInv
<1>2. /\ UNCHANGED <<now, ver, otp, users>> /\ now <= now'
      /\ sessions' \subseteq sessions \/ (ref[f].pc = "update" /\ Rotation(f))
    BY <1>1, RefreshMoves, OtherSteps
<1>3. sessionIndex' \subseteq sessions \cup sessionIndex
    BY IndexFollows
<1>4. \A x \in Verifications : Spendable(ver[x])' => Spendable(ver[x])
    BY <1>2 DEF Spendable
<1>5. CASE sessions' \subseteq sessions
    BY <1>2, <1>3, <1>4, <1>5, DeletionsKeepLimit DEF Overlooks
<1>6. CASE ref[f].pc = "update" /\ Rotation(f)
  <2>1. /\ \A s \in sessions' :
              \/ s \in sessions
              \/ s.session_id = ref[f].sid /\ s.user_id = None
              \/ \E t \in GetByID(ref[f].sid) :
                    /\ s.session_id = ref[f].sid /\ s.user_id = t.user_id
                    /\ s.device_id = t.device_id
        /\ IsFiniteSet(sessions) => IsFiniteSet(sessions')
    BY <1>6, RotatedItems DEF Rotation
  <2>2. ref[f].sid \in Verifications /\ ver[ref[f].sid].pc = "done"
    BY <1>1, <1>6, IdentityAssumption
    DEF CallInv, RefreshCallOK, RotationInv, IssuedInv
  <2>3. IsFiniteSet(sessions') /\ IsFiniteSet(sessionIndex')
    <3>1. IsFiniteSet(sessions) /\ IsFiniteSet(sessionIndex)
        BY <1>1 DEF ItemInv
    <3>2. IsFiniteSet(sessions \cup sessionIndex)
        BY <3>1, FS_Union
    <3> QED
        BY <1>3, <2>1, <3>1, <3>2, FS_Subset
  <2>4. ASSUME NEW s \in sessions' \cup sessionIndex'
        PROVE  /\ s.session_id \in Verifications
               /\ \/ s.user_id = None /\ ver[s.session_id].pc = "done"
                  \/ \E t \in sessions \cup sessionIndex :
                        /\ t.session_id = s.session_id /\ t.user_id = s.user_id
                        /\ t.device_id = s.device_id
    <3>1. s.session_id \in Verifications
        BY DEF TypeOK, SessionTypeOK, SessionItem
    <3> QED
        BY <1>3, <2>1, <2>2, <3>1 DEF GetByID
  <2>5. ItemInv'
    BY <1>1, <1>2, <2>3, <2>4, ItemsStay
  <2>6. \A u \in UserIDs : Below(Counted(u)', Counted(u))
    BY <1>2, <1>6, RotationBelow
  <2> QED
    BY <1>2, <1>4, <2>5, <2>6, OthersKeepLimit
<1> QED
    BY <1>2, <1>5, <1>6

\* No step of any call breaks the limits, or EvictionInv, which they rest on.
LEMMA LimitStep ==
    TypeOK /\ TypeOK' /\ CallInv /\ OTPInv /\ UserInv /\ LoginInv /\ SessionInv
        /\ LimitInv /\ [CountNext]_countVars => LimitInv'
<1> SUFFICES ASSUME TypeOK, TypeOK', CallInv, OTPInv, UserInv, LoginInv, SessionInv, LimitInv,
                    [CountNext]_countVars
             PROVE  LimitInv'
    OBVIOUS
<1>1. IssuedInv /\ RotationInv /\ RevocationInv
    BY DEF SessionInv
<1>2. (Next /\ Overlooks) \/ (UNCHANGED vars /\ UNCHANGED overlooked)
    BY DEF CountNext, countVars, Overlooks
<1>3. overlooked \subseteq overlooked'
    BY <1>2 DEF Overlooks
<1>4. ASSUME NEW r \in Verifications, VerifySteps(r), Overlooks PROVE LimitInv'
    BY ZenonT(30), <1>1, <1>4, VerifyKeepsLimit
<1>5. ASSUME NEW q \in OTPRequests, RequestSteps(q), Overlooks PROVE LimitInv'
    BY <1>5, RequestKeepsLimit
<1>6. ASSUME NEW f \in Refreshes, RefreshSteps(f), Overlooks PROVE LimitInv'
    BY <1>6, RefreshKeepsLimit
<1>7. CASE \/ TimePasses \/ TableMaintenance \/ UNCHANGED vars
           \/ \E l \in Logouts : LogoutSteps(l)
  <2>1. UNCHANGED <<ver, users>> /\ now <= now'
    BY <1>7, OtherSteps
  <2>2. sessions' \subseteq sessions
    BY ZenonT(30), <1>1, <1>7, OthersMove, LogoutMoves
  <2>3. \A p \in Phones : otp'[p] = otp[p] \/ otp'[p] = AbsentOTP
    BY <1>7, OtherSteps
  <2>4. \A x \in Verifications : Spendable(ver[x])' =>
            Spendable(ver[x]) \/ ver[x].pc \notin {"evict", "revoke", "login"}
    <3>1. \A x \in Verifications : ver[x].pc \in {"evict", "revoke", "login"} =>
            ver[x].phone \in Phones
        BY DEF CallInv, VerifyCallOK
    <3>2. AbsentOTP.status = "absent"
        BY DEF AbsentOTP
    <3> QED
        BY ZenonT(30), <2>1, <2>3, <3>1, <3>2 DEF Spendable
  <2>5. sessionIndex' \subseteq sessions \cup sessionIndex
    BY <1>7, IndexFollows
  <2> QED
    BY <1>3, <2>1, <2>2, <2>4, <2>5, DeletionsKeepLimit
<1> QED
    BY ZenonT(30), <1>2, <1>4, <1>5, <1>6, <1>7 DEF Next, Terminating

\* The service starts without sessions.
LEMMA LimitInit == CountInit => LimitInv
<1> SUFFICES ASSUME CountInit PROVE LimitInv
    OBVIOUS
<1>1. /\ sessions = {} /\ sessionIndex = {}
      /\ \A r \in Verifications : ver[r].pc = "idle"
    BY DEF CountInit, Init, SessionInit, VerifyInit, NewCall
<1>2. \A u \in UserIDs : Counted(u) = {} /\ IDs(Counted(u)) = {}
    BY <1>1 DEF Counted, ActiveSessions, IDs
<1>3. \A u \in UserIDs : Within(Counted(u))
    BY <1>2, FS_EmptySet, LimitAssumption DEF Within
<1>4. ItemInv
    BY <1>1, FS_EmptySet DEF ItemInv
<1>5. EvictionInv
    BY ZenonT(60), <1>1, <1>4 DEF EvictionInv
<1> QED
    BY <1>3, <1>5 DEF LimitInv

\* The history of the overlooked sessions does not change what the service does.
LEMMA CountIsService == CountSpec => Spec
<1>1. CountInit => Init
    BY DEF CountInit
<1>2. [CountNext]_countVars => [Next]_vars
    BY DEF CountNext, countVars
<1> QED
    BY <1>1, <1>2, PTL DEF CountSpec, Spec

\* EvictionInv and the two limits are an invariant together.
LEMMA LimitInvariant == CountSpec => []LimitInv
<1>1. IInv => TypeOK /\ CallInv /\ OTPInv /\ UserInv
    BY DEF IInv
<1> QED
    BY <1>1, CountIsService, InductiveInvariant, LoginInvariant, SessionInvariant, LimitInit,
        LimitStep, PTL DEF CountSpec

\* What a call of VerifyOTP spares of the sessions on its list leaves room for its own for
\* as long as its OTP can be spent, whatever logins, refreshes and logouts interleave,
\* whatever fails and however late the index is.
THEOREM EvictionMakesRoom == CountSpec => []EvictionInv
<1>1. LimitInv => EvictionInv
    BY DEF LimitInv
<1> QED
    BY <1>1, LimitInvariant, PTL

\* concurrent_session_bounded: apart from sessions that the index did not show to a login,
\* and sessions that a refresh extended after they had expired, no user ever has more than
\* MaxSessionsPerUser active sessions, although the limit is enforced in another step than
\* the one that adds a session, for any number of calls and whatever fails.
THEOREM SessionsBounded == CountSpec => []SessionLimit
<1>1. LimitInv => SessionLimit
    BY LimitForm DEF LimitInv
<1> QED
    BY <1>1, LimitInvariant, PTL

\* evictConflictingSessions: apart from the same sessions, a user has at most one active
\* session per device.
THEOREM DeviceHasOneSession == CountSpec => []OneSessionPerDevice
<1>1. LimitInv => OneSessionPerDevice
    BY LimitForm DEF LimitInv
<1> QED
    BY <1>1, LimitInvariant, PTL
=============================================================================
