--------------------------- MODULE AuthOTPProofs ---------------------------
(***************************************************************************)
(* The life of an OTP, for all values of the constants: an OTP that would  *)
(* still be accepted is kept and every wrong guess at it is counted.  And  *)
(* the answers: the three error tables agree on every error, and the       *)
(* status of a call says what became of it.                                *)
(***************************************************************************)
EXTENDS AuthHandler, AuthAccountProofs, FiniteSetTheorems

\* How the set of calls about to count an attempt changes when call r moves.
LEMMA CountingMoves ==
    ASSUME TypeOK, NEW r \in Verifications, NEW e, ver' = [ver EXCEPT ![r] = e], NEW p
    PROVE  Counting(p)' = IF e.pc = "increment" /\ e.phone = p
                            THEN Counting(p) \cup {r} ELSE Counting(p) \ {r}
<1>1. ver'[r] = e /\ \A x \in Verifications : x # r => ver'[x] = ver[x]
    BY DEF TypeOK, VerifyTypeOK
<1> QED
    BY <1>1 DEF Counting

\* A step of VerifyOTP keeps OTPLifeInv.
LEMMA VerifyLife ==
    ASSUME TypeOK, CallInv, OTPLifeInv, NEW r \in Verifications, VerifySteps(r)
    PROVE  OTPLifeInv'
<1>1. UNCHANGED <<now, req>>
    BY VerifyEffects
<1>2. PICK e : ver' = [ver EXCEPT ![r] = e]
    BY VerifyLocals
<1>3. \A p \in Phones : IsFiniteSet(Counting(p))'
  <2> SUFFICES ASSUME NEW p \in Phones PROVE IsFiniteSet(Counting(p)')
    OBVIOUS
  <2>1. IsFiniteSet(Counting(p) \cup {r}) /\ IsFiniteSet(Counting(p) \ {r})
    BY FS_AddElement, FS_RemoveElement DEF OTPLifeInv
  <2>2. Counting(p)' = Counting(p) \cup {r} \/ Counting(p)' = Counting(p) \ {r}
    BY <1>2, CountingMoves DEF Counting
  <2> QED
    BY <2>1, <2>2
<1>4. \A p \in Phones : otp'[p].mac = otp[p].mac
  <2>1. CASE UNCHANGED otp
    BY <2>1
  <2>2. ASSUME NEW p, MarkVerified(p) \/ IncrementAttempts(p)
        PROVE  \A x \in Phones : otp'[x].mac = otp[x].mac
    BY <2>2, OTPUpdateType DEF TypeOK
  <2> QED
    BY <2>1, <2>2, VerifyEffects
<1>5. ASSUME "dynamo" \notin Faults, NEW q \in OTPRequests, req[q].pc # "done"
      PROVE  guesses'[q] = guesses[q]
  <2>1. CASE VerifyGuesses(r)
    <3> DEFINE m == otp[ver[r].phone].mac
    <3>1. m \in OTPRequests /\ m # None
        BY <2>1, IdentityAssumption DEF VerifyGuesses, CallInv
    <3>2. q # m
        BY <1>5, <2>1, <3>1 DEF VerifyGuesses, OTPLifeInv
    <3> QED
        BY <2>1, <3>2 DEF VerifyGuesses, TypeOK, HistoryTypeOK
  <2> QED
    BY <2>1, VerifyMoves DEF VerifyMovesOn, CountAttempt, VerifyCommits, historyVars
<1> QED
    BY <1>1, <1>3, <1>4, <1>5 DEF OTPLifeInv

\* Every wrong code stays counted, whatever step VerifyOTP takes.
LEMMA VerifyCounts ==
    ASSUME TypeOK, CallInv, OTPInv, OTPLifeInv, EveryGuessCounted,
           NEW r \in Verifications, VerifySteps(r)
    PROVE  EveryGuessCounted'
<1> SUFFICES ASSUME "dynamo" \notin Faults, NEW p \in Phones, otp'[p].status = "pending"
             PROVE  guesses'[otp'[p].mac] <= otp'[p].attempt_count + Cardinality(Counting(p)')
    BY DEF EveryGuessCounted
<1> DEFINE n == Cardinality(Counting(p))
           m == otp[p].mac
<1>1. IsFiniteSet(Counting(p)) /\ n \in Nat
    BY FS_CardinalityType DEF OTPLifeInv
<1>2. otp[p] \in OTPItem /\ otp \in [Phones -> OTPItem] /\ otp[p].attempt_count \in Nat
    BY DEF TypeOK, OTPTypeOK, OTPItem
<1>3. otp[p].status = "pending" =>
        m \in OTPRequests /\ guesses[m] \in Nat /\ guesses[m] <= otp[p].attempt_count + n
    BY DEF EveryGuessCounted, TypeOK, HistoryTypeOK, CallInv
<1>4. CASE VerifyMovesOn(r)
  <2>1. PICK e \in Onward(ver[r]) \cup Ended : ver' = [ver EXCEPT ![r] = e]
    BY ZenonT(60), <1>4 DEF VerifyMovesOn
  <2>2. e.pc # "increment" /\ r \notin Counting(p)
    BY <1>4, <2>1 DEF Onward, Ended, VerifyMovesOn, Counting
  <2>3. Counting(p)' = Counting(p)
    BY <2>1, <2>2, CountingMoves DEF Counting
  <2> QED
    BY <1>3, <1>4, <2>3 DEF VerifyMovesOn
<1>5. CASE VerifyGuesses(r)
  <2> DEFINE e == [ver[r] EXCEPT !.pc = "increment"]
  <2>1. ver' = [ver EXCEPT ![r] = e] /\ e.pc = "increment" /\ e.phone = ver[r].phone
    BY <1>5 DEF VerifyGuesses, TypeOK, VerifyTypeOK, VerifyCall
  <2> HIDE DEF e
  <2>2. r \notin Counting(p) /\ UNCHANGED otp
    BY <1>5 DEF VerifyGuesses, Counting
  <2>3. CASE p = ver[r].phone
    <3>1. Cardinality(Counting(p)') = n + 1
      <4>1. Counting(p)' = Counting(p) \cup {r}
        <5>1. e.pc = "increment" /\ e.phone = p
            BY <2>1, <2>3
        <5> QED
            BY <2>1, <5>1 DEF Counting, TypeOK, VerifyTypeOK
      <4>2. Cardinality(Counting(p) \cup {r}) = n + 1
        BY ZenonT(60), <1>1, <2>2, FS_AddElement
      <4> QED
        BY <4>1, <4>2
    <3>2. guesses'[m] = guesses[m] + 1
        BY ZenonT(60), <1>3, <1>5, <2>3 DEF VerifyGuesses, TypeOK, HistoryTypeOK
    <3> QED
        BY <1>1, <1>2, <1>3, <2>2, <3>1, <3>2
  <2>4. CASE p # ver[r].phone
    <3>1. Counting(p)' = Counting(p)
        BY <2>1, <2>2, <2>4, CountingMoves DEF Counting
    <3>2. m # otp[ver[r].phone].mac
      <4>1. m # None /\ ver[r].phone \in Phones
        BY <1>3, <1>5, <2>2, IdentityAssumption DEF VerifyGuesses
      <4>2. \A x \in Phones : otp[x].mac # None => req[otp[x].mac].phone = x
        BY ZenonT(60) DEF OTPInv
      <4> QED
        BY <2>4, <4>1, <4>2
    <3>3. guesses'[m] = guesses[m]
        BY <1>3, <1>5, <2>2, <3>2 DEF VerifyGuesses, TypeOK, HistoryTypeOK
    <3> QED
        BY <1>3, <2>2, <3>1, <3>3
  <2> QED
    BY <2>3, <2>4
<1>6. CASE CountAttempt(r)
  <2> DEFINE e == [NewCall EXCEPT !.pc = "done", !.result = "ErrInvalidOTP"]
  <2>1. /\ ver' = [ver EXCEPT ![r] = e] /\ e.pc = "done"
        /\ IncrementAttempts(ver[r].phone) /\ UNCHANGED guesses
    BY <1>6 DEF CountAttempt, VerifyReturns, RepeatVerify, ReplyLost, NewCall, historyVars
  <2> HIDE DEF e
  <2>2. /\ otp[p].status = "pending" /\ otp'[p].mac = m
        /\ otp'[p].attempt_count = otp[p].attempt_count + (IF p = ver[r].phone THEN 1 ELSE 0)
    <3>1. \/ otp' = otp /\ otp[ver[r].phone].status = "absent"
          \/ otp' = [otp EXCEPT ![ver[r].phone].attempt_count = @ + 1]
        BY <2>1 DEF IncrementAttempts
    <3>2. \/ otp'[p] = otp[p] /\ (p = ver[r].phone => otp[p].status = "absent")
          \/ p = ver[r].phone /\ otp'[p] = [otp[p] EXCEPT !.attempt_count = @ + 1]
        BY <1>2, <3>1
    <3>3. CASE otp'[p] = otp[p] /\ (p = ver[r].phone => otp[p].status = "absent")
        BY <1>2, <3>3
    <3>4. CASE p = ver[r].phone /\ otp'[p] = [otp[p] EXCEPT !.attempt_count = @ + 1]
        BY <1>2, <3>4 DEF OTPItem
    <3> QED
        BY <3>2, <3>3, <3>4
  <2>3. CASE p = ver[r].phone
    <3>1. r \in Counting(p)
        BY <1>6, <2>3 DEF CountAttempt, Counting
    <3>2. Cardinality(Counting(p)') = n - 1
      <4>1. Counting(p)' = Counting(p) \ {r}
        BY ZenonT(60), <2>1, CountingMoves DEF Counting
      <4>2. Cardinality(Counting(p) \ {r}) = n - 1
        BY ZenonT(60), <1>1, <3>1, FS_RemoveElement
      <4> QED
        BY <4>1, <4>2
    <3>3. otp'[p].attempt_count = otp[p].attempt_count + 1
        BY <2>2, <2>3
    <3>4. guesses'[otp'[p].mac] = guesses[m]
        BY <2>1, <2>2
    <3>5. \A g, a, k \in Nat : g <= a + k => g <= (a + 1) + (k - 1)
        OBVIOUS
    <3> HIDE DEF n, m
    <3> QED
        BY ZenonT(60), <1>1, <1>2, <1>3, <2>2, <3>2, <3>3, <3>4, <3>5
  <2>4. CASE p # ver[r].phone
    <3>1. Counting(p)' = Counting(p)
        BY <2>1, <2>4, CountingMoves DEF Counting
    <3> QED
        BY <1>1, <1>2, <1>3, <2>1, <2>2, <2>4, <3>1
  <2> QED
    BY <2>3, <2>4
<1>7. CASE VerifyCommits(r)
  <2>1. otp'[p] = otp[p] /\ UNCHANGED guesses
    BY <1>2, <1>7 DEF VerifyCommits, MarkVerified, OTPItem
  <2>2. ver'[r].pc = "done" /\ r \notin Counting(p)
    BY ZenonT(60), <1>7
    DEF VerifyCommits, Committed, VerifyReturns, NewCall, TypeOK, VerifyTypeOK, Counting
  <2>3. PICK e : ver' = [ver EXCEPT ![r] = e]
    BY VerifyLocals
  <2>4. e.pc = "done"
    BY <2>2, <2>3 DEF TypeOK, VerifyTypeOK
  <2>5. Counting(p)' = Counting(p)
    BY <2>2, <2>3, <2>4, CountingMoves DEF Counting
  <2> QED
    BY <1>3, <2>1, <2>5
<1> QED
    BY <1>4, <1>5, <1>6, <1>7, VerifyMoves

\* What both invariants say of a state, as long as the calls of VerifyOTP stay.
LEMMA CallsStay ==
    ASSUME OTPLifeInv, UNCHANGED <<ver, guesses>>
    PROVE  /\ \A p \in Phones : IsFiniteSet(Counting(p)')
           /\ \A p \in Phones : Cardinality(Counting(p)') = Cardinality(Counting(p))
           /\ \A p \in Phones : Cardinality(Counting(p)) \in Nat
<1>1. \A p \in Phones : Counting(p)' = Counting(p)
    BY DEF Counting
<1> QED
    BY <1>1, FS_CardinalityType DEF OTPLifeInv

\* A step of RequestOTP keeps both: nobody has guessed at the OTP it writes.
LEMMA RequestKeepsLife ==
    ASSUME TypeOK, OTPInv, OTPLifeInv, EveryGuessCounted, NEW q \in OTPRequests, RequestSteps(q)
    PROVE  OTPLifeInv' /\ EveryGuessCounted'
<1>1. UNCHANGED <<now, ver, guesses>>
    BY RequestLife
<1>2. \A x \in OTPRequests : x # q => req'[x] = req[x]
    BY RequestEffects DEF TypeOK, RequestTypeOK
<1>3. \A x \in OTPRequests : req'[x].at <= now'
  <2>1. req[q].at <= now /\ now <= now
    BY DEF OTPLifeInv, TypeOK
  <2> QED
    BY <1>1, <1>2, <2>1, RequestLife DEF OTPLifeInv
<1>4. \A x \in OTPRequests : req'[x].pc # "done" => req[x].pc # "done"
    BY <1>2, RequestLife
<1>5. \A p \in Phones : otp[p].mac \in OTPRequests \cup {None}
    BY DEF TypeOK, OTPTypeOK, OTPItem
<1>6. CASE UNCHANGED otp
  <2>1. "dynamo" \notin Faults =>
            \A p \in Phones : otp'[p].mac # None => req'[otp'[p].mac].pc = "done"
    BY <1>4, <1>5, <1>6 DEF OTPLifeInv
  <2>2. OTPLifeInv'
    BY <1>1, <1>3, <1>4, <2>1, CallsStay DEF OTPLifeInv
  <2>3. EveryGuessCounted'
    BY <1>1, <1>6, CallsStay DEF EveryGuessCounted
  <2> QED
    BY <2>2, <2>3
<1>7. ASSUME req[q].pc = "create", "dynamo" \in Faults \/ req'[q].pc = "done",
             NEW e, PutOTP(req[q].phone, q, e)
      PROVE  OTPLifeInv' /\ EveryGuessCounted'
  <2>1. \A p \in Phones :
            \/ p # req[q].phone /\ otp'[p] = otp[p]
            \/ p = req[q].phone /\ otp'[p].mac = q /\ otp'[p].attempt_count = 0
    BY <1>7 DEF PutOTP, TypeOK, OTPTypeOK
  <2>2. "dynamo" \notin Faults =>
            \A p \in Phones : otp'[p].mac # None => req'[otp'[p].mac].pc = "done"
    BY <1>4, <1>5, <1>7, <2>1 DEF OTPLifeInv
  <2>3. OTPLifeInv'
    BY <1>1, <1>3, <1>4, <2>2, CallsStay DEF OTPLifeInv
  <2>4. ASSUME "dynamo" \notin Faults, NEW p \in Phones, otp'[p].status = "pending"
        PROVE  guesses'[otp'[p].mac] <= otp'[p].attempt_count + Cardinality(Counting(p)')
    <3>1. CASE otp'[p] = otp[p]
        BY <1>1, <2>4, <3>1, CallsStay DEF EveryGuessCounted
    <3>2. CASE otp'[p].mac = q /\ otp'[p].attempt_count = 0
      <4>1. guesses'[q] = 0
        BY <1>1, <1>7, <2>4 DEF OTPLifeInv
      <4>2. Cardinality(Counting(p)') \in Nat
        BY <1>1, CallsStay
      <4> QED
        BY <3>2, <4>1, <4>2
    <3> QED
        BY <2>1, <3>1, <3>2
  <2>5. EveryGuessCounted'
    BY <2>4 DEF EveryGuessCounted
  <2> QED
    BY <2>3, <2>5
<1> QED
    BY <1>6, <1>7, RequestLife

\* Other steps, which at most let time pass and delete OTPs, keep both.
LEMMA OthersKeepLife ==
    ASSUME TypeOK, OTPLifeInv, EveryGuessCounted, UNCHANGED <<req, ver, guesses>>,
           now' \in Nat, now <= now',
           \A p \in Phones : otp'[p] = otp[p] \/ otp'[p] = AbsentOTP
    PROVE  OTPLifeInv' /\ EveryGuessCounted'
<1>1. AbsentOTP.mac = None /\ AbsentOTP.status # "pending"
    BY DEF AbsentOTP
<1>2. \A q \in OTPRequests : req'[q].at <= now'
  <2>1. now \in Nat /\ \A q \in OTPRequests : req[q] \in Request
    BY DEF TypeOK, RequestTypeOK
  <2>2. \A q \in OTPRequests : req[q].at \in Nat /\ req[q].at <= now
    BY <2>1 DEF OTPLifeInv, Request
  <2> QED
    BY <2>1, <2>2
<1>3. "dynamo" \notin Faults =>
        /\ \A p \in Phones : otp'[p].mac # None => req'[otp'[p].mac].pc = "done"
        /\ \A q \in OTPRequests : req'[q].pc # "done" => guesses'[q] = 0
    BY <1>1 DEF OTPLifeInv
<1>4. OTPLifeInv'
    BY <1>2, <1>3, CallsStay DEF OTPLifeInv
<1>5. EveryGuessCounted'
    BY <1>1, CallsStay DEF EveryGuessCounted
<1> QED
    BY <1>4, <1>5

\* Both hold initially, and every step keeps them.
LEMMA LifeInit == Init => OTPLifeInv /\ EveryGuessCounted
<1> SUFFICES ASSUME Init PROVE OTPLifeInv /\ EveryGuessCounted
    OBVIOUS
<1>1. /\ now = 0 /\ \A q \in OTPRequests : req[q].at = 0 /\ guesses[q] = 0
      /\ \A p \in Phones : otp[p].mac = None /\ otp[p].status = "absent"
    BY DEF Init, ClockInit, RequestInit, OTPInit, AbsentOTP, HistoryInit
<1>2. \A p \in Phones : Counting(p) = {}
    BY DEF Init, VerifyInit, NewCall, Counting
<1>3. \A p \in Phones : IsFiniteSet(Counting(p))
    BY <1>2, FS_EmptySet
<1>4. OTPLifeInv
    BY <1>1, <1>3 DEF OTPLifeInv
<1>5. EveryGuessCounted
    BY <1>1 DEF EveryGuessCounted
<1> QED
    BY <1>4, <1>5

\* No step of any call breaks OTPLifeInv or loses a guess.
LEMMA LifeStep ==
    TypeOK /\ CallInv /\ OTPInv /\ OTPLifeInv /\ EveryGuessCounted /\ [Next]_vars
        => OTPLifeInv' /\ EveryGuessCounted'
<1> SUFFICES ASSUME TypeOK, CallInv, OTPInv, OTPLifeInv, EveryGuessCounted, [Next]_vars
             PROVE  OTPLifeInv' /\ EveryGuessCounted'
    OBVIOUS
<1>1. ASSUME NEW q \in OTPRequests, RequestSteps(q)
      PROVE  OTPLifeInv' /\ EveryGuessCounted'
    BY <1>1, RequestKeepsLife
<1>2. ASSUME NEW r \in Verifications, VerifySteps(r)
      PROVE  OTPLifeInv' /\ EveryGuessCounted'
    BY <1>2, VerifyLife, VerifyCounts
<1>3. CASE \/ TimePasses \/ TableMaintenance \/ UNCHANGED vars
           \/ \E f \in Refreshes : RefreshSteps(f)
           \/ \E l \in Logouts : LogoutSteps(l)
  <2>1. /\ UNCHANGED <<req, ver, guesses>> /\ now' \in Nat /\ now <= now'
        /\ \A p \in Phones : otp'[p] = otp[p] \/ otp'[p] = AbsentOTP
    BY <1>3, OtherSteps
  <2> QED
    BY <2>1, OthersKeepLife
<1> QED
    BY ZenonT(60), <1>1, <1>2, <1>3 DEF Next, Terminating

\* OTPLifeInv holds of the service: no put of RequestOTP is ahead of the clock, and no OTP
\* is guessed at before it is written.
THEOREM LifeInvariant == Spec => [](OTPLifeInv /\ EveryGuessCounted)
<1>1. IInv => TypeOK /\ CallInv /\ OTPInv
    BY DEF IInv
<1> QED
    BY <1>1, InductiveInvariant, LifeInit, LifeStep, PTL DEF Spec

\* Every wrong code that VerifyOTP compared is in attempt_count or about to be, for any
\* number of calls, although the count is read in one step and incremented in another:
\* unless DynamoDB fails, no interleaving gives a guess for free.
THEOREM GuessesAreCounted == Spec => []EveryGuessCounted
BY LifeInvariant, PTL

\* The conditional put of CreateOTP and the TTL compare seconds, VerifyOTP compares ticks:
\* what VerifyOTP would accept neither of them replaces.
LEMMA KeepStep ==
    TypeOK /\ CallInv /\ OTPInv /\ OTPLifeInv /\ [Next]_vars =>
        \A p \in Phones : (otp[p].status = "pending" /\ ~After(now, otp[p].expires_at)) =>
            otp'[p].mac = otp[p].mac /\ otp'[p].status \in {"pending", "verified"}
<1> SUFFICES ASSUME TypeOK, CallInv, OTPInv, OTPLifeInv, [Next]_vars,
                    NEW p \in Phones, otp[p].status = "pending", ~After(now, otp[p].expires_at)
             PROVE  otp'[p].mac = otp[p].mac /\ otp'[p].status \in {"pending", "verified"}
    OBVIOUS
<1>1. now \in Nat /\ otp[p].expires_at \in Nat /\ RFC3339(now) \in Nat
    BY SecondType DEF TypeOK, OTPTypeOK, OTPItem
<1>2. RFC3339(now) <= otp[p].expires_at
    BY <1>1, NotAfterSecond
<1>3. CASE otp'[p] = otp[p]
    BY <1>3
<1>4. ASSUME NEW q \in OTPRequests, RequestSteps(q)
      PROVE  otp'[p] = otp[p]
  <2>1. CASE UNCHANGED otp
    BY <2>1
  <2>2. ASSUME OTPReplaceable(otp[req[q].phone], RFC3339(req[q].at)),
               NEW e, PutOTP(req[q].phone, q, e)
        PROVE  otp'[p] = otp[p]
    <3>1. req[q].at \in Nat /\ req[q].at <= now
        BY DEF TypeOK, RequestTypeOK, Request, OTPLifeInv
    <3>2. RFC3339(req[q].at) \in Nat /\ RFC3339(req[q].at) <= RFC3339(now)
        BY <1>1, <3>1, SecondType, SecondMonotone
    <3>3. ~OTPReplaceable(otp[p], RFC3339(req[q].at))
        BY <1>1, <1>2, <3>2 DEF OTPReplaceable
    <3> QED
        BY <2>2, <3>3 DEF PutOTP, TypeOK, OTPTypeOK
  <2> QED
    BY <1>4, <2>1, <2>2, RequestLife
<1>5. ASSUME NEW r \in Verifications, VerifySteps(r)
      PROVE  otp'[p].mac = otp[p].mac /\ otp'[p].status \in {"pending", "verified"}
  <2>1. CASE UNCHANGED otp
    BY <2>1
  <2>2. ASSUME NEW x, MarkVerified(x) \/ IncrementAttempts(x)
        PROVE  otp'[p].mac = otp[p].mac /\ otp'[p].status \in {"pending", "verified"}
    BY <2>2, OTPUpdateType DEF TypeOK
  <2> QED
    BY <1>5, <2>1, <2>2, VerifyEffects
<1>6. CASE \/ TimePasses \/ TableMaintenance \/ UNCHANGED vars
           \/ \E f \in Refreshes : RefreshSteps(f)
           \/ \E l \in Logouts : LogoutSteps(l)
  <2>1. otp'[p] = otp[p] \/ otp[p].expires_at < RFC3339(now)
    BY <1>6, OtherSteps
  <2> QED
    BY <1>1, <1>2, <1>3, <2>1
<1> QED
    BY <1>3, <1>4, <1>5, <1>6 DEF Next, Terminating

\* otp_single_active: while VerifyOTP would accept an OTP, neither a RequestOTP whose clock
\* reading is old nor the TTL takes it away, for any resolution of the clock.
THEOREM SingleActive == Spec => AcceptableOTPKept
<1>1. IInv => TypeOK /\ CallInv /\ OTPInv
    BY DEF IInv
<1>2. TypeOK /\ CallInv /\ OTPInv /\ OTPLifeInv /\ [Next]_vars =>
        [\A p \in Phones :
           (otp[p].status = "pending" /\ ~After(now, otp[p].expires_at)) =>
              /\ otp'[p].mac = otp[p].mac
              /\ otp'[p].status \in {"pending", "verified"}]_vars
    BY KeepStep
<1> QED
    BY <1>1, <1>2, InductiveInvariant, LifeInvariant, PTL DEF Spec, AcceptableOTPKept

-----------------------------------------------------------------------------

\* The lookup of errmap takes the first row that errors.Is finds in the error ...
LEMMA LookupFirst ==
    ASSUME NEW table, NEW err, NEW default, DOMAIN table \subseteq Nat,
           NEW i \in DOMAIN table, err \cap table[i][1] # {},
           \A j \in DOMAIN table : j < i => err \cap table[j][1] = {}
    PROVE  Lookup(table, err, default) = table[i][2]
<1> DEFINE rows == {j \in DOMAIN table : err \cap table[j][1] # {}}
<1>1. i \in rows /\ \A j \in rows : j \in Nat /\ i <= j
    OBVIOUS
<1>2. Min(rows) = i
  <2>1. \A k \in rows : (\A j \in rows : k <= j) => k = i
    BY <1>1
  <2> HIDE DEF rows
  <2> QED
    BY <1>1, <2>1 DEF Min
<1> QED
    BY <1>1, <1>2 DEF Lookup

\* ... and the default if there is none.
LEMMA LookupNone ==
    ASSUME NEW table, NEW err, NEW default,
           \A j \in DOMAIN table : err \cap table[j][1] = {}
    PROVE  Lookup(table, err, default) = default
BY DEF Lookup

\* The rows of the gRPC table.
LEMMA GRPCRows ==
    /\ DOMAIN grpcMappings = 1..7
    /\ grpcMappings[1] = <<{"ErrNotFound"}, "NotFound">>
    /\ grpcMappings[2] = <<{"ErrAlreadyExists", "ErrDuplicateMessage"}, "AlreadyExists">>
    /\ grpcMappings[3] = <<AuthErrors, "Unauthenticated">>
    /\ grpcMappings[4] = <<MemberErrors, "PermissionDenied">>
    /\ grpcMappings[5] = <<InputErrors, "InvalidArgument">>
    /\ grpcMappings[6] = <<LimitErrors, "ResourceExhausted">>
    /\ grpcMappings[7] = <<{"ErrUnavailable"}, "Unavailable">>
BY DEF grpcMappings

\* The rows of the HTTP table.
LEMMA HTTPRows ==
    /\ DOMAIN httpMappings = 1..8
    /\ httpMappings[1] = <<{"ErrNotFound"}, 404>>
    /\ httpMappings[2] = <<{"ErrAlreadyExists"}, 409>>
    /\ httpMappings[3] = <<{"ErrDuplicateMessage"}, 200>>
    /\ httpMappings[4] = <<AuthErrors, 401>>
    /\ httpMappings[5] = <<MemberErrors, 403>>
    /\ httpMappings[6] = <<InputErrors, 400>>
    /\ httpMappings[7] = <<LimitErrors, 429>>
    /\ httpMappings[8] = <<{"ErrUnavailable"}, 503>>
BY DEF httpMappings

\* The rows of the table of close codes.
LEMMA WSRows ==
    /\ DOMAIN wsMappings = 1..9
    /\ wsMappings[1] = <<AuthErrors, 4001>>
    /\ wsMappings[2] = <<MemberErrors, 4003>>
    /\ wsMappings[3] = <<{"ErrNotFound"}, 4004>>
    /\ wsMappings[4] = <<{"ErrAlreadyExists", "ErrDuplicateMessage"}, 4009>>
    /\ wsMappings[5] = <<{"ErrInvalidInput", "ErrEmptyID", "ErrInvalidID",
                          "ErrInvalidPhoneNumber"}, 4000>>
    /\ wsMappings[6] = <<{"ErrMessageTooLarge"}, 4013>>
    /\ wsMappings[7] = <<{"ErrInvalidContentType"}, 4000>>
    /\ wsMappings[8] = <<LimitErrors, 4029>>
    /\ wsMappings[9] = <<{"ErrUnavailable"}, 1013>>
BY DEF wsMappings

\* The classes of errors that the rows of the tables share, and what meets one.
NotFoundErrors    == {"ErrNotFound"}
ExistsErrors      == {"ErrAlreadyExists", "ErrDuplicateMessage"}
UnavailableErrors == {"ErrUnavailable"}
Meets(err, class) == err \cap class # {}

\* The gRPC status and the HTTP status of an error go by the first class, in the same
\* order, that the error meets.
AnsweredAs(err, code, status) ==
    /\ Lookup(grpcMappings, err, "Internal") = code
    /\ "ErrDuplicateMessage" \notin err => Lookup(httpMappings, err, 500) = status

FirstMet(err, nf, ae, au, me, in, li, un) ==
    /\ nf => AnsweredAs(err, "NotFound", 404)
    /\ ~nf /\ ae => AnsweredAs(err, "AlreadyExists", 409)
    /\ ~nf /\ ~ae /\ au => AnsweredAs(err, "Unauthenticated", 401)
    /\ ~nf /\ ~ae /\ ~au /\ me => AnsweredAs(err, "PermissionDenied", 403)
    /\ ~nf /\ ~ae /\ ~au /\ ~me /\ in => AnsweredAs(err, "InvalidArgument", 400)
    /\ ~nf /\ ~ae /\ ~au /\ ~me /\ ~in /\ li => AnsweredAs(err, "ResourceExhausted", 429)
    /\ ~nf /\ ~ae /\ ~au /\ ~me /\ ~in /\ ~li /\ un => AnsweredAs(err, "Unavailable", 503)
    /\ ~nf /\ ~ae /\ ~au /\ ~me /\ ~in /\ ~li /\ ~un => AnsweredAs(err, "Internal", 500)

LEMMA FirstClass ==
    ASSUME NEW err
    PROVE  FirstMet(err, Meets(err, NotFoundErrors), Meets(err, ExistsErrors),
                    Meets(err, AuthErrors), Meets(err, MemberErrors), Meets(err, InputErrors),
                    Meets(err, LimitErrors), Meets(err, UnavailableErrors))
<1> DEFINE g(i) == err \cap grpcMappings[i][1] # {}
           h(i) == err \cap httpMappings[i][1] # {}
           G(i) == g(i) /\ \A n \in 1..7 : n < i => ~g(n)
           H(i) == h(i) /\ \A n \in 1..8 : n < i => ~h(n)
           grpc == Lookup(grpcMappings, err, "Internal")
           http == Lookup(httpMappings, err, 500)
<1>1. ASSUME NEW i \in 1..7, g(i), \A j \in 1..7 : j < i => ~g(j)
      PROVE  Lookup(grpcMappings, err, "Internal") = grpcMappings[i][2]
  <2>1. DOMAIN grpcMappings = 1..7 /\ DOMAIN grpcMappings \subseteq Nat
    BY GRPCRows
  <2>2. i \in DOMAIN grpcMappings /\ err \cap grpcMappings[i][1] # {}
    BY <1>1, <2>1
  <2>3. \A j \in DOMAIN grpcMappings : j < i => err \cap grpcMappings[j][1] = {}
    BY <1>1, <2>1
  <2> QED
    BY ZenonT(60), <2>1, <2>2, <2>3, LookupFirst
<1>2. ASSUME NEW i \in 1..8, h(i), \A j \in 1..8 : j < i => ~h(j)
      PROVE  Lookup(httpMappings, err, 500) = httpMappings[i][2]
  <2>1. DOMAIN httpMappings = 1..8 /\ DOMAIN httpMappings \subseteq Nat
    BY HTTPRows
  <2>2. i \in DOMAIN httpMappings /\ err \cap httpMappings[i][1] # {}
    BY <1>2, <2>1
  <2>3. \A j \in DOMAIN httpMappings : j < i => err \cap httpMappings[j][1] = {}
    BY <1>2, <2>1
  <2> QED
    BY ZenonT(60), <2>1, <2>2, <2>3, LookupFirst
<1>3. (\A i \in 1..7 : ~g(i)) => Lookup(grpcMappings, err, "Internal") = "Internal"
    BY LookupNone, GRPCRows
<1>4. (\A i \in 1..8 : ~h(i)) => Lookup(httpMappings, err, 500) = 500
    BY LookupNone, HTTPRows
<1> DEFINE nf == Meets(err, NotFoundErrors)
           ae == Meets(err, ExistsErrors)
           au == Meets(err, AuthErrors)
           me == Meets(err, MemberErrors)
           in == Meets(err, InputErrors)
           li == Meets(err, LimitErrors)
           un == Meets(err, UnavailableErrors)
           dm == "ErrDuplicateMessage" \in err
<1>5. /\ (g(1) <=> nf) /\ (g(2) <=> ae) /\ (g(3) <=> au) /\ (g(4) <=> me)
      /\ (g(5) <=> in) /\ (g(6) <=> li) /\ (g(7) <=> un)
    BY GRPCRows DEF Meets, NotFoundErrors, ExistsErrors, UnavailableErrors
<1>6. ~dm => /\ (h(1) <=> nf) /\ (h(2) <=> ae) /\ ~h(3) /\ (h(4) <=> au)
             /\ (h(5) <=> me) /\ (h(6) <=> in) /\ (h(7) <=> li) /\ (h(8) <=> un)
    BY HTTPRows DEF Meets, NotFoundErrors, ExistsErrors, UnavailableErrors
<1>7. /\ grpcMappings[1][2] = "NotFound" /\ grpcMappings[2][2] = "AlreadyExists"
      /\ grpcMappings[3][2] = "Unauthenticated" /\ grpcMappings[4][2] = "PermissionDenied"
      /\ grpcMappings[5][2] = "InvalidArgument" /\ grpcMappings[6][2] = "ResourceExhausted"
      /\ grpcMappings[7][2] = "Unavailable"
    BY GRPCRows
<1>8. /\ httpMappings[1][2] = 404 /\ httpMappings[2][2] = 409 /\ httpMappings[4][2] = 401
      /\ httpMappings[5][2] = 403 /\ httpMappings[6][2] = 400 /\ httpMappings[7][2] = 429
      /\ httpMappings[8][2] = 503
    BY HTTPRows
<1>9. /\ (G(1) => grpc = "NotFound") /\ (G(2) => grpc = "AlreadyExists")
      /\ (G(3) => grpc = "Unauthenticated") /\ (G(4) => grpc = "PermissionDenied")
      /\ (G(5) => grpc = "InvalidArgument") /\ (G(6) => grpc = "ResourceExhausted")
      /\ (G(7) => grpc = "Unavailable")
  <2>1. \A i \in 1..7 : G(i) => grpc = grpcMappings[i][2]
    BY <1>1
  <2> HIDE DEF G, grpc
  <2> QED
    BY <1>7, <2>1
<1>10. /\ (H(1) => http = 404) /\ (H(2) => http = 409) /\ (H(4) => http = 401)
       /\ (H(5) => http = 403) /\ (H(6) => http = 400) /\ (H(7) => http = 429)
       /\ (H(8) => http = 503)
  <2>1. \A i \in 1..8 : H(i) => http = httpMappings[i][2]
    BY <1>2
  <2> HIDE DEF H, http
  <2> QED
    BY <1>8, <2>1
<1> HIDE DEF g, h, grpc, http, nf, ae, au, me, in, li, un, dm
<1>11. /\ nf => G(1)
       /\ ~nf /\ ae => G(2)
       /\ ~nf /\ ~ae /\ au => G(3)
       /\ ~nf /\ ~ae /\ ~au /\ me => G(4)
       /\ ~nf /\ ~ae /\ ~au /\ ~me /\ in => G(5)
       /\ ~nf /\ ~ae /\ ~au /\ ~me /\ ~in /\ li => G(6)
       /\ ~nf /\ ~ae /\ ~au /\ ~me /\ ~in /\ ~li /\ un => G(7)
    BY <1>5
<1>12. ~dm => /\ nf => H(1)
              /\ ~nf /\ ae => H(2)
              /\ ~nf /\ ~ae /\ au => H(4)
              /\ ~nf /\ ~ae /\ ~au /\ me => H(5)
              /\ ~nf /\ ~ae /\ ~au /\ ~me /\ in => H(6)
              /\ ~nf /\ ~ae /\ ~au /\ ~me /\ ~in /\ li => H(7)
              /\ ~nf /\ ~ae /\ ~au /\ ~me /\ ~in /\ ~li /\ un => H(8)
    BY <1>6
<1>13. ~nf /\ ~ae /\ ~au /\ ~me /\ ~in /\ ~li /\ ~un =>
            grpc = "Internal" /\ (~dm => http = 500)
  <2>1. ~nf /\ ~ae /\ ~au /\ ~me /\ ~in /\ ~li /\ ~un => \A n \in 1..7 : ~g(n)
    BY <1>5
  <2>2. ~nf /\ ~ae /\ ~au /\ ~me /\ ~in /\ ~li /\ ~un /\ ~dm => \A n \in 1..8 : ~h(n)
    BY <1>6
  <2> QED
    BY ZenonT(60), <1>3, <1>4, <2>1, <2>2 DEF grpc, http
<1> HIDE DEF G, H
<1>14. /\ nf => grpc = "NotFound" /\ (~dm => http = 404)
       /\ ~nf /\ ae => grpc = "AlreadyExists" /\ (~dm => http = 409)
       /\ ~nf /\ ~ae /\ au => grpc = "Unauthenticated" /\ (~dm => http = 401)
       /\ ~nf /\ ~ae /\ ~au /\ me => grpc = "PermissionDenied" /\ (~dm => http = 403)
       /\ ~nf /\ ~ae /\ ~au /\ ~me /\ in => grpc = "InvalidArgument" /\ (~dm => http = 400)
       /\ ~nf /\ ~ae /\ ~au /\ ~me /\ ~in /\ li => grpc = "ResourceExhausted" /\ (~dm => http = 429)
       /\ ~nf /\ ~ae /\ ~au /\ ~me /\ ~in /\ ~li /\ un => grpc = "Unavailable" /\ (~dm => http = 503)
    BY <1>9, <1>10, <1>11, <1>12
<1> QED
    BY ZenonT(60), <1>13, <1>14
    DEF FirstMet, AnsweredAs, nf, ae, au, me, in, li, un, dm, grpc, http

\* The close code of an error goes by the first class that the error meets, in another
\* order: the errors of access come first.
CloseMet(close, nf, ae, au, me, in, li, un) ==
    /\ au => close = "Unauthenticated"
    /\ ~au /\ me => close = "PermissionDenied"
    /\ ~au /\ ~me /\ nf => close = "NotFound"
    /\ ~au /\ ~me /\ ~nf /\ ae => close = "AlreadyExists"
    /\ ~au /\ ~me /\ ~nf /\ ~ae /\ in => close = "InvalidArgument"
    /\ ~au /\ ~me /\ ~nf /\ ~ae /\ ~in /\ li => close = "ResourceExhausted"
    /\ ~au /\ ~me /\ ~nf /\ ~ae /\ ~in /\ ~li /\ un => close = "Unavailable"
    /\ ~au /\ ~me /\ ~nf /\ ~ae /\ ~in /\ ~li /\ ~un => close = "Internal"

LEMMA CloseClass ==
    ASSUME NEW err
    PROVE  CloseMet(MeaningOfClose(Lookup(wsMappings, err, 1011)),
                    Meets(err, NotFoundErrors), Meets(err, ExistsErrors),
                    Meets(err, AuthErrors), Meets(err, MemberErrors), Meets(err, InputErrors),
                    Meets(err, LimitErrors), Meets(err, UnavailableErrors))
<1> DEFINE w(i) == err \cap wsMappings[i][1] # {}
           W(i) == w(i) /\ \A n \in 1..9 : n < i => ~w(n)
           ws   == Lookup(wsMappings, err, 1011)
           close == MeaningOfClose(ws)
           nf == Meets(err, NotFoundErrors)
           ae == Meets(err, ExistsErrors)
           au == Meets(err, AuthErrors)
           me == Meets(err, MemberErrors)
           in == Meets(err, InputErrors)
           li == Meets(err, LimitErrors)
           un == Meets(err, UnavailableErrors)
<1>1. ASSUME NEW i \in 1..9, w(i), \A j \in 1..9 : j < i => ~w(j)
      PROVE  Lookup(wsMappings, err, 1011) = wsMappings[i][2]
  <2>1. DOMAIN wsMappings = 1..9 /\ DOMAIN wsMappings \subseteq Nat
    BY WSRows
  <2>2. i \in DOMAIN wsMappings /\ err \cap wsMappings[i][1] # {}
    BY <1>1, <2>1
  <2>3. \A j \in DOMAIN wsMappings : j < i => err \cap wsMappings[j][1] = {}
    BY <1>1, <2>1
  <2> QED
    BY <2>1, <2>2, <2>3, LookupFirst
<1>2. (\A i \in 1..9 : ~w(i)) => Lookup(wsMappings, err, 1011) = 1011
    BY LookupNone, WSRows
<1>3. /\ (w(1) <=> au) /\ (w(2) <=> me) /\ (w(3) <=> nf) /\ (w(4) <=> ae)
      /\ (w(5) \/ w(6) \/ w(7) <=> in) /\ (w(8) <=> li) /\ (w(9) <=> un)
  <2>1. /\ (w(1) <=> au) /\ (w(2) <=> me) /\ (w(3) <=> nf) /\ (w(4) <=> ae)
        /\ (w(8) <=> li) /\ (w(9) <=> un)
    BY WSRows DEF Meets, NotFoundErrors, ExistsErrors, UnavailableErrors
  <2>2. /\ w(5) <=> err \cap {"ErrInvalidInput", "ErrEmptyID", "ErrInvalidID",
                              "ErrInvalidPhoneNumber"} # {}
        /\ w(6) <=> err \cap {"ErrMessageTooLarge"} # {}
        /\ w(7) <=> err \cap {"ErrInvalidContentType"} # {}
    BY WSRows
  <2>3. InputErrors = {"ErrInvalidInput", "ErrEmptyID", "ErrInvalidID", "ErrInvalidPhoneNumber"}
                      \cup {"ErrMessageTooLarge"} \cup {"ErrInvalidContentType"}
    BY DEF InputErrors
  <2> HIDE DEF w
  <2>4. w(5) \/ w(6) \/ w(7) <=> in
    BY ZenonT(60), <2>2, <2>3 DEF Meets
  <2> QED
    BY <2>1, <2>4
<1>4. /\ (W(1) => close = "Unauthenticated") /\ (W(2) => close = "PermissionDenied")
      /\ (W(3) => close = "NotFound") /\ (W(4) => close = "AlreadyExists")
      /\ (W(5) \/ W(6) \/ W(7) => close = "InvalidArgument")
      /\ (W(8) => close = "ResourceExhausted") /\ (W(9) => close = "Unavailable")
  <2>1. \A i \in 1..9 : W(i) => ws = wsMappings[i][2]
    BY <1>1
  <2>2. /\ wsMappings[1][2] = 4001 /\ wsMappings[2][2] = 4003 /\ wsMappings[3][2] = 4004
        /\ wsMappings[4][2] = 4009 /\ wsMappings[5][2] = 4000 /\ wsMappings[6][2] = 4013
        /\ wsMappings[7][2] = 4000 /\ wsMappings[8][2] = 4029 /\ wsMappings[9][2] = 1013
    BY WSRows
  <2> HIDE DEF W, ws
  <2>3. /\ (W(1) => ws = 4001) /\ (W(2) => ws = 4003) /\ (W(3) => ws = 4004)
        /\ (W(4) => ws = 4009) /\ (W(5) => ws = 4000) /\ (W(6) => ws = 4013)
        /\ (W(7) => ws = 4000) /\ (W(8) => ws = 4029) /\ (W(9) => ws = 1013)
    BY <2>1, <2>2
  <2>4. /\ (ws = 4001 => close = "Unauthenticated") /\ (ws = 4003 => close = "PermissionDenied")
        /\ (ws = 4004 => close = "NotFound") /\ (ws = 4009 => close = "AlreadyExists")
        /\ (ws = 4000 \/ ws = 4013 => close = "InvalidArgument")
        /\ (ws = 4029 => close = "ResourceExhausted") /\ (ws = 1013 => close = "Unavailable")
    BY DEF MeaningOfClose
  <2> HIDE DEF close
  <2> QED
    BY <2>3, <2>4
<1> HIDE DEF w, ws, close, nf, ae, au, me, in, li, un
<1>5. /\ au => W(1)
      /\ ~au /\ me => W(2)
      /\ ~au /\ ~me /\ nf => W(3)
      /\ ~au /\ ~me /\ ~nf /\ ae => W(4)
      /\ ~au /\ ~me /\ ~nf /\ ~ae /\ in => W(5) \/ W(6) \/ W(7)
      /\ ~au /\ ~me /\ ~nf /\ ~ae /\ ~in /\ li => W(8)
      /\ ~au /\ ~me /\ ~nf /\ ~ae /\ ~in /\ ~li /\ un => W(9)
  <2>1. /\ au => W(1)
        /\ ~au /\ me => W(2)
        /\ ~au /\ ~me /\ nf => W(3)
        /\ ~au /\ ~me /\ ~nf /\ ae => W(4)
        /\ ~au /\ ~me /\ ~nf /\ ~ae /\ ~in /\ li => W(8)
        /\ ~au /\ ~me /\ ~nf /\ ~ae /\ ~in /\ ~li /\ un => W(9)
    BY <1>3
  <2>2. ASSUME ~w(1), ~w(2), ~w(3), ~w(4), w(5) \/ w(6) \/ w(7) PROVE W(5) \/ W(6) \/ W(7)
    <3>1. CASE w(5)
        BY <2>2, <3>1
    <3>2. CASE ~w(5) /\ w(6)
        BY <2>2, <3>2
    <3>3. CASE ~w(5) /\ ~w(6) /\ w(7)
        BY <2>2, <3>3
    <3> QED
        BY <2>2, <3>1, <3>2, <3>3
  <2> HIDE DEF W
  <2> QED
    BY <1>3, <2>1, <2>2
<1>6. ~au /\ ~me /\ ~nf /\ ~ae /\ ~in /\ ~li /\ ~un => close = "Internal"
  <2>1. ~au /\ ~me /\ ~nf /\ ~ae /\ ~in /\ ~li /\ ~un => ws = 1011
    BY <1>2, <1>3 DEF ws
  <2>2. ws = 1011 => close = "Internal"
    BY DEF close, MeaningOfClose
  <2> QED
    BY <2>1, <2>2
<1> HIDE DEF W
<1>7. CloseMet(close, nf, ae, au, me, in, li, un)
    BY <1>4, <1>5, <1>6 DEF CloseMet
<1> QED
    BY <1>7 DEF nf, ae, au, me, in, li, un, close, ws

\* The three tables of errmap relate as TablesAgreeOn says on every error, however many
\* domain errors are joined in it: gRPC and HTTP agree (but for ErrDuplicateMessage), the
\* gRPC status asks for a retry when IsRetryable does, and the WebSocket close code means the
\* same as the gRPC status exactly unless a resource error is joined with an error of access,
\* because the tables list these in different orders and the first row that matches decides.
THEOREM JoinedErrorsAgree ==
    ASSUME NEW err PROVE TablesAgreeOn(err)
<1> DEFINE nf == Meets(err, NotFoundErrors)
           ae == Meets(err, ExistsErrors)
           au == Meets(err, AuthErrors)
           me == Meets(err, MemberErrors)
           in == Meets(err, InputErrors)
           li == Meets(err, LimitErrors)
           un == Meets(err, UnavailableErrors)
           sc == Meets(err, {"ErrSlowConsumer"})
<1>1. CASE err = {}
  <2>1. ToHTTPError(err) = 200 /\ ToGRPCStatus(err) = "OK" /\ ToWebSocketClose(err) = 1000
    BY <1>1 DEF ToHTTPError, ToGRPCStatus, ToWebSocketClose
  <2>2. ~IsRetryable(err) /\ err \cap ResourceErrors = {}
    BY <1>1 DEF IsRetryable
  <2>3. HTTPStatusFromCode["OK"] = 200
    BY DEF HTTPStatusFromCode
  <2>4. "OK" \notin {"ResourceExhausted", "Unavailable"} /\ MeaningOfClose(1000) = "OK"
    BY DEF MeaningOfClose
  <2> QED
    BY <2>1, <2>2, <2>3, <2>4 DEF TablesAgreeOn
<1>2. CASE err # {}
  <2> DEFINE grpc  == ToGRPCStatus(err)
             http  == ToHTTPError(err)
             close == MeaningOfClose(ToWebSocketClose(err))
             dm    == "ErrDuplicateMessage" \in err
             fatal == nf \/ ae \/ au \/ me \/ in
  <2>1. /\ grpc = Lookup(grpcMappings, err, "Internal") /\ http = Lookup(httpMappings, err, 500)
        /\ close = MeaningOfClose(Lookup(wsMappings, err, 1011))
    BY <1>2 DEF ToGRPCStatus, ToHTTPError, ToWebSocketClose
  <2>2. /\ nf => grpc = "NotFound" /\ (~dm => http = 404)
        /\ ~nf /\ ae => grpc = "AlreadyExists" /\ (~dm => http = 409)
        /\ ~nf /\ ~ae /\ au => grpc = "Unauthenticated" /\ (~dm => http = 401)
        /\ ~nf /\ ~ae /\ ~au /\ me => grpc = "PermissionDenied" /\ (~dm => http = 403)
        /\ ~nf /\ ~ae /\ ~au /\ ~me /\ in => grpc = "InvalidArgument" /\ (~dm => http = 400)
        /\ ~fatal /\ li => grpc = "ResourceExhausted" /\ (~dm => http = 429)
        /\ ~fatal /\ ~li /\ un => grpc = "Unavailable" /\ (~dm => http = 503)
        /\ ~fatal /\ ~li /\ ~un => grpc = "Internal" /\ (~dm => http = 500)
    <3>1. FirstMet(err, nf, ae, au, me, in, li, un)
        BY FirstClass
    <3>2. \A code, status : AnsweredAs(err, code, status) => grpc = code /\ (~dm => http = status)
        BY <2>1 DEF AnsweredAs
    <3> HIDE DEF nf, ae, au, me, in, li, un, grpc, http, dm
    <3> QED
        BY <3>1, <3>2 DEF FirstMet
  <2>3. CloseMet(close, nf, ae, au, me, in, li, un)
    BY <2>1, CloseClass
  <2>4. (IsRetryable(err) <=> li \/ un) \/ sc
    BY ZenonT(60) DEF IsRetryable, Meets, UnavailableErrors
  <2>5. ~ae => (IsClientError(err) <=> nf \/ au \/ me \/ in)
    BY ZenonT(60) DEF IsClientError, Meets, NotFoundErrors, ExistsErrors
  <2>6. err \cap {"ErrAlreadyExists", "ErrDuplicateMessage", "ErrSlowConsumer"} = {} => ~ae /\ ~sc
    BY DEF Meets, ExistsErrors
  <2>7. /\ err \cap ResourceErrors # {} <=> nf \/ ae
        /\ err \cap AccessErrors # {} <=> au \/ me
    BY ZenonT(60) DEF Meets, NotFoundErrors, ExistsErrors, ResourceErrors, AccessErrors
  <2> HIDE DEF nf, ae, au, me, in, li, un, sc, grpc, http, close, dm
  <2>8. grpc \in {"ResourceExhausted", "Unavailable"} <=> ~fatal /\ (li \/ un)
    BY <2>2
  <2>9. ~dm => http = HTTPStatusFromCode[grpc]
    <3>1. /\ HTTPStatusFromCode["NotFound"] = 404 /\ HTTPStatusFromCode["AlreadyExists"] = 409
          /\ HTTPStatusFromCode["Unauthenticated"] = 401
          /\ HTTPStatusFromCode["PermissionDenied"] = 403
          /\ HTTPStatusFromCode["InvalidArgument"] = 400
          /\ HTTPStatusFromCode["ResourceExhausted"] = 429
          /\ HTTPStatusFromCode["Unavailable"] = 503 /\ HTTPStatusFromCode["Internal"] = 500
        BY DEF HTTPStatusFromCode
    <3> QED
        BY ZenonT(60), <2>2, <3>1
  <2>10. err \cap {"ErrAlreadyExists", "ErrDuplicateMessage", "ErrSlowConsumer"} = {} =>
            (~fatal /\ (li \/ un) <=> IsRetryable(err) /\ ~IsClientError(err))
    BY ZenonT(60), <2>4, <2>5, <2>6
  <2>11. /\ ~((nf \/ ae) /\ (au \/ me)) => close = grpc
         /\ (nf \/ ae) /\ (au \/ me) => /\ grpc \in {"NotFound", "AlreadyExists"}
                                        /\ close \in {"Unauthenticated", "PermissionDenied"}
    BY <2>2, <2>3 DEF CloseMet
  <2> HIDE DEF fatal
  <2>12. /\ ~(err \cap ResourceErrors # {} /\ err \cap AccessErrors # {}) => close = grpc
         /\ err \cap ResourceErrors # {} /\ err \cap AccessErrors # {} =>
                /\ grpc \in {"NotFound", "AlreadyExists"}
                /\ close \in {"Unauthenticated", "PermissionDenied"}
    BY ZenonT(60), <2>7, <2>11
  <2>13. err \cap {"ErrAlreadyExists", "ErrDuplicateMessage", "ErrSlowConsumer"} = {} =>
            (grpc \in {"ResourceExhausted", "Unavailable"} <=> IsRetryable(err) /\ ~IsClientError(err))
    BY ZenonT(60), <2>8, <2>10
  <2> QED
    BY ZenonT(60), <2>9, <2>12, <2>13 DEF TablesAgreeOn, grpc, http, close, dm
<1> QED
    BY <1>1, <1>2

\* The results of the four operations are errors of the tables, or none.
LEMMA ResultsMapped ==
    /\ VerifyResults \subseteq {"none", "ok"} \cup DomainErrors \cup {Opaque}
    /\ RequestResults \subseteq {"none", "ok"} \cup DomainErrors \cup {Opaque}
    /\ RefreshResults \subseteq {"none", "ok"} \cup DomainErrors \cup {Opaque}
    /\ {"none", "ok", "error", "ErrUnauthorized"}
          \subseteq {"none", "ok"} \cup DomainErrors \cup {Opaque}
<1> USE DEF DomainErrors, AuthErrors, InputErrors, LimitErrors, Opaque
<1>1. VerifyResults \subseteq {"none", "ok"} \cup DomainErrors \cup {Opaque}
    BY DEF VerifyResults
<1>2. RequestResults \subseteq {"none", "ok"} \cup DomainErrors \cup {Opaque}
    BY DEF RequestResults
<1>3. RefreshResults \subseteq {"none", "ok"} \cup DomainErrors \cup {Opaque}
    BY DEF RefreshResults
<1>4. {"none", "ok", "error", "ErrUnauthorized"}
          \subseteq {"none", "ok"} \cup DomainErrors \cup {Opaque}
    OBVIOUS
<1> QED
    BY <1>1, <1>2, <1>3, <1>4

\* Whatever error an operation returns, alone or joined with any other error, the tables of
\* errmap relate on it as TablesAgreeOn says; alone, it means the same on every route.
THEOREM RoutesAgree == Spec => []TablesAgree
<1>1. TypeOK => TablesAgree
  <2> SUFFICES ASSUME TypeOK PROVE TablesAgree
    OBVIOUS
  <2> DEFINE known == {"none", "ok"} \cup DomainErrors \cup {Opaque}
  <2>1. known = {"none", "ok"} \cup Consistent
    BY JoinedErrorsAgree DEF Consistent
  <2> HIDE DEF known
  <2>2. \A r \in Verifications : ver[r].result \in VerifyResults
    BY DEF TypeOK, VerifyTypeOK, VerifyCall
  <2>3. \A q \in OTPRequests : req[q].result \in RequestResults
    BY DEF TypeOK, RequestTypeOK, Request
  <2>4. \A f \in Refreshes : ref[f].result \in RefreshResults
    BY DEF TypeOK, RefreshTypeOK, RefreshCall
  <2>5. \A l \in Logouts : out[l].result \in {"none", "ok", "error", "ErrUnauthorized"}
    BY DEF TypeOK, LogoutTypeOK, LogoutCall
  <2>6. /\ VerifyResults \subseteq known /\ RequestResults \subseteq known
        /\ RefreshResults \subseteq known
        /\ {"none", "ok", "error", "ErrUnauthorized"} \subseteq known
    BY ResultsMapped DEF known
  <2>7. /\ \A r \in Verifications : ver[r].result \in known
        /\ \A q \in OTPRequests : req[q].result \in known
        /\ \A f \in Refreshes : ref[f].result \in known
        /\ \A l \in Logouts : out[l].result \in known
    BY <2>2, <2>3, <2>4, <2>5, <2>6
  <2> QED
    BY <2>1, <2>7 DEF TablesAgree
<1> QED
    BY <1>1, TypesCorrect, PTL

\* Success is answered OK, and an error that wraps no domain error Internal.
LEMMA PlainStatus ==
    ToGRPCStatus(ErrorOf("ok")) = "OK" /\ ToGRPCStatus(ErrorOf("error")) = "Internal"
<1>1. ToGRPCStatus(ErrorOf("ok")) = "OK"
    BY DEF ToGRPCStatus, ErrorOf
<1>2. ErrorOf("error") = {"error"}
    BY DEF ErrorOf
<1>3. ASSUME NEW i \in DOMAIN grpcMappings
      PROVE  {"error"} \cap grpcMappings[i][1] = {}
  <2>1. i \in 1..7
    BY GRPCRows
  <2>2. grpcMappings[i][1] \in {{"ErrNotFound"}, {"ErrAlreadyExists", "ErrDuplicateMessage"},
            AuthErrors, MemberErrors, InputErrors, LimitErrors, {"ErrUnavailable"}}
    BY <2>1, GRPCRows
  <2>3. "error" \notin AuthErrors \cup MemberErrors \cup InputErrors \cup LimitErrors
    BY DEF AuthErrors, MemberErrors, InputErrors, LimitErrors
  <2> QED
    BY <2>2, <2>3
<1>4. Lookup(grpcMappings, {"error"}, "Internal") = "Internal"
    BY <1>3, LookupNone
<1> QED
    BY <1>1, <1>2, <1>4 DEF ToGRPCStatus

\* The facts of OutcomeInv, one by one.
LEMMA OutcomeFacts ==
    ASSUME OutcomeInv
    PROVE  /\ \A c \in commits : ver[c.session].pc = "done"
           /\ \A c \in commits : ver[c.session].result \in {"ok", "error"}
           /\ \A q \in OTPRequests : req[q].sms # "none" => req[q].result = "ok"
           /\ \A p \in Phones : otp[p].status = "absent" => otp[p].mac = None
           /\ \A p \in Phones : otp[p].mac # None =>
                \/ req[otp[p].mac].pc \in {"create", "existing"}
                \/ req[otp[p].mac].pc = "done" /\ req[otp[p].mac].result \in {"ok", "error"}
<1>1. \A p \in Phones : otp[p].status = "absent" => otp[p].mac = None
    BY DEF OutcomeInv
<1>2. \A p \in Phones : otp[p].mac # None =>
        \/ req[otp[p].mac].pc \in {"create", "existing"}
        \/ req[otp[p].mac].pc = "done" /\ req[otp[p].mac].result \in {"ok", "error"}
    BY DEF OutcomeInv
<1> QED
    BY <1>1, <1>2 DEF OutcomeInv

\* OutcomeInv says enough.
LEMMA OutcomeSuffices == OutcomeInv => StatusTellsOutcome
<1> SUFFICES ASSUME OutcomeInv PROVE StatusTellsOutcome
    OBVIOUS
<1>1. \A call : call.result \in {"ok", "error"} => ~Refused(call)
    BY PlainStatus DEF Refused, StatusOf
<1>2. \A r \in Verifications : Refused(ver[r]) => \A c \in commits : c.session # r
  <2>1. \A c \in commits : ver[c.session].result \in {"ok", "error"}
    BY OutcomeFacts
  <2>2. ASSUME NEW c \in commits PROVE ~Refused(ver[c.session])
    <3>1. ver[c.session].result \in {"ok", "error"}
        BY <2>1
    <3>2. ToGRPCStatus(ErrorOf(ver[c.session].result)) \in {"OK", "Internal"}
        BY <3>1, PlainStatus
    <3> QED
        BY <3>2 DEF Refused, StatusOf
  <2> QED
    BY ZenonT(60), <2>2
<1>3. ASSUME NEW q \in OTPRequests, Refused(req[q])
      PROVE  req[q].sms = "none" /\ \A p \in Phones : otp[p].mac # q
  <2>1. req[q].pc = "done"
    BY <1>3 DEF Refused
  <2>2. req[q].result \notin {"ok", "error"}
    BY <1>1, <1>3
  <2>3. req[q].sms # "none" => req[q].result = "ok"
    BY OutcomeFacts
  <2>4. ASSUME NEW p \in Phones, otp[p].mac = q
        PROVE  FALSE
    <3>1. otp[p].mac # None
        BY <2>4, IdentityAssumption
    <3>2. \/ req[q].pc \in {"create", "existing"}
          \/ req[q].pc = "done" /\ req[q].result \in {"ok", "error"}
        BY ZenonT(60), <2>4, <3>1, OutcomeFacts
    <3> QED
        BY <2>1, <2>2, <3>2
  <2> QED
    BY <2>2, <2>3, <2>4
<1> QED
    BY <1>2, <1>3 DEF OutcomeInv, StatusTellsOutcome

\* What RequestOTP answers once its put may have been executed: anything but a refusal,
\* unless the table holds no OTP of the phone.
LEMMA RequestAnswers ==
    ASSUME TypeOK, OTPInv, NEW q \in OTPRequests, RequestSteps(q)
    PROVE  /\ req[q].pc \in {"create", "existing"} =>
                \/ req'[q].pc \in {"create", "existing"}
                \/ req'[q].pc = "done" /\ req'[q].result \in {"ok", "error"}
                \/ otp[req[q].phone].status = "absent" /\ UNCHANGED otp
           /\ req[q].pc = "done" => req'[q].pc = "done" /\ req'[q].result = req[q].result
           /\ req[q].pc # "done" =>
                req'[q].sms = req[q].sms \/ (req'[q].sms = "sending" /\ req'[q].result = "ok")
<1>1. req[q] \in Request
    BY DEF TypeOK, RequestTypeOK
<1>2. RequestStep(q)
    BY DEF RequestSteps
<1>3. ASSUME NEW e, req' = [req EXCEPT ![q] = e]
      PROVE  req'[q] = e
    BY <1>3 DEF TypeOK, RequestTypeOK
<1>4. /\ \A x : LET e == [req[q] EXCEPT !.pc = "done", !.result = x] IN
                e.pc = "done" /\ e.result = x /\ e.sms = req[q].sms
      /\ LET e == [req[q] EXCEPT !.tries = @ + 1] IN e.pc = req[q].pc /\ e.sms = req[q].sms
      /\ \A x : LET e == [req[q] EXCEPT !.pc = x] IN e.pc = x /\ e.sms = req[q].sms
      /\ \A x : LET e == [req[q] EXCEPT !.sms = x] IN
                e.pc = req[q].pc /\ e.result = req[q].result
    BY <1>1 DEF Request
<1>5. ASSUME NEW x, RequestReturns(q, x)
      PROVE  req'[q].pc = "done" /\ req'[q].result = x /\ req'[q].sms = req[q].sms
    BY ZenonT(30), <1>3, <1>4, <1>5 DEF RequestReturns
<1>6. ASSUME NEW x, RepeatRequest(q, x)
      PROVE  req'[q].pc = req[q].pc /\ req'[q].sms = req[q].sms
    BY <1>3, <1>4, <1>6 DEF RepeatRequest
<1>7. CASE RequestArrives(q)
  <2>1. ASSUME NEW p \in Phones, NEW a \in IPs,
               req' = [req EXCEPT ![q] = [@ EXCEPT !.pc = "phone_limit", !.phone = p, !.ip = a]]
        PROVE  req'[q].sms = req[q].sms
    BY <1>1, <1>3, <2>1 DEF Request
  <2> QED
    BY ZenonT(30), <1>5, <1>7, <2>1 DEF RequestArrives
<1>8. CASE CheckRequestPhone(q)
  <2>1. req' = [req EXCEPT ![q].pc = "ip_limit"] => req'[q].sms = req[q].sms
    BY <1>3, <1>4
  <2> QED
    BY <1>5, <1>6, <1>8, <2>1 DEF CheckRequestPhone
<1>9. CASE CheckRequestIP(q)
  <2>1. req' = [req EXCEPT ![q] = [@ EXCEPT !.pc = "create", !.at = now]]
            => req'[q].sms = req[q].sms
    BY <1>1, <1>3 DEF Request
  <2> QED
    BY <1>5, <1>6, <1>9, <2>1 DEF CheckRequestIP
<1>10. CASE CreateOTP(q)
  <2>1. req' = [req EXCEPT ![q] = [@ EXCEPT !.pc = "done", !.result = "ok", !.sms = "sending"]]
            => req'[q].pc = "done" /\ req'[q].result = "ok" /\ req'[q].sms = "sending"
    BY ZenonT(30), <1>1, <1>3 DEF Request
  <2>2. req' = [req EXCEPT ![q].pc = "existing"]
            => req'[q].pc = "existing" /\ req'[q].sms = req[q].sms
    BY ZenonT(30), <1>1, <1>3 DEF Request
  <2> QED
    BY <1>5, <1>6, <1>10, <2>1, <2>2 DEF CreateOTP
<1>11. CASE ReturnExistingOTP(q)
    BY <1>5, <1>11 DEF ReturnExistingOTP
<1>12. CASE SendSMS(q)
  <2>1. \A x : req' = [req EXCEPT ![q].sms = x]
            => req'[q].pc = req[q].pc /\ req'[q].result = req[q].result
    BY <1>3, <1>4
  <2>2. req[q].pc = "done"
    BY <1>12 DEF SendSMS, OTPInv
  <2> QED
    BY <1>12, <2>1, <2>2 DEF SendSMS
<1> QED
    BY ZenonT(60), <1>2, <1>7, <1>8, <1>9, <1>10, <1>11, <1>12 DEF RequestStep

\* OutcomeInv holds initially, and every step keeps it.
LEMMA OutcomeInit == Init => OutcomeInv
<1> SUFFICES ASSUME Init PROVE OutcomeInv
    OBVIOUS
<1>1. /\ commits = {} /\ \A r \in Verifications : ver[r].result = "none"
      /\ \A q \in OTPRequests : req[q].sms = "none"
      /\ \A p \in Phones : otp[p].mac = None
    BY DEF Init, HistoryInit, VerifyInit, NewCall, RequestInit, OTPInit, AbsentOTP
<1> QED
    BY <1>1 DEF OutcomeInv

\* What RequestOTP answers matches what it did to the OTP, step by step.
LEMMA RequestOutcome ==
    ASSUME TypeOK, OTPInv, OutcomeInv, NEW q \in OTPRequests, RequestSteps(q)
    PROVE  OutcomeInv'
<1>1. UNCHANGED <<ver, commits>>
    BY ZenonT(60), RequestLife
<1>2. \A x \in OTPRequests : x # q => req'[x] = req[x]
    BY RequestEffects DEF TypeOK, RequestTypeOK
<1>3. \A x \in OTPRequests : req'[x].sms # "none" => req'[x].result = "ok"
  <2>1. req'[q].sms # "none" => req'[q].result = "ok"
    <3>1. CASE req[q].pc = "done"
      <4>1. CASE req[q].sms # "none"
        <5>1. req[q].result = "ok"
            BY <4>1, OutcomeFacts
        <5> QED
            BY ZenonT(60), <3>1, <5>1, RequestAnswers
      <4>2. CASE req[q].sms = "none"
        BY <3>1, <4>2 DEF RequestSteps, RequestStep, RequestArrives, CheckRequestPhone,
            CheckRequestIP, CreateOTP, ReturnExistingOTP, SendSMS
      <4> QED
        BY <4>1, <4>2
    <3>2. CASE req[q].pc # "done"
        BY <3>2, RequestAnswers DEF OTPInv
    <3> QED
        BY <3>1, <3>2
  <2> QED
    BY <1>2, <2>1 DEF OutcomeInv
<1>4. ASSUME NEW p \in Phones
      PROVE  /\ otp'[p].status = "absent" => otp'[p].mac = None
             /\ \/ otp'[p].mac = None
                \/ otp'[p].mac = q /\ req[q].pc = "create"
                \/ otp'[p].mac = otp[p].mac /\ UNCHANGED otp
                \/ otp'[p].mac = otp[p].mac /\ otp[p].mac # q
  <2>1. CASE UNCHANGED otp
    BY ZenonT(60), <2>1 DEF OutcomeInv
  <2>2. ASSUME req[q].pc = "create", NEW e, PutOTP(req[q].phone, q, e)
        PROVE  /\ otp'[p].status = "absent" => otp'[p].mac = None
               /\ otp'[p].mac = q \/ (otp'[p].mac = otp[p].mac /\ otp[p].mac # q)
    <3>1. \/ p # req[q].phone /\ otp'[p] = otp[p]
          \/ otp'[p].mac = q /\ otp'[p].status = "pending"
        BY ZenonT(60), <2>2 DEF PutOTP, TypeOK, OTPTypeOK
    <3> QED
        BY ZenonT(60), <3>1, IdentityAssumption DEF OutcomeInv, OTPInv
  <2> QED
    BY ZenonT(60), <2>1, <2>2, RequestLife
<1>5. ASSUME NEW p \in Phones, otp'[p].mac # None
      PROVE  \/ req'[otp'[p].mac].pc \in {"create", "existing"}
             \/ req'[otp'[p].mac].pc = "done" /\ req'[otp'[p].mac].result \in {"ok", "error"}
  <2>1. otp[p].mac \in OTPRequests \cup {None}
    BY DEF TypeOK, OTPTypeOK, OTPItem
  <2>2. CASE otp'[p].mac = otp[p].mac /\ otp[p].mac # q
    <3>1. otp[p].mac # None /\ req'[otp'[p].mac] = req[otp[p].mac]
        BY <1>2, <1>5, <2>1, <2>2
    <3> QED
        BY ZenonT(60), <3>1, OutcomeFacts
  <2>3. CASE otp'[p].mac = q /\ req[q].pc = "create"
    <3>1. otp[req[q].phone].status = "absent" /\ UNCHANGED otp => FALSE
      <4>1. ASSUME UNCHANGED otp, otp[req[q].phone].status = "absent" PROVE FALSE
        <5>1. otp[p].mac = q /\ otp[p].mac # None
            BY <1>5, <2>3, <4>1
        <5>2. req[q].phone = p
            BY ZenonT(60), <5>1 DEF OTPInv
        <5> QED
            BY ZenonT(60), <4>1, <5>1, <5>2, OutcomeFacts
      <4> QED
        BY <4>1
    <3> QED
        BY <2>3, <3>1, RequestAnswers
  <2>4. CASE otp'[p].mac = q /\ otp[p].mac = q /\ UNCHANGED otp
    <3>1. otp[p].status # "absent" /\ req[q].phone = p
        BY ZenonT(60), <2>4, IdentityAssumption DEF OTPInv, OutcomeInv
    <3>2. \/ req[q].pc \in {"create", "existing"}
          \/ req[q].pc = "done" /\ req[q].result \in {"ok", "error"}
        BY <1>5, <2>4 DEF OutcomeInv
    <3> QED
        BY <2>4, <3>1, <3>2, RequestAnswers
  <2> QED
    BY ZenonT(60), <1>4, <1>5, <2>2, <2>3, <2>4
<1> QED
    BY ZenonT(60), <1>1, <1>3, <1>4, <1>5 DEF OutcomeInv

\* What VerifyOTP answers matches what it did to the OTP and the sessions.
LEMMA VerifyOutcome ==
    ASSUME TypeOK, CallInv, OutcomeInv, NEW r \in Verifications, VerifySteps(r)
    PROVE  OutcomeInv'
<1>1. UNCHANGED req /\ ver[r].pc # "done" /\ ver[r] \in VerifyCall
    BY ZenonT(60), VerifyStores, CommitReturns DEF TypeOK, VerifyTypeOK
<1>2. \A x \in Verifications : x # r => ver'[x] = ver[x]
    BY VerifyLocals DEF TypeOK, VerifyTypeOK
<1>3. \A c \in commits : c.session \in Verifications /\ c.session # r
  <2>1. \A c \in Commit : c.session \in Verifications
    BY DEF Commit
  <2>2. commits \subseteq Commit
    BY DEF TypeOK, HistoryTypeOK
  <2> QED
    BY ZenonT(60), <1>1, <2>1, <2>2, OutcomeFacts
<1>4. \A p \in Phones : otp'[p].mac = otp[p].mac /\ otp'[p].status \in {otp[p].status, "verified"}
  <2>1. CASE UNCHANGED otp
    BY <2>1
  <2>2. ASSUME NEW p, MarkVerified(p) \/ IncrementAttempts(p)
        PROVE  \A x \in Phones : /\ otp'[x].mac = otp[x].mac
                                 /\ otp'[x].status \in {otp[x].status, "verified"}
    BY <2>2, OTPUpdateType DEF TypeOK
  <2> QED
    BY ZenonT(60), <2>1, <2>2, VerifyEffects
<1> DEFINE Answered   == \A c \in commits : /\ ver[c.session].pc = "done"
                                            /\ ver[c.session].result \in {"ok", "error"}
           Successful == \A x \in Verifications :
                            ver[x].result = "ok" => \E c \in commits : c.session = x
<1>5. Answered /\ Successful
    BY DEF OutcomeInv
<1>6. ASSUME Answered', Successful' PROVE OutcomeInv'
  <2>1. \A p \in Phones : otp'[p].status = "absent" => otp[p].status = "absent"
    BY <1>4
  <2>2. \A p \in Phones : otp'[p].status = "absent" => otp'[p].mac = None
    BY ZenonT(60), <1>4, <2>1 DEF OutcomeInv
  <2>3. \A p \in Phones : otp'[p].mac # None =>
            \/ req'[otp'[p].mac].pc \in {"create", "existing"}
            \/ req'[otp'[p].mac].pc = "done" /\ req'[otp'[p].mac].result \in {"ok", "error"}
    BY ZenonT(60), <1>1, <1>4 DEF OutcomeInv
  <2>4. \A q \in OTPRequests : req'[q].sms # "none" => req'[q].result = "ok"
    BY ZenonT(60), <1>1 DEF OutcomeInv
  <2> QED
    BY ZenonT(60), <1>6, <2>2, <2>3, <2>4 DEF OutcomeInv
<1>7. CASE VerifyCommits(r)
  <2>1. ver'[r].pc = "done" /\ ver'[r].result \in {"ok", "error"}
    BY ZenonT(30), <1>7
    DEF VerifyCommits, Committed, VerifyReturns, NewCall, TypeOK, VerifyTypeOK
  <2>2. PICK d : d.session = r /\ commits' = commits \cup {d}
    <3>1. ASSUME NEW m, NEW u, NEW d, d = [otp |-> m, session |-> r, user |-> u]
          PROVE  d.session = r
        BY <3>1
    <3> QED
        BY ZenonT(30), <1>7, <3>1 DEF VerifyCommits
  <2>3. Answered'
    <3>1. ASSUME NEW c \in commits
          PROVE  ver'[c.session].pc = "done" /\ ver'[c.session].result \in {"ok", "error"}
        BY ZenonT(60), <1>2, <1>3, <1>5
    <3> QED
        BY ZenonT(60), <2>1, <2>2, <3>1
  <2>4. Successful'
    <3>1. ASSUME NEW x \in Verifications, x # r, ver'[x].result = "ok"
          PROVE  \E c \in commits : c.session = x
        BY ZenonT(60), <1>2, <1>5, <3>1
    <3> QED
        BY ZenonT(60), <2>2, <3>1
  <2> QED
    BY <1>6, <2>3, <2>4
<1>8. CASE ~VerifyCommits(r)
  <2>1. UNCHANGED commits
    BY <1>8, VerifyMoves DEF VerifyMovesOn, VerifyGuesses, CountAttempt, historyVars
  <2>2. ver'[r].result = "ok" => ver[r].result = "ok"
    <3>1. CASE VerifyMovesOn(r)
        BY <3>1 DEF VerifyMovesOn, Onward, Ended, TypeOK, VerifyTypeOK
    <3>2. CASE VerifyGuesses(r)
        BY <1>1, <3>2 DEF VerifyGuesses, TypeOK, VerifyTypeOK, VerifyCall
    <3>3. CASE CountAttempt(r)
        BY ZenonT(30), <1>1, <3>3
        DEF CountAttempt, VerifyReturns, RepeatVerify, NewCall, TypeOK,
            VerifyTypeOK, VerifyCall
    <3> QED
        BY ZenonT(60), <1>8, <3>1, <3>2, <3>3, VerifyMoves
  <2>3. Answered'
    <3>1. ASSUME NEW c \in commits
          PROVE  ver'[c.session].pc = "done" /\ ver'[c.session].result \in {"ok", "error"}
        BY ZenonT(60), <1>2, <1>3, <1>5
    <3> QED
        BY ZenonT(60), <2>1, <3>1
  <2>4. Successful'
    BY ZenonT(60), <1>2, <1>5, <2>1, <2>2
  <2> QED
    BY <1>6, <2>3, <2>4
<1> QED
    BY <1>7, <1>8

\* No step of any call breaks OutcomeInv.
LEMMA OutcomeStep == TypeOK /\ CallInv /\ OTPInv /\ OutcomeInv /\ [Next]_vars => OutcomeInv'
<1> SUFFICES ASSUME TypeOK, CallInv, OTPInv, OutcomeInv, [Next]_vars PROVE OutcomeInv'
    OBVIOUS
<1>1. ASSUME NEW q \in OTPRequests, RequestSteps(q) PROVE OutcomeInv'
    BY <1>1, RequestOutcome
<1>2. ASSUME NEW r \in Verifications, VerifySteps(r) PROVE OutcomeInv'
    BY <1>2, VerifyOutcome
<1>3. CASE \/ TimePasses \/ TableMaintenance \/ UNCHANGED vars
           \/ \E f \in Refreshes : RefreshSteps(f)
           \/ \E l \in Logouts : LogoutSteps(l)
  <2>1. /\ UNCHANGED <<req, ver, commits>>
        /\ \A p \in Phones : otp'[p] = otp[p] \/ otp'[p] = AbsentOTP
    BY <1>3, OtherSteps
  <2>2. AbsentOTP.mac = None
    BY DEF AbsentOTP
  <2> QED
    BY <2>1, <2>2 DEF OutcomeInv
<1> QED
    BY <1>1, <1>2, <1>3 DEF Next, Terminating

\* OutcomeInv holds of the service.
THEOREM OutcomeInvariant == Spec => []OutcomeInv
<1>1. IInv => TypeOK /\ CallInv /\ OTPInv
    BY DEF IInv
<1> QED
    BY <1>1, InductiveInvariant, OutcomeInit, OutcomeStep, PTL DEF Spec

\* A client can take every status of RequestOTP and VerifyOTP but Internal at its word, for
\* any number of calls and whatever fails: OK, and the session is its own; refused, and
\* nothing was opened or left behind.
THEOREM StatusIsTrue == Spec => []StatusTellsOutcome
BY OutcomeInvariant, OutcomeSuffices, PTL
=============================================================================
