------------------------- MODULE AWSKeyStoreProofs -------------------------
(***************************************************************************)
(* For any keys, any number of concurrent calls of PublicKey, any TTL, any *)
(* cooldown and whatever part of the keys SSM returns: a key published     *)
(* since the service started is turned away only if a response left it     *)
(* out, and a call that refreshed the cache misses its key only for that   *)
(* reason or because another call stored older keys meanwhile.             *)
(***************************************************************************)
EXTENDS AWSKeyStore, TLAPS

\* The constructor leaves the store with the keys of one page in the cache.
LEMMA KeyInit == Init => KeyIInv
<1> SUFFICES ASSUME Init PROVE KeyIInv
    OBVIOUS
<1>1. NewLookup \in Lookup
    BY DEF NewLookup, Lookup
<1>2. KeyTypeOK
    BY <1>1, KeyAssumption DEF Init, KeyTypeOK, Pages
<1>3. \A l \in Lookups : lookup[l] = NewLookup /\ due[l] = "no"
    BY DEF Init
<1>4. Established \subseteq published /\ Established \subseteq publicKeys
    BY DEF Init, Established
<1> QED
    BY <1>2, <1>3, <1>4 DEF KeyIInv, NewLookup, Available, Kept

\* What a call of PublicKey must satisfy, given the established keys.
CallKept(c, established) ==
    /\ c.pc = "done" \/ c.result = "none"
    /\ c.pc = "store" => established \subseteq c.keys
    /\ c.pc = "cooldown" \/ c.cause = "unknown" => c.kid \notin established
    /\ c.result \in {"unknown", "cooldown"} => c.kid \notin established

\* What it must satisfy about its own key, where d is its element of due, and gone holds
\* the keys that were retired or left out of a response.
CallFinds(c, d, gone, cache) ==
    /\ c.pc = "store" /\ d # "no" /\ c.kid \notin gone => c.kid \in c.keys
    /\ c.pc # "done" /\ d = "stored" /\ c.kid \notin gone => c.kid \in cache
    /\ c.pc = "cooldown" => ~(d = "stored" /\ c.kid \notin gone)
    /\ c.result \in {"unknown", "cooldown"} => ~(d = "stored" /\ c.kid \notin gone)

\* The invariant in terms of one call.
LEMMA KeyIInvByCall ==
    KeyIInv <=> /\ KeyTypeOK
                /\ Established \subseteq published /\ Established \subseteq publicKeys
                /\ \A l \in Lookups :
                    /\ CallKept(lookup[l], Established)
                    /\ CallFinds(lookup[l], due[l], retired \cup missed, publicKeys)
                    /\ due[l] # "no" /\ lookup[l].kid \notin retired =>
                           lookup[l].kid \in published
    BY DEF KeyIInv, CallKept, CallFinds, Available, Kept

\* A step of one call of PublicKey that leaves SSM alone preserves the invariant if the
\* call's new locals and the new cache do, and if every other call whose key leaves the
\* cache is told so.
LEMMA OneCall ==
    ASSUME KeyIInv, NEW l \in Lookups, NEW c \in Lookup,
           lookup' = [lookup EXCEPT ![l] = c], CallKept(c, Established'),
           KeyTypeOK', missed \subseteq missed',
           Established' \subseteq publicKeys', UNCHANGED <<now, ssmVars>>,
           CallFinds(c, due'[l], retired \cup missed', publicKeys'),
           due'[l] # "no" /\ c.kid \notin retired => c.kid \in published,
           \A m \in Lookups \ {l} :
               \/ due'[m] = due[m] /\ (lookup[m].pc # "done" /\ due[m] = "stored"
                      /\ lookup[m].kid \in publicKeys => lookup[m].kid \in publicKeys')
               \/ due[m] = "stored" /\ due'[m] = "yes"
    PROVE  KeyIInv'
<1>1. Established' \subseteq Established /\ retired' = retired /\ published' = published
    BY DEF Established, ssmVars
<1>2. \A m \in Lookups : lookup'[m] = IF m = l THEN c ELSE lookup[m]
    BY DEF KeyIInv, KeyTypeOK
<1>3. ASSUME NEW m \in Lookups
      PROVE  /\ CallKept(lookup'[m], Established')
             /\ CallFinds(lookup'[m], due'[m], retired \cup missed', publicKeys')
             /\ due'[m] # "no" /\ lookup'[m].kid \notin retired => lookup'[m].kid \in published
  <2>1. CASE m = l
    BY <1>2, <2>1
  <2>2. CASE m # l
    <3>1. lookup'[m] = lookup[m]
      BY <1>2, <2>2
    <3>2. /\ CallKept(lookup[m], Established)
          /\ CallFinds(lookup[m], due[m], retired \cup missed, publicKeys)
          /\ due[m] # "no" /\ lookup[m].kid \notin retired => lookup[m].kid \in published
      BY KeyIInvByCall
    <3>3. CallKept(lookup[m], Established')
      BY <1>1, <3>2 DEF CallKept
    <3>4. CallFinds(lookup[m], due'[m], retired \cup missed', publicKeys')
      BY <2>2, <3>2 DEF CallFinds
    <3>5. due'[m] # "no" /\ lookup[m].kid \notin retired => lookup[m].kid \in published
      BY <2>2, <3>2
    <3> QED
      BY <3>1, <3>3, <3>4, <3>5
  <2> QED
    BY <2>1, <2>2
<1>4. Established' \subseteq published'
    BY <1>1 DEF KeyIInv
<1>5. /\ KeyTypeOK'
      /\ Established' \subseteq published' /\ Established' \subseteq publicKeys'
      /\ \A m \in Lookups :
          /\ CallKept(lookup'[m], Established')
          /\ CallFinds(lookup'[m], due'[m], retired' \cup missed', publicKeys')
          /\ due'[m] # "no" /\ lookup'[m].kid \notin retired' => lookup'[m].kid \in published'
    BY <1>1, <1>3, <1>4
<1> QED
    BY <1>5 DEF KeyIInv, CallKept, CallFinds, Available, Kept

\* SSM only ever loses keys that it retires, and time changes no key.
LEMMA EnvironmentKeeps ==
    ASSUME KeyIInv, TimePasses \/ \E k \in KeyIDs : Rotate(k) \/ Retire(k)
    PROVE  KeyIInv'
<1>1. CASE TimePasses
    BY <1>1 DEF TimePasses, KeyIInv, KeyTypeOK, Established, Available, Kept, ssmVars,
                cacheVars, historyVars
<1>2. ASSUME NEW k \in KeyIDs, Rotate(k)
      PROVE  KeyIInv'
    BY <1>2 DEF Rotate, KeyIInv, KeyTypeOK, Established, Available, Kept, cacheVars, historyVars
<1>3. ASSUME NEW k \in KeyIDs, Retire(k)
      PROVE  KeyIInv'
  <2>1. Established' \subseteq Established /\ k \notin Established'
    BY <1>3 DEF Retire, Established, historyVars
  <2>2. KeyTypeOK'
    BY <1>3 DEF Retire, KeyIInv, KeyTypeOK, cacheVars, historyVars
  <2>3. \A l \in Lookups : (Available(l)' => Available(l)) /\ (Kept(l)' => Kept(l))
    BY <1>3 DEF Retire, Available, Kept, historyVars
  <2>4. \A l \in Lookups : due'[l] # "no" /\ lookup'[l].kid \notin retired'
                               => lookup'[l].kid \in published'
    BY <1>3 DEF Retire, KeyIInv, historyVars
  <2> QED
    BY <1>3, <2>1, <2>2, <2>3, <2>4 DEF Retire, KeyIInv, cacheVars
<1> QED
    BY <1>1, <1>2, <1>3

\* Every step of PublicKey preserves the invariant.
LEMMA PublicKeyKeeps ==
    ASSUME KeyIInv, NEW l \in Lookups, (\E k \in KeyIDs : LookUp(l, k)) \/ LookupStep(l)
    PROVE  KeyIInv'
<1> DEFINE gone == retired \cup missed
<1>0. KeyTypeOK
    BY DEF KeyIInv
<1>1. /\ lookup[l] \in Lookup /\ CallKept(lookup[l], Established)
      /\ CallFinds(lookup[l], due[l], gone, publicKeys)
      /\ due[l] # "no" /\ lookup[l].kid \notin retired => lookup[l].kid \in published
      /\ now \in Nat /\ published \in SUBSET KeyIDs
      /\ publicKeys \in SUBSET KeyIDs /\ publicKeysLoadedAt \in Nat
      /\ lastUnknownKidRefresh \in Nat \cup {None}
      /\ Established \subseteq published /\ Established \subseteq publicKeys
    BY <1>0, KeyIInvByCall DEF KeyTypeOK
<1>2. ASSUME NEW k \in KeyIDs, LookUp(l, k)
      PROVE  KeyIInv'
  <2> DEFINE c == [NewLookup EXCEPT !.kid = k, !.at = now]
             found == [NewLookup EXCEPT !.pc = "done", !.kid = k, !.result = "ok"]
             missing == [c EXCEPT !.pc = "cooldown"]
             stale == [c EXCEPT !.pc = "load"]
  <2>1. found \in Lookup /\ missing \in Lookup /\ stale \in Lookup
    BY <1>1 DEF NewLookup, Lookup
  <2>2. CallKept(found, Established) /\ CallKept(stale, Established)
    BY DEF NewLookup, CallKept
  <2>3. k \notin publicKeys => CallKept(missing, Established)
    BY <1>1 DEF NewLookup, CallKept
  <2>4. UNCHANGED <<now, ssmVars, cacheVars, missed>> /\ Established' = Established
    BY <1>2 DEF LookUp, Established, ssmVars
  <2>5. \/ lookup' = [lookup EXCEPT ![l] = found]
        \/ lookup' = [lookup EXCEPT ![l] = missing] /\ k \notin publicKeys
        \/ lookup' = [lookup EXCEPT ![l] = stale]
    BY <1>2 DEF LookUp
  <2>6. /\ due' \in [Lookups -> {"no", "yes", "stored"}]
        /\ due'[l] # "stored" /\ (due'[l] # "no" => k \in published)
        /\ \A m \in Lookups \ {l} : due'[m] = due[m]
    BY <1>0, <1>2 DEF LookUp, KeyTypeOK
  <2>7. /\ CallFinds(found, due'[l], gone, publicKeys)
        /\ CallFinds(missing, due'[l], gone, publicKeys)
        /\ CallFinds(stale, due'[l], gone, publicKeys)
    BY <2>6 DEF NewLookup, CallFinds
  <2>8. found.kid = k /\ missing.kid = k /\ stale.kid = k
    BY DEF NewLookup
  <2> HIDE DEF found, missing, stale
  <2>9. KeyTypeOK'
    BY <1>0, <2>1, <2>4, <2>5, <2>6 DEF KeyTypeOK, ssmVars, cacheVars
  <2> QED
    BY <1>1, <2>1, <2>2, <2>3, <2>4, <2>5, <2>6, <2>7, <2>8, <2>9, OneCall DEF cacheVars
<1>3. CASE CheckCooldown(l)
  <2> DEFINE refused == [NewLookup EXCEPT !.pc = "done", !.kid = lookup[l].kid,
                                          !.result = "cooldown"]
             asking == [lookup[l] EXCEPT !.pc = "load", !.cause = "unknown"]
  <2>0. lookup[l].pc = "cooldown" /\ lookup[l].kid \notin Established
    BY <1>1, <1>3 DEF CheckCooldown, CallKept
  <2>1. refused \in Lookup /\ CallKept(refused, Established)
    BY <1>1, <2>0 DEF NewLookup, Lookup, CallKept
  <2>2. asking \in Lookup /\ CallKept(asking, Established)
    BY <1>1, <2>0 DEF Lookup, CallKept
  <2>3. lookup' = [lookup EXCEPT ![l] = refused] \/ lookup' = [lookup EXCEPT ![l] = asking]
    BY <1>3 DEF CheckCooldown, LookupReturns
  <2>4. UNCHANGED <<now, ssmVars, cacheVars, historyVars>> /\ Established' = Established
    BY <1>3 DEF CheckCooldown, Established, ssmVars, historyVars
  <2>5. CallFinds(refused, due[l], gone, publicKeys)
    BY <1>1, <2>0 DEF NewLookup, Lookup, CallFinds
  <2>6. CallFinds(asking, due[l], gone, publicKeys)
    BY <1>1, <2>0 DEF Lookup, CallFinds
  <2>7. refused.kid = lookup[l].kid /\ asking.kid = lookup[l].kid
    BY <1>1 DEF NewLookup, Lookup
  <2> HIDE DEF refused, asking
  <2>8. KeyTypeOK'
    BY <1>0, <2>1, <2>2, <2>3, <2>4 DEF KeyTypeOK, ssmVars, cacheVars, historyVars
  <2> QED
    BY <1>1, <2>1, <2>2, <2>3, <2>4, <2>5, <2>6, <2>7, <2>8, OneCall DEF cacheVars, historyVars
<1>4. CASE LoadPublicKeysFromSSM(l)
  <2>0. UNCHANGED <<now, ssmVars, cacheVars, due>> /\ lookup[l].pc = "load"
    BY <1>4 DEF LoadPublicKeysFromSSM
  <2>1. ASSUME NEW page \in SUBSET published, missed' = missed \cup (published \ page),
               lookup' = [lookup EXCEPT ![l] = [lookup[l] EXCEPT !.pc = "store", !.keys = page]]
        PROVE  KeyIInv'
    <3> DEFINE loaded == [lookup[l] EXCEPT !.pc = "store", !.keys = page]
    <3>1. loaded \in Lookup /\ loaded.kid = lookup[l].kid
      BY <1>1 DEF Lookup
    <3>2. Established' \subseteq Established /\ Established' \subseteq page
      BY <1>1, <2>0, <2>1 DEF Established, ssmVars
    <3>3. CallKept(loaded, Established')
      BY <1>1, <2>0, <3>2 DEF Lookup, CallKept
    <3>4. CallFinds(loaded, due[l], retired \cup missed', publicKeys)
      BY <1>1, <2>0, <2>1 DEF Lookup, CallFinds
    <3> HIDE DEF loaded
    <3>5. lookup' = [lookup EXCEPT ![l] = loaded]
      BY <2>1 DEF loaded
    <3>6. missed' \in SUBSET KeyIDs /\ missed \subseteq missed'
      BY <1>0, <1>1, <2>1 DEF KeyTypeOK
    <3>7. KeyTypeOK'
      BY <1>0, <2>0, <3>1, <3>5, <3>6 DEF KeyTypeOK, ssmVars, cacheVars
    <3> QED
      BY <1>1, <2>0, <3>1, <3>2, <3>3, <3>4, <3>5, <3>6, <3>7, OneCall DEF cacheVars
  <2>2. ASSUME LookupReturns(l, "error"), UNCHANGED missed
        PROVE  KeyIInv'
    <3> DEFINE failed == [NewLookup EXCEPT !.pc = "done", !.kid = lookup[l].kid,
                                           !.result = "error"]
    <3>1. failed \in Lookup /\ failed.kid = lookup[l].kid
      BY <1>1 DEF NewLookup, Lookup
    <3>2. Established' = Established
      BY <2>0, <2>2 DEF Established, ssmVars
    <3>3. CallKept(failed, Established) /\ CallFinds(failed, due[l], gone, publicKeys)
      BY DEF NewLookup, CallKept, CallFinds
    <3>4. lookup' = [lookup EXCEPT ![l] = failed]
      BY <2>2 DEF LookupReturns
    <3> HIDE DEF failed
    <3>5. KeyTypeOK'
      BY <1>0, <2>0, <2>2, <3>1, <3>4 DEF KeyTypeOK, ssmVars, cacheVars
    <3> QED
      BY <1>1, <2>0, <2>2, <3>1, <3>2, <3>3, <3>4, <3>5, OneCall DEF cacheVars
  <2> QED
    BY <1>4, <2>1, <2>2 DEF LoadPublicKeysFromSSM, Pages
<1>5. CASE RefreshPublicKeys(l)
  <2> DEFINE c == [lookup[l] EXCEPT !.pc = "reread", !.keys = {}]
  <2>1. c \in Lookup /\ CallKept(c, Established) /\ c.kid = lookup[l].kid
    BY <1>1, <1>5 DEF RefreshPublicKeys, Lookup, CallKept
  <2>2. /\ lookup[l].pc = "store" /\ publicKeys' = lookup[l].keys
        /\ UNCHANGED <<now, ssmVars, missed>>
        /\ due' = [m \in Lookups |->
                      IF m = l /\ due[m] # "no" THEN "stored"
                      ELSE IF Removes(l, m) THEN "yes" ELSE due[m]]
    BY <1>5 DEF RefreshPublicKeys
  <2>3. /\ publicKeys' \in SUBSET KeyIDs /\ Established \subseteq publicKeys'
        /\ publicKeysLoadedAt' \in Nat /\ lastUnknownKidRefresh' \in Nat \cup {None}
    BY <1>1, <1>5 DEF RefreshPublicKeys, Lookup, CallKept
  <2>4. lookup' = [lookup EXCEPT ![l] = c]
    BY <1>5 DEF RefreshPublicKeys
  <2>5. /\ due' \in [Lookups -> {"no", "yes", "stored"}]
        /\ due'[l] # "no" => due[l] # "no"
    BY <1>0, <2>2 DEF KeyTypeOK, Removes
  <2>6. \A m \in Lookups \ {l} :
            \/ due'[m] = due[m] /\ (lookup[m].pc # "done" /\ due[m] = "stored"
                   /\ lookup[m].kid \in publicKeys => lookup[m].kid \in publicKeys')
            \/ due[m] = "stored" /\ due'[m] = "yes"
    BY <2>2 DEF Removes
  <2>7. CallFinds(c, due'[l], gone, publicKeys')
    <3>1. c.pc = "reread" /\ c.result = "none"
      BY <1>1, <2>2 DEF Lookup, CallKept
    <3>2. due[l] # "no" /\ lookup[l].kid \notin gone => lookup[l].kid \in publicKeys'
      BY <1>1, <2>2 DEF CallFinds
    <3> QED
      BY <2>1, <2>5, <3>1, <3>2 DEF CallFinds
  <2> HIDE DEF c
  <2>8. KeyTypeOK' /\ Established' = Established
    BY <1>0, <2>1, <2>2, <2>3, <2>4, <2>5 DEF KeyTypeOK, Established, ssmVars
  <2> QED
    BY <1>1, <2>1, <2>2, <2>3, <2>4, <2>5, <2>6, <2>7, <2>8, OneCall
<1>6. CASE Reread(l)
  <2> DEFINE returned(r) == [NewLookup EXCEPT !.pc = "done", !.kid = lookup[l].kid, !.result = r]
             missing == [lookup[l] EXCEPT !.pc = "cooldown"]
  <2>0. lookup[l].pc = "reread"
    BY <1>6 DEF Reread
  <2>1. returned("ok") \in Lookup /\ CallKept(returned("ok"), Established)
    BY <1>1 DEF NewLookup, Lookup, CallKept
  <2>2. missing \in Lookup
        /\ (lookup[l].kid \notin publicKeys => CallKept(missing, Established))
    BY <1>1, <2>0 DEF Lookup, CallKept
  <2>3. returned("unknown") \in Lookup
        /\ (lookup[l].kid \notin publicKeys => CallKept(returned("unknown"), Established))
    BY <1>1 DEF NewLookup, Lookup, CallKept
  <2>4. \/ lookup' = [lookup EXCEPT ![l] = returned("ok")]
        \/ lookup' = [lookup EXCEPT ![l] = missing] /\ lookup[l].kid \notin publicKeys
        \/ /\ lookup' = [lookup EXCEPT ![l] = returned("unknown")]
           /\ lookup[l].kid \notin publicKeys
    BY <1>6 DEF Reread, LookupReturns
  <2>5. UNCHANGED <<now, ssmVars, cacheVars, historyVars>> /\ Established' = Established
    BY <1>6 DEF Reread, Established, ssmVars, historyVars
  <2>6. /\ CallFinds(returned("ok"), due[l], gone, publicKeys)
        /\ lookup[l].kid \notin publicKeys =>
               CallFinds(returned("unknown"), due[l], gone, publicKeys)
    BY <1>1, <2>0 DEF NewLookup, Lookup, CallFinds
  <2>7. lookup[l].kid \notin publicKeys => CallFinds(missing, due[l], gone, publicKeys)
    BY <1>1, <2>0 DEF Lookup, CallFinds
  <2>8. /\ returned("ok").kid = lookup[l].kid /\ returned("unknown").kid = lookup[l].kid
        /\ missing.kid = lookup[l].kid
    BY <1>1 DEF NewLookup, Lookup
  <2> HIDE DEF returned, missing
  <2>9. KeyTypeOK'
    BY <1>0, <2>1, <2>2, <2>3, <2>4, <2>5 DEF KeyTypeOK, ssmVars, cacheVars, historyVars
  <2> QED
    BY <1>1, <2>1, <2>2, <2>3, <2>4, <2>5, <2>6, <2>7, <2>8, <2>9, OneCall
        DEF cacheVars, historyVars
<1> QED
    BY <1>2, <1>3, <1>4, <1>5, <1>6 DEF LookupStep

\* KeyIInv is an invariant of the key store: established keys are in SSM, in the cache
\* and in every refresh that PublicKey has under way.
THEOREM KeyStoreInvariant == Spec => []KeyIInv
<1>1. KeyIInv /\ [Next]_vars => KeyIInv'
  <2> SUFFICES ASSUME KeyIInv, [Next]_vars PROVE KeyIInv'
    OBVIOUS
  <2>1. ASSUME UNCHANGED vars PROVE KeyIInv'
    BY <2>1 DEF vars, ssmVars, cacheVars, historyVars, KeyIInv, KeyTypeOK, Established,
                Available, Kept
  <2>2. CASE Terminating
    BY <2>1, <2>2 DEF Terminating
  <2> QED
    BY <2>1, <2>2, EnvironmentKeeps, PublicKeyKeeps DEF Next
<1> QED
    BY <1>1, KeyInit, PTL DEF Spec

\* PublicKey turns away a key that has been published since the service started only if a
\* response of SSM left it out, for any number of concurrent calls, any rotations and
\* retirements, any failures of SSM and any part of the keys in a response.
THEOREM EstablishedKeys == Spec => []EstablishedKeyAccepted
<1>1. KeyIInv => EstablishedKeyAccepted
    BY DEF KeyIInv, EstablishedKeyAccepted
<1> QED
    BY <1>1, KeyStoreInvariant, PTL

\* A call of PublicKey that has refreshed the cache misses a key that was in SSM before the
\* call began only if a response of SSM left the key out, or another call's refresh took it
\* out of the cache between the call's own refresh and its second read.
THEOREM RefreshedKeys == Spec => []RefreshFindsKey
<1>1. KeyIInv => RefreshFindsKey
    BY DEF KeyIInv, RefreshFindsKey
<1> QED
    BY <1>1, KeyStoreInvariant, PTL
=============================================================================
