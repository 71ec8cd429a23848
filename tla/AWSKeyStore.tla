---------------------------- MODULE AWSKeyStore ----------------------------
(***************************************************************************)
(* The key store of one instance of the service                            *)
(* (adapter/aws_keystore.go): the cache of the public keys published in    *)
(* SSM, which concurrent calls of PublicKey refresh.  Each element of      *)
(* Lookups is one call.  A step is one critical section of mu or one SSM   *)
(* request; mu is never held across a request.  The private key is loaded  *)
(* by the constructor and never changes.                                   *)
(***************************************************************************)
EXTENDS Naturals

CONSTANTS
    KeyIDs,        \* key IDs, fabricated ones included
    FirstKeys,     \* the keys published when the service starts
    FirstKey,      \* the one that is current then
    Lookups,       \* calls of PublicKey
    None,          \* the absent value
    CacheTTL,      \* defaultCacheTTL
    KidCooldown,   \* defaultKidCooldown
    SSMFails,      \* whether a request to SSM may fail
    MaxTime        \* bound: the last tick of a behaviour

ASSUME KeyAssumption ==
    /\ FirstKeys \subseteq KeyIDs
    /\ FirstKey \in FirstKeys
    /\ None \notin KeyIDs \cup Nat

ASSUME CacheAssumption ==
    /\ CacheTTL \in Nat
    /\ KidCooldown \in Nat
    /\ SSMFails \in BOOLEAN
    /\ MaxTime \in Nat

VARIABLES
    now,                     \* the clock
    published,               \* the public keys in SSM
    current,                 \* current-key-id in SSM
    retired,                 \* history: the public keys removed from SSM
    publicKeys,              \* the cache,
    publicKeysLoadedAt,      \* when it was last replaced,
    lastUnknownKidRefresh,   \* and when it was last replaced for an unknown key ID
    lookup,                  \* per call: where it is, its argument and locals, its result
    missed,                  \* history: the keys in SSM that some response left out
    due                      \* history: per call, whether its key was in SSM when it began, and
                             \* then whether it has stored the key and no other call removed it

ssmVars     == <<published, current, retired>>
cacheVars   == <<publicKeys, publicKeysLoadedAt, lastUnknownKidRefresh>>
historyVars == <<missed, due>>
vars        == <<now, ssmVars, cacheVars, lookup, historyVars>>

Lookup == [pc      : {"idle", "load", "store", "reread", "cooldown", "done"},
           kid     : KeyIDs \cup {None},
           at      : Nat,                    \* the clock reading of the fast path
           cause   : {"expiry", "unknown"},  \* what the refresh is for: cache or key ID
           keys    : SUBSET KeyIDs,          \* what the refresh loaded
           result  : {"none", "ok", "unknown", "cooldown", "error"}]

NewLookup == [pc |-> "idle", kid |-> None, at |-> 0, cause |-> "expiry", keys |-> {},
              result |-> "none"]

KeyTypeOK ==
    /\ now \in Nat
    /\ published \in SUBSET KeyIDs
    /\ current \in KeyIDs
    /\ retired \in SUBSET KeyIDs
    /\ publicKeys \in SUBSET KeyIDs
    /\ publicKeysLoadedAt \in Nat
    /\ lastUnknownKidRefresh \in Nat \cup {None}
    /\ lookup \in [Lookups -> Lookup]
    /\ missed \in SUBSET KeyIDs
    /\ due \in [Lookups -> {"no", "yes", "stored"}]

\* One GetParametersByPath request: SSM returns a page of the keys, and a token for the next
\* page that the code does not look at.  A page may be short for other reasons than its size.
Pages == SUBSET published

\* NewAWSKeyStore has returned: both kinds of keys are loaded.
Init ==
    /\ now = 0
    /\ published = FirstKeys
    /\ current = FirstKey
    /\ retired = {}
    /\ publicKeys \in Pages
    /\ publicKeysLoadedAt = 0
    /\ lastUnknownKidRefresh = None
    /\ lookup = [l \in Lookups |-> NewLookup]
    /\ missed = published \ publicKeys
    /\ due = [l \in Lookups |-> "no"]

TimePasses ==
    /\ now < MaxTime
    /\ now' = now + 1
    /\ UNCHANGED <<ssmVars, cacheVars, lookup, historyVars>>

\* The operator makes another key current, publishing it first if it is new, or rolls
\* back to one that is still published.  A key ID is never used again.
Rotate(k) ==
    /\ k \notin retired \cup {current}
    /\ published' = published \cup {k}
    /\ current' = k
    /\ UNCHANGED <<now, retired, cacheVars, lookup, historyVars>>

\* The operator removes a public key that is no longer current.
Retire(k) ==
    /\ k \in published \ {current}
    /\ published' = published \ {k}
    /\ retired' = retired \cup {k}
    /\ UNCHANGED <<now, current, cacheVars, lookup, historyVars>>

LookupReturns(l, result) ==
    lookup' = [lookup EXCEPT ![l] =
                  [NewLookup EXCEPT !.pc = "done", !.kid = lookup[l].kid,
                                    !.result = result]]

\* Lines 160-176: the fast path, and where a call that needs a refresh goes.
LookUp(l, k) ==
    LET expired == now > publicKeysLoadedAt + CacheTTL
        arrived == [NewLookup EXCEPT !.kid = k, !.at = now]
    IN
    /\ lookup[l].pc = "idle"
    /\ \/ /\ ~expired /\ k \in publicKeys
          /\ lookup' = [lookup EXCEPT ![l] =
                            [NewLookup EXCEPT !.pc = "done", !.kid = k, !.result = "ok"]]
       \/ /\ ~expired /\ k \notin publicKeys
          /\ lookup' = [lookup EXCEPT ![l] = [arrived EXCEPT !.pc = "cooldown"]]
       \/ /\ expired
          /\ lookup' = [lookup EXCEPT ![l] = [arrived EXCEPT !.pc = "load"]]
    /\ due' = [due EXCEPT ![l] = IF k \in published THEN "yes" ELSE "no"]
    /\ UNCHANGED <<now, ssmVars, cacheVars, missed>>

\* Lines 188-196: the cooldown, measured to the clock reading of the fast path.
CheckCooldown(l) ==
    LET active == /\ lastUnknownKidRefresh # None
                  /\ lookup[l].at <= lastUnknownKidRefresh + KidCooldown
    IN
    /\ lookup[l].pc = "cooldown"
    /\ \/ active /\ LookupReturns(l, "cooldown")
       \/ ~active /\ lookup' = [lookup EXCEPT ![l] =
                         [@ EXCEPT !.pc = "load", !.cause = "unknown"]]
    /\ UNCHANGED <<now, ssmVars, cacheVars, historyVars>>

\* Mutant: a failed request counts as an SSM without keys.
LoadIgnoresError(l) ==
    /\ lookup[l].pc = "load"
    /\ \E page \in Pages :
        /\ missed' = missed \cup (IF SSMFails /\ page = {} THEN {} ELSE published \ page)
        /\ lookup' = [lookup EXCEPT ![l] = [@ EXCEPT !.pc = "store", !.keys = page]]
    /\ UNCHANGED <<now, ssmVars, cacheVars, due>>

\* loadPublicKeysFromSSM: the keys of one page, or an error that ends the call.
LoadPublicKeysFromSSM(l) ==
    /\ lookup[l].pc = "load"
    /\ \/ \E page \in Pages :
            /\ missed' = missed \cup (published \ page)
            /\ lookup' = [lookup EXCEPT ![l] = [@ EXCEPT !.pc = "store", !.keys = page]]
       \/ SSMFails /\ LookupReturns(l, "error") /\ UNCHANGED missed
    /\ UNCHANGED <<now, ssmVars, cacheVars, due>>

\* Mutant: what was loaded for an unknown key ID is only stored if the cache has expired.
RefreshIfExpired(l) ==
    LET expired == now > publicKeysLoadedAt + CacheTTL IN
    /\ lookup[l].pc = "store"
    /\ publicKeys' = IF expired THEN lookup[l].keys ELSE publicKeys
    /\ publicKeysLoadedAt' = now
    /\ lastUnknownKidRefresh' = IF lookup[l].cause = "unknown" THEN now ELSE lastUnknownKidRefresh
    /\ lookup' = [lookup EXCEPT ![l] = [@ EXCEPT !.pc = "reread", !.keys = {}]]
    /\ due' = [due EXCEPT ![l] = IF @ = "no" THEN @ ELSE "stored"]
    /\ UNCHANGED <<now, ssmVars, missed>>

\* Call l removes from the cache the key that call m, still under way, has stored.
Removes(l, m) ==
    /\ due[m] = "stored" /\ lookup[m].pc # "done"
    /\ lookup[m].kid \in publicKeys \ lookup[l].keys

\* refreshPublicKeys and refreshPublicKeysWithCooldown, under the lock: whatever was
\* loaded replaces the cache, with the time of now.
RefreshPublicKeys(l) ==
    /\ lookup[l].pc = "store"
    /\ publicKeys' = lookup[l].keys
    /\ publicKeysLoadedAt' = now
    /\ lastUnknownKidRefresh' = IF lookup[l].cause = "unknown" THEN now ELSE lastUnknownKidRefresh
    /\ lookup' = [lookup EXCEPT ![l] = [@ EXCEPT !.pc = "reread", !.keys = {}]]
    /\ due' = [m \in Lookups |->
                  IF m = l /\ due[m] # "no" THEN "stored"
                  ELSE IF Removes(l, m) THEN "yes" ELSE due[m]]
    /\ UNCHANGED <<now, ssmVars, missed>>

\* Mutant: a key that is still missing is loaded again.
RereadRetries(l) ==
    /\ lookup[l].pc = "reread"
    /\ \/ lookup[l].kid \in publicKeys /\ LookupReturns(l, "ok")
       \/ lookup[l].kid \notin publicKeys /\ lookup' = [lookup EXCEPT ![l].pc = "load"]
    /\ UNCHANGED <<now, ssmVars, cacheVars, historyVars>>

\* Lines 180-186 and 203-210: the cache is read again, by now perhaps replaced by
\* another call.
Reread(l) ==
    LET found == lookup[l].kid \in publicKeys IN
    /\ lookup[l].pc = "reread"
    /\ \/ found /\ LookupReturns(l, "ok")
       \/ /\ ~found /\ lookup[l].cause = "expiry"
          /\ lookup' = [lookup EXCEPT ![l].pc = "cooldown"]
       \/ ~found /\ lookup[l].cause = "unknown" /\ LookupReturns(l, "unknown")
    /\ UNCHANGED <<now, ssmVars, cacheVars, historyVars>>

LookupStep(l) ==
    \/ CheckCooldown(l)
    \/ LoadPublicKeysFromSSM(l)
    \/ RefreshPublicKeys(l)
    \/ Reread(l)

\* Nothing is left to look up.
Terminating == (\A l \in Lookups : lookup[l].pc = "done") /\ UNCHANGED vars

Next ==
    \/ TimePasses
    \/ \E k \in KeyIDs : Rotate(k)
    \/ \E k \in KeyIDs : Retire(k)
    \/ \E l \in Lookups, k \in KeyIDs : LookUp(l, k)
    \/ \E l \in Lookups : LookupStep(l)
    \/ Terminating

Spec == Init /\ [][Next]_vars

\* A call that has begun keeps running; an SSM request returns or fails.
FairSpec == Spec /\ \A l \in Lookups : WF_vars(LookupStep(l))

-----------------------------------------------------------------------------
(***************************************************************************)
(* Properties                                                              *)
(***************************************************************************)

\* The keys that SSM has held ever since the service started, and that it has never left
\* out of a response.
Established == FirstKeys \ (retired \cup missed)

\* SSM has held the key of a call ever since the call began, and has never left it out.
Available(l) == due[l] # "no" /\ lookup[l].kid \notin retired \cup missed

\* The call has also stored the key, and no other call has removed it from the cache.
Kept(l) == due[l] = "stored" /\ Available(l)

\* The inductive invariant behind the two properties below (PublicKey and its two
\* refreshes).  Established keys are in SSM, in the cache and in whatever a refresh has
\* loaded but not yet stored, so no call past its first read of the cache, other than
\* one that found the cache expired, is looking for one.  What a call has loaded holds
\* its own key if it was there when the call began, and from the refresh to the end of the
\* call the cache holds the key unless another call removes it.
KeyIInv ==
    /\ KeyTypeOK
    /\ Established \subseteq published
    /\ Established \subseteq publicKeys
    /\ \A l \in Lookups :
        /\ lookup[l].pc = "done" \/ lookup[l].result = "none"
        /\ lookup[l].pc = "store" => Established \subseteq lookup[l].keys
        /\ lookup[l].pc = "cooldown" \/ lookup[l].cause = "unknown" => lookup[l].kid \notin Established
        /\ lookup[l].result \in {"unknown", "cooldown"} => lookup[l].kid \notin Established
        /\ due[l] # "no" /\ lookup[l].kid \notin retired => lookup[l].kid \in published
        /\ lookup[l].pc = "store" /\ Available(l) => lookup[l].kid \in lookup[l].keys
        /\ lookup[l].pc # "done" /\ Kept(l) => lookup[l].kid \in publicKeys
        /\ lookup[l].pc = "cooldown" => ~Kept(l)
        /\ lookup[l].result \in {"unknown", "cooldown"} => ~Kept(l)

\* PublicKey turns away, as unknown or because of the cooldown, a key that has been
\* published since the service started only if a response of SSM left the key out:
\* loadPublicKeysFromSSM reads one page.  Nothing else makes the store lose it, however the
\* refreshes of concurrent calls interleave, fail and overtake each other.
EstablishedKeyAccepted ==
    \A l \in Lookups :
        lookup[l].result \in {"unknown", "cooldown"} => lookup[l].kid \notin Established

\* A call of PublicKey that has refreshed the cache and turns the key away all the same,
\* although SSM has held the key since before the call began, does so for one of two reasons:
\* a response of SSM left the key out, or another call stored keys that it had loaded
\* earlier between this call's refresh and its second read of the cache.
RefreshFindsKey ==
    \A l \in Lookups :
        lookup[l].result \in {"unknown", "cooldown"} => ~Kept(l)

\* Every call of PublicKey returns: at most two refreshes, and no wait for another call.
LookupsReturn ==
    \A l \in Lookups : (lookup[l].pc # "idle") ~> (lookup[l].pc = "done")
=============================================================================
