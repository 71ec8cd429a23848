---------------------------- MODULE OneTimeLogin ----------------------------
(***************************************************************************)
(* What RequestOTP and VerifyOTP promise together: a phone asks for a      *)
(* code, the code becomes the one pending code of that phone, and it is    *)
(* spent once, in one step that also opens a session of the phone's        *)
(* account, registering its user if there is none.  No stores, no calls in *)
(* flight, no retries.                                                     *)
(***************************************************************************)
CONSTANTS Phones, Codes, Logins, Users, None

VARIABLES
    requested,   \* the phone each code was requested for
    pending,     \* the code each phone can log in with
    user,        \* the user of each phone: none yet, or exactly one for good
    opened       \* the sessions opened so far: which code, on whose account

loginVars == <<requested, pending, user, opened>>

LoginInit ==
    /\ requested = [c \in Codes |-> None]
    /\ pending = [p \in Phones |-> None]
    /\ user = [p \in Phones |-> {}]
    /\ opened = {}

Request(c, p) ==
    /\ requested[c] = None
    /\ requested' = [requested EXCEPT ![c] = p]
    /\ UNCHANGED <<pending, user, opened>>

\* A code that was never spent becomes the pending one, in place of an older one.
Issue(c, p) ==
    /\ requested[c] = p
    /\ \A o \in opened : o.code # c
    /\ pending' = [pending EXCEPT ![p] = c]
    /\ UNCHANGED <<requested, user, opened>>

\* The pending code is given up.
Lapse(p) ==
    /\ pending' = [pending EXCEPT ![p] = None]
    /\ UNCHANGED <<requested, user, opened>>

\* The pending code is spent on a session of the account of its phone.
Spend(p, r) ==
    /\ pending[p] # None
    /\ pending' = [pending EXCEPT ![p] = None]
    /\ \A o \in opened : o.login # r
    /\ opened' = opened \cup {[code |-> pending[p], login |-> r, account |-> p]}
    /\ UNCHANGED requested

Register(p, r, u) ==
    /\ user[p] = {}
    /\ \A p2 \in Phones : u \notin user[p2]
    /\ user' = [user EXCEPT ![p] = {u}]
    /\ Spend(p, r)

Login(p, r) ==
    /\ user[p] # {}
    /\ Spend(p, r)
    /\ UNCHANGED user

LoginNext ==
    \/ \E c \in Codes, p \in Phones : Request(c, p) \/ Issue(c, p)
    \/ \E p \in Phones : Lapse(p)
    \/ \E p \in Phones, r \in Logins : Login(p, r) \/ \E u \in Users : Register(p, r, u)

LoginSpec == LoginInit /\ [][LoginNext]_loginVars
=============================================================================
