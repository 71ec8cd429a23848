-------------------------- MODULE LoginRefinement --------------------------
(***************************************************************************)
(* AuthService implements OneTimeLogin: the refinement mapping, and the    *)
(* invariant that says why it is one.                                      *)
(***************************************************************************)
EXTENDS AuthService

\* The account a user row belongs to; the row that reserves a phone belongs to the
\* account of that phone (see SessionsBelongToUsers for the sessions it gets).
AccountOf(u) == CHOOSE p \in Phones : [user_id |-> u, phone_number |-> p] \in users

Abstract == INSTANCE OneTimeLogin WITH
    Codes     <- OTPRequests,
    Logins    <- Verifications,
    Users     <- UserIDs,
    requested <- [q \in OTPRequests |-> req[q].phone],
    pending   <- [p \in Phones |-> IF otp[p].status = "pending" THEN otp[p].mac ELSE None],
    user      <- [p \in Phones |-> {row.user_id : row \in
                     {x \in RegisteredUsers : x.phone_number = p}}],
    opened    <- {[code |-> c.otp, login |-> c.session, account |-> AccountOf(c.user)] :
                     c \in commits}

\* RequestOTP and VerifyOTP implement OneTimeLogin: every step of every interleaving of
\* their calls, with store requests that fail, are repeated or read a lagging index, is
\* one of the abstract steps or changes none of the abstract state.
ImplementsOneTimeLogin == Abstract!LoginSpec

\* Why every step maps to one: a call of RequestOTP has a phone once it was accepted; a
\* user_id has one row, so an account stays the account it was; the row that reserves a
\* phone comes with its user; and a call of VerifyOTP whose transaction was executed has
\* returned, so it opens no second session.
LoginInv ==
    /\ \A q \in OTPRequests :
            /\ req[q].pc = "idle" => req[q].phone = None
            /\ req[q].pc \notin {"idle", "done"} => req[q].phone \in Phones
    /\ \A a, b \in users : a.user_id = b.user_id => a = b
    /\ \A row \in users : \E reg \in RegisteredUsers : reg.phone_number = row.phone_number
    /\ \A c \in commits : ver[c.session].pc = "done"
=============================================================================
