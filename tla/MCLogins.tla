------------------------------ MODULE MCLogins ------------------------------
(***************************************************************************)
(* Logins to the account of MCLogin, with the sessions they overlook.  The *)
(* OTP q2 is there to be used, and the index shows no session yet.         *)
(***************************************************************************)
EXTENDS MCLogin, SessionCount

CountLoginInit == Account({r1}) /\ sessionIndex = {} /\ overlooked = {}
CountLoginSpec == CountLoginInit /\ [][CountNext]_countVars

LaterCallSymmetry ==
    UNION {Permutations(S) : S \in {OTPRequests \ {q1, q2}, Verifications \ {r1}}}
=============================================================================
