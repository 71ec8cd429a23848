--------------------------- MODULE MCAuthService ---------------------------
(***************************************************************************)
(* Small instances of AuthService.                                         *)
(***************************************************************************)
EXTENDS AuthHandler, LoginRefinement, TLC

CallSymmetry == Permutations(OTPRequests) \cup Permutations(Verifications)
=============================================================================
