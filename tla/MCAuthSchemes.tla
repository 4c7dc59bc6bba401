---------------------------- MODULE MCAuthSchemes ----------------------------
(* Small instances of AuthSchemes.                                         *)
EXTENDS AuthSchemes, TLC

CONSTANTS r1, r2, email, magic, sso1, sso2

RequestSymmetry == Permutations({r1, r2})
=============================================================================
