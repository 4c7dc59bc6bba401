--------------------------- MODULE MCOneTimeTokens ---------------------------
(* Small instances of OneTimeTokens.                                       *)
EXTENDS OneTimeTokens, TLC

CONSTANTS r1, r2, r3, alice, bob

\* Requests and tokens are interchangeable.
RequestSymmetry == Permutations({r1, r2, r3})

\* Edits that matter: of schemes for the side an account is on, and one thing of the
\* background at a time: a scheme or account switched off, an account deleted, a
\* token expired.  One password is reset by an administrator, and one signs in.
EditsMatter ==
  /\ Scheme \X ({"admins", "users"} \ {Side(u) : u \in User}) \subseteq enabled
  /\ Cardinality(Scheme \X {"admins", "users"} \ enabled) + Cardinality(User \ active)
       + Cardinality(expired) <= 1
  /\ Cardinality({r \in Request : kind[r] \in ResetKind}) <= 1
  /\ Cardinality({r \in Request : kind[r] = "login"}) <= 1
=============================================================================
