----------------------------- MODULE MCAccounts -----------------------------
(* Small instances of Accounts.                                            *)
EXTENDS Accounts, TLC

CONSTANTS r1, r2, alice, bob, super, plain

\* What a run sends: everything but the commands about keys; those, and what
\* makes and unmakes administrators.
AboutAccounts == Kind \ KeyKind
AboutKeys == KeyKind \union ByAddress \union {"removeAdminAccess", "deleteAdmin"}

RequestSymmetry == Permutations({r1, r2})

\* Requests that overlap are about one account if one of them edits an administrator
\* or both of them make accounts: on different accounts neither could see the other.
RequestsMeet ==
  \A q, r \in Request :
    LET kinds == {kind[q], kind[r]}
    IN  (kinds \subseteq ById \union ByAddress /\ "editAdmin" \in kinds)
          \/ kinds \subseteq ByAddress
        => user[q] = user[r]
=============================================================================
