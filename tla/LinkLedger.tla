----------------------------- MODULE LinkLedger -----------------------------
(***************************************************************************)
(* What passwords and mailed links promise: the life of a link and what    *)
(* may set a password, without validators, handlers, saves or failures.    *)
(*                                                                         *)
(* A link is mailed for one account, then stored, then followed, and goes  *)
(* with its account.  Whoever follows a stored link that is not spent may  *)
(* spend it, for its account and once; others may spend the same link only *)
(* if they have followed it by then.  A password is set by one request     *)
(* only: by a link for that account, or by a request that has none.        *)
(***************************************************************************)
CONSTANTS
  Request,     \* requests; a link is named by the one that made it
  User

VARIABLES
  owner,       \* the account of each link that was mailed
  stored,      \* links that can be followed to an end
  spent,       \* those of them that have been
  link,        \* the link of each request that has followed one
  done,        \* requests that have had their effect
  password     \* the request that set the password of each account, or "old"

vars == <<owner, stored, spent, link, done, password>>

Init ==
  /\ owner = [t \in {} |-> t]
  /\ stored = {} /\ spent = {} /\ done = {}
  /\ link = [r \in {} |-> r]
  /\ password = [u \in User |-> "old"]

\* A request that has done nothing yet.
New(r) == r \notin done /\ r \notin DOMAIN owner /\ r \notin DOMAIN link

Mail(t, u) ==
  /\ New(t)
  /\ owner' = [x \in DOMAIN owner \union {t} |-> IF x = t THEN u ELSE owner[x]]
  /\ UNCHANGED <<stored, spent, link, done, password>>

Store(t) ==
  /\ t \notin done
  /\ t \in DOMAIN owner
  /\ stored' = stored \union {t}
  /\ done' = done \union {t}
  /\ UNCHANGED <<owner, spent, link, password>>

Follow(r, t) ==
  /\ t \in stored \ spent
  /\ New(r)
  /\ link' = [x \in DOMAIN link \union {r} |-> IF x = r THEN t ELSE link[x]]
  /\ UNCHANGED <<owner, stored, spent, done, password>>

Forget(r) == link' = [x \in DOMAIN link \ {r} |-> link[x]]

\* Refused after all, or failed.
GiveUp(r) ==
  /\ r \in DOMAIN link
  /\ Forget(r)
  /\ UNCHANGED <<owner, stored, spent, done, password>>

\* A password is set, or a session opened.
Serve(r, u) ==
  /\ done' = done \union {r}
  /\ password' \in {password, [password EXCEPT ![u] = r]}

Spend(r) ==
  /\ r \notin done
  /\ r \in DOMAIN link /\ link[r] \in stored
  /\ spent' = spent \union {link[r]}
  /\ Serve(r, owner[link[r]])
  /\ Forget(r)
  /\ UNCHANGED <<owner, stored>>

WithoutLink(r, u) ==
  /\ New(r)
  /\ Serve(r, u)
  /\ UNCHANGED <<owner, stored, spent, link>>

DeleteAccount(u) ==
  /\ stored' = {t \in stored : owner[t] # u}
  /\ spent' = spent \intersect stored'
  /\ UNCHANGED <<owner, link, done, password>>

Next ==
  \/ \E r \in Request :
       \/ Store(r) \/ GiveUp(r) \/ Spend(r)
       \/ \E u \in User : Mail(r, u) \/ WithoutLink(r, u)
       \/ \E t \in Request : Follow(r, t)
  \/ \E u \in User : DeleteAccount(u)

Spec == Init /\ [][Next]_vars
=============================================================================
