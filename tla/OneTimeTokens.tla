---------------------------- MODULE OneTimeTokens ----------------------------
(***************************************************************************)
(* The commands on passwords and links.  "Forgot password" and the magic   *)
(* link are rows of the OneTimePasswords table that a Begin command makes  *)
(* and mails, and that a Complete command consumes.  A password opens a    *)
(* session, is changed by its owner and is reset by administrators.        *)
(*                                                                         *)
(* Every command runs through the request pipeline: the validator reads    *)
(* the database and may refuse; the handler changes the entities its       *)
(* request-scoped DbContext tracks; SaveChangesAsync first publishes the   *)
(* domain events (their handlers render and send the e-mail) and then      *)
(* commits; AuditBehavior adds the audit log in a second save; only then   *)
(* is the request answered.  Requests run concurrently and nothing is      *)
(* locked: between two steps of one, the others may take theirs.           *)
(*                                                                         *)
(* A token is named by the Begin request that made it.  A request with a   *)
(* malformed field is refused by its validator and changes nothing: such   *)
(* requests are left out.  Requests come without a session, and the        *)
(* DbContext tracks no account but those the commands read, except that    *)
(* ChangePassword and ResetPassword are sent from the administrators'      *)
(* pages: ValidatePrincipal has loaded the sender's account before.        *)
(***************************************************************************)
EXTENDS Integers, FiniteSets

CONSTANTS
  Request,     \* HTTP requests, each used once
  User,        \* accounts
  Admin,       \* those of them with IsAdmin
  Faults,      \* the kinds of failure a run admits
  NoUser, NoToken

\* "mail":  the SMTP server refuses a message
\* "save":  a save throws and nothing of it is committed
\* "reply": a save is committed and throws all the same (its reply is lost)
FaultKind == {"mail", "save", "reply"}

ASSUME TokenAssumption ==
  /\ Admin \subseteq User
  /\ Faults \subseteq FaultKind
  /\ NoUser \notin User
  /\ NoToken \notin Request

VARIABLES
  \* the database
  users,       \* the rows of Users
  active,      \* those with IsActive
  lastScheme,  \* AuthenticationSchemeId: the scheme of the account's last login
  password,    \* the request that set the password, or "old"
  enabled,     \* <<scheme, side>>: IsEnabledForAdmins, IsEnabledForUsers
  tokens,      \* the rows of OneTimePasswords
  used,        \* those with IsUsed
  expired,     \* tokens whose ExpiresAt has passed
  audit,       \* requests with a row in AuditLogs
  \* the mailboxes
  mailed,      \* tokens whose link was sent
  announced,   \* requests whose "you have recovered your password" was sent
  \* the requests
  pc,          \* where a request is in the pipeline
  kind,        \* its command
  user,        \* the account it is about
  token,       \* the token it completes
  seenScheme,  \* the AuthenticationSchemeId its DbContext read
  seenPassword,  \* the password its DbContext read
  given,       \* the password it comes with
  \* history
  committed,   \* requests whose handler's save was committed
  late,        \* requests that came with a token or a password of the past
  overtaken    \* changes of a password during which another replaced it

accountVars == <<users, active, lastScheme, password, enabled>>
tokenVars == <<tokens, used, expired>>
mailVars == <<mailed, announced>>
formVars == <<kind, user, token, seenScheme, seenPassword, given>>
historyVars == <<committed, late, overtaken>>
vars == <<accountVars, tokenVars, audit, mailVars, pc, formVars, historyVars>>

BeginKind == {"beginForgotPassword", "beginMagicLink"}
CompleteKind == {"completeForgotPassword", "completeMagicLink"}
ResetKind == {"resetPassword", "resetSilently"}   \* with and without SendEmail
Kind == BeginKind \union CompleteKind \union ResetKind \union {"login", "changePassword"}

\* The commands that set a password, and those of them that say so by e-mail.
NoticeKind == {"completeForgotPassword", "changePassword", "resetPassword"}
PasswordKind == NoticeKind \union {"resetSilently"}

\* The built-in schemes; "sso" stands for every JWT and SAML scheme.
Scheme == {"email_and_password", "magic_link"}
LastScheme == Scheme \union {"sso", "none"}

\* The scheme a command is governed by.
SchemeOf(k) ==
  IF k \in {"beginMagicLink", "completeMagicLink"} THEN "magic_link" ELSE "email_and_password"

Side(u) == IF u \in Admin THEN "admins" ELSE "users"

\* The completions of token t whose save was committed.
Consumers(t) == {r \in committed : kind[r] \in CompleteKind /\ token[r] = t}

\* The passwords the account has had.
Passwords(u) == {"old"} \union {r \in committed : kind[r] \in PasswordKind /\ user[r] = u}

-----------------------------------------------------------------------------
\* Accounts last signed in by any scheme or, like the one the setup makes, by
\* none.  A built-in magic link login leaves "email_and_password" behind.
\* The magic link, which the setup leaves off, has been enabled.
Init ==
  /\ users = User
  /\ active = User
  /\ lastScheme \in [User -> {"email_and_password", "sso", "none"}]
  /\ password = [u \in User |-> "old"]
  /\ enabled = Scheme \X {"admins", "users"}
  /\ tokens = {} /\ used = {} /\ expired = {}
  /\ audit = {}
  /\ mailed = {} /\ announced = {}
  /\ pc = [r \in Request |-> "idle"]
  /\ kind = [r \in Request |-> "none"]
  /\ user = [r \in Request |-> NoUser]
  /\ token = [r \in Request |-> NoToken]
  /\ seenScheme = [r \in Request |-> "none"]
  /\ seenPassword = [r \in Request |-> "old"]
  /\ given = [r \in Request |-> "old"]
  /\ committed = {} /\ late = {} /\ overtaken = {}

-----------------------------------------------------------------------------
(* The validators.                                                         *)

\* The account exists and is active, and the scheme is enabled for its side.
Allowed(k, u) == u \in users /\ u \in active /\ <<SchemeOf(k), Side(u)>> \in enabled

\* A request comes, and gets to stage having read the account u.
Accept(r, k, u, t, stage) ==
  /\ pc[r] = "idle"
  /\ pc' = [pc EXCEPT ![r] = stage]
  /\ kind' = [kind EXCEPT ![r] = k]
  /\ user' = [user EXCEPT ![r] = u]
  /\ token' = [token EXCEPT ![r] = t]
  /\ seenScheme' = [seenScheme EXCEPT ![r] = lastScheme[u]]
  /\ UNCHANGED <<accountVars, tokenVars, audit, mailVars, given, committed, overtaken>>

Verdict(ok) == IF ok THEN "handling" ELSE "refused"

\* Somebody asks for a link for the e-mail address of u.
ValidateBegin(r, k, u) ==
  /\ Accept(r, k, u, NoToken, Verdict(Allowed(k, u)))
  /\ UNCHANGED <<seenPassword, late>>

\* (mutant of Redeemable: IsUsed is not looked at)
RedeemableAgain(k, t) == t \in tokens /\ t \notin expired /\ Allowed(k, user[t])

Redeemable(k, t) ==
  t \in tokens /\ t \notin used /\ t \notin expired /\ Allowed(k, user[t])

\* Somebody follows a link that was mailed.  The table does not tell the two
\* sorts of token apart.
ValidateComplete(r, k, t) ==
  /\ t \in mailed
  /\ Accept(r, k, user[t], t, Verdict(Redeemable(k, t)))
  /\ late' = IF Consumers(t) = {} THEN late ELSE late \union {r}
  /\ UNCHANGED seenPassword

\* Somebody signs in with a password the account has, or has had.
ValidateLogin(r, u, p) ==
  /\ p \in Passwords(u)
  /\ Accept(r, "login", u, NoToken, Verdict(Allowed("login", u) /\ p = password[u]))
  /\ late' = IF p = password[u] THEN late ELSE late \union {r}
  /\ UNCHANGED seenPassword

\* Another administrator resets the password of u.  The page of administrators
\* and that of users look for the account on their side only; an account that
\* is not found is an exception.
ValidateReset(r, k, u) ==
  /\ Accept(r, k, u, NoToken,
            IF u \in users \/ <<SchemeOf(k), Side(u)>> \notin enabled
            THEN Verdict(Allowed(k, u)) ELSE "threw")
  /\ UNCHANGED <<seenPassword, late>>

\* An administrator's request to change his own password: the cookie is checked
\* against the account, which the DbContext tracks from then on.
Authenticate(r, u) ==
  /\ u \in Admin \intersect users \intersect active
  /\ lastScheme[u] # "none"
  /\ Accept(r, "changePassword", u, NoToken, "authenticated")
  /\ seenPassword' = [seenPassword EXCEPT ![r] = password[u]]
  /\ UNCHANGED late

\* (mutant of ValidateChange: the current password is not compared)
ValidateChangeUnread(r, p) ==
  /\ pc[r] = "authenticated"
  /\ p \in Passwords(user[r])
  /\ LET on == <<SchemeOf(kind[r]), Side(user[r])>> \in enabled
     IN  pc' = [pc EXCEPT ![r] = IF on /\ user[r] \notin users THEN "threw" ELSE Verdict(on)]
  /\ given' = [given EXCEPT ![r] = p]
  /\ late' = IF p = seenPassword[r] THEN late ELSE late \union {r}
  /\ UNCHANGED <<accountVars, tokenVars, audit, mailVars, kind, user, token, seenScheme,
                 seenPassword, committed, overtaken>>

\* The page and the validator look at the scheme.  The account must still be
\* there, but IsActive and the password are those read at authentication.
ValidateChange(r, p) ==
  /\ pc[r] = "authenticated"
  /\ p \in Passwords(user[r])
  /\ LET on == <<SchemeOf(kind[r]), Side(user[r])>> \in enabled
     IN  pc' = [pc EXCEPT ![r] = IF on /\ user[r] \notin users THEN "threw"
                                 ELSE Verdict(on /\ p = seenPassword[r])]
  /\ given' = [given EXCEPT ![r] = p]
  /\ late' = IF p = seenPassword[r] THEN late ELSE late \union {r}
  /\ UNCHANGED <<accountVars, tokenVars, audit, mailVars, kind, user, token, seenScheme,
                 seenPassword, committed, overtaken>>

-----------------------------------------------------------------------------
(* The handlers and the save.                                              *)

\* The rows the handler reads again, and its save writes to, still exist.
RowsExist(r) ==
  /\ user[r] \in users
  /\ kind[r] \in CompleteKind => token[r] \in tokens

\* The event handler takes the DeveloperName of the account's scheme.  In the
\* BeginForgotPassword handler the navigation is set only if the context tracks
\* that scheme, and the one it tracks is the e-mail scheme; the users' reset
\* tracks its sender's scheme as well, which may be the account's; the others
\* include the account's scheme, which may be null; the magic link's event
\* handler allows for null, and a login has no event.
CanRender(r) ==
  CASE kind[r] = "beginForgotPassword" -> seenScheme[r] = "email_and_password"
    [] kind[r] \in NoticeKind -> seenScheme[r] # "none"
    [] OTHER -> TRUE

MayNotRender(r) ==
  \/ ~CanRender(r)
  \/ kind[r] = "resetPassword" /\ Side(user[r]) = "users" /\ seenScheme[r] = "sso"

\* (mutants of Handle: no event is published before the save; the handler of the
\* completion adds no event)
HandleUnmailed(r) ==
  /\ pc[r] = "handling"
  /\ RowsExist(r)
  /\ CanRender(r)
  /\ pc' = [pc EXCEPT ![r] = "saving"]
  /\ UNCHANGED <<accountVars, tokenVars, audit, mailVars, formVars, historyVars>>

HandleUnannounced(r) ==
  /\ pc[r] = "handling"
  /\ RowsExist(r)
  /\ CanRender(r)
  /\ mailed' = IF kind[r] \in BeginKind THEN mailed \union {r} ELSE mailed
  /\ pc' = [pc EXCEPT ![r] = "saving"]
  /\ UNCHANGED <<accountVars, tokenVars, audit, announced, formVars, historyVars>>

\* The handler fills in its entities and calls SaveChangesAsync, which first
\* publishes the event: the e-mail is on its way before anything is committed.
Handle(r) ==
  /\ pc[r] = "handling"
  /\ RowsExist(r)
  /\ CanRender(r)
  /\ mailed' = IF kind[r] \in BeginKind THEN mailed \union {r} ELSE mailed
  /\ announced' = IF kind[r] \in NoticeKind THEN announced \union {r} ELSE announced
  /\ pc' = [pc EXCEPT ![r] = "saving"]
  /\ UNCHANGED <<accountVars, tokenVars, audit, formVars, historyVars>>

HandlerThrows(r) ==
  /\ pc[r] = "handling"
  /\ \/ ~RowsExist(r)
     \/ MayNotRender(r)
     \/ "mail" \in Faults /\ kind[r] \in BeginKind \union NoticeKind
  /\ pc' = [pc EXCEPT ![r] = "threw"]
  /\ UNCHANGED <<accountVars, tokenVars, audit, mailVars, formVars, historyVars>>

\* The new password, or the scheme of a login.
AccountEffects(r) ==
  /\ password' = IF kind[r] \in PasswordKind
                 THEN [password EXCEPT ![user[r]] = r] ELSE password
  /\ lastScheme' = IF kind[r] \in {"login", "completeMagicLink"}
                   THEN [lastScheme EXCEPT ![user[r]] = "email_and_password"]
                   ELSE lastScheme
  /\ overtaken' = IF kind[r] \in PasswordKind
                  THEN overtaken \union
                         {q \in Request \ {r} :
                            /\ kind[q] = "changePassword" /\ user[q] = user[r]
                            /\ pc[q] \in {"authenticated", "handling", "saving"}}
                  ELSE overtaken

\* (mutant of SaveEffects: the completion forgets IsUsed)
SaveEffectsUnused(r) ==
  /\ tokens' = IF kind[r] \in BeginKind THEN tokens \union {r} ELSE tokens
  /\ used' = used
  /\ AccountEffects(r)
  /\ committed' = committed \union {r}

\* (mutant of SaveEffects: every command marks the token it has, or has not)
SaveEffectsAlwaysUsed(r) ==
  /\ tokens' = IF kind[r] \in BeginKind THEN tokens \union {r} ELSE tokens
  /\ used' = used \union {token[r]}
  /\ AccountEffects(r)
  /\ committed' = committed \union {r}

\* What the commit writes: the new token; IsUsed and what the command does to the
\* account.  Neither IsUsed nor the password is looked at again.
SaveEffects(r) ==
  /\ tokens' = IF kind[r] \in BeginKind THEN tokens \union {r} ELSE tokens
  /\ used' = IF kind[r] \in CompleteKind THEN used \union {token[r]} ELSE used
  /\ AccountEffects(r)
  /\ committed' = committed \union {r}

Save(r) ==
  /\ pc[r] = "saving"
  /\ RowsExist(r)
  /\ SaveEffects(r)
  /\ \/ pc' = [pc EXCEPT ![r] = "auditing"]
     \/ "reply" \in Faults /\ pc' = [pc EXCEPT ![r] = "threw"]
  /\ UNCHANGED <<users, active, enabled, expired, audit, mailVars, formVars, late>>

\* An INSERT whose account, or an UPDATE whose row, is gone throws too.
SaveThrows(r) ==
  /\ pc[r] = "saving"
  /\ "save" \in Faults \/ ~RowsExist(r)
  /\ pc' = [pc EXCEPT ![r] = "threw"]
  /\ UNCHANGED <<accountVars, tokenVars, audit, mailVars, formVars, historyVars>>

\* (mutant of Audit: answered before the log is saved)
AuditAfterAnswer(r) ==
  /\ pc[r] = "auditing"
  /\ pc' = [pc EXCEPT ![r] = "answered"]
  /\ UNCHANGED <<accountVars, tokenVars, audit, mailVars, formVars, historyVars>>

\* The audit log is written by a second save; the success is then answered, and
\* the answer of a login carries the session cookie.
Audit(r) ==
  /\ pc[r] = "auditing"
  /\ audit' = audit \union {r}
  /\ \/ pc' = [pc EXCEPT ![r] = "answered"]
     \/ "reply" \in Faults /\ pc' = [pc EXCEPT ![r] = "threw"]
  /\ UNCHANGED <<accountVars, tokenVars, mailVars, formVars, historyVars>>

AuditThrows(r) ==
  /\ "save" \in Faults
  /\ pc[r] = "auditing"
  /\ pc' = [pc EXCEPT ![r] = "threw"]
  /\ UNCHANGED <<accountVars, tokenVars, audit, mailVars, formVars, historyVars>>

-----------------------------------------------------------------------------
(* Other requests, as far as they matter here, and time.                   *)

SetIsActive(u, b) ==
  /\ u \in users
  /\ active' = IF b THEN active \union {u} ELSE active \ {u}
  /\ UNCHANGED <<users, lastScheme, password, enabled, tokenVars, audit, mailVars,
                 pc, formVars, historyVars>>

\* DeleteUser and DeleteAdmin; the foreign key cascades to the account's tokens.
DeleteUser(u) ==
  /\ u \in users
  /\ users' = users \ {u}
  /\ active' = active \ {u}
  /\ tokens' = {t \in tokens : user[t] # u}
  /\ used' = {t \in used : user[t] # u}
  /\ expired' = {t \in expired : user[t] # u}
  /\ UNCHANGED <<lastScheme, password, enabled, audit, mailVars, pc, formVars, historyVars>>

\* Other schemes keep the rule that one is enabled for administrators.
EditAuthenticationScheme(s, side, b) ==
  /\ enabled' = IF b THEN enabled \union {<<s, side>>} ELSE enabled \ {<<s, side>>}
  /\ UNCHANGED <<users, active, lastScheme, password, tokenVars, audit, mailVars,
                 pc, formVars, historyVars>>

Expire(t) ==
  /\ t \in tokens
  /\ expired' = expired \union {t}
  /\ UNCHANGED <<accountVars, tokens, used, audit, mailVars, pc, formVars, historyVars>>

-----------------------------------------------------------------------------
Next ==
  \/ \E r \in Request, k \in BeginKind, u \in User : ValidateBegin(r, k, u)
  \/ \E r \in Request, k \in CompleteKind, t \in Request : ValidateComplete(r, k, t)
  \/ \E r \in Request, u \in User, p \in Request \union {"old"} : ValidateLogin(r, u, p)
  \/ \E r \in Request, k \in ResetKind, u \in User : ValidateReset(r, k, u)
  \/ \E r \in Request, u \in User : Authenticate(r, u)
  \/ \E r \in Request, p \in Request \union {"old"} : ValidateChange(r, p)
  \/ \E r \in Request : Handle(r)
  \/ \E r \in Request : HandlerThrows(r)
  \/ \E r \in Request : Save(r)
  \/ \E r \in Request : SaveThrows(r)
  \/ \E r \in Request : Audit(r)
  \/ \E r \in Request : AuditThrows(r)
  \/ \E u \in User, b \in BOOLEAN : SetIsActive(u, b)
  \/ \E u \in User : DeleteUser(u)
  \/ \E s \in Scheme, side \in {"admins", "users"}, b \in BOOLEAN :
       EditAuthenticationScheme(s, side, b)
  \/ \E t \in Request : Expire(t)

Spec == Init /\ [][Next]_vars

-----------------------------------------------------------------------------
(* Properties.                                                             *)

\* Every variable has its type.
TypeOK ==
  /\ users \subseteq User
  /\ active \subseteq User
  /\ lastScheme \in [User -> LastScheme]
  /\ password \in [User -> Request \union {"old"}]
  /\ enabled \subseteq Scheme \X {"admins", "users"}
  /\ tokens \subseteq Request
  /\ used \subseteq tokens
  /\ expired \subseteq Request
  /\ audit \subseteq Request
  /\ mailed \subseteq Request
  /\ announced \subseteq Request
  /\ pc \in [Request -> {"idle", "authenticated", "handling", "saving", "auditing",
                         "answered", "refused", "threw"}]
  /\ kind \in [Request -> Kind \union {"none"}]
  /\ user \in [Request -> User \union {NoUser}]
  /\ token \in [Request -> Request \union {NoToken}]
  /\ seenScheme \in [Request -> LastScheme]
  /\ seenPassword \in [Request -> Request \union {"old"}]
  /\ given \in [Request -> Request \union {"old"}]
  /\ committed \subseteq Request
  /\ late \subseteq Request
  /\ overtaken \subseteq Request

\* Tokens and passwords serve only requests that overlap: one that comes after
\* its token was consumed, or its password replaced, never gets its changes
\* committed, however many requests race, saves fail or replies are lost.
NoLateCompletion == late \intersect committed = {}

\* The password or the login of a completion and the IsUsed of its token stand or
\* fall together: a token in the table is used exactly if a completion of it was
\* committed.
UsedMeansConsumed == \A t \in tokens : t \in used <=> Consumers(t) # {}

\* No token lies in the table whose owner never got it: a link is stored only
\* after it was mailed.
StoredLinkWasMailed == tokens \subseteq mailed

\* No password is changed behind its owner's back: the change was announced to
\* the account's address before it was committed, unless an administrator asked
\* for no e-mail.
ResetWasAnnounced ==
  \A u \in User : password[u] # "old" =>
    \/ password[u] \in announced
    \/ kind[password[u]] = "resetSilently"

\* Whoever changes a password knows the one that is replaced, although it was
\* read before it was compared and is not looked at again: all but changes that
\* another one overtook.
ReplacedKnowingly ==
  [][\A u \in User :
       LET r == password'[u]
       IN  r # password[u] /\ kind[r] = "changePassword" /\ r \notin overtaken
           => given[r] = password[u]]_vars

\* The audit log tells the truth, although it is a save of its own: what it
\* lists was committed, and what was answered as a success is listed.
AuditTrail ==
  /\ audit \subseteq committed
  /\ \A r \in Request : pc[r] = "answered" => r \in audit

\* (does not hold) "Token is consumed or expired.": a token is consumed once.
SingleUse == \A t \in Request : Cardinality(Consumers(t)) <= 1

\* (does not hold) "Email me a password reset link": without faults a request
\* the validator has accepted fails only if its account is deleted meanwhile.
AcceptedResetIsMailed ==
  \A r \in Request :
    kind[r] = "beginForgotPassword" /\ pc[r] = "threw" => user[r] \notin users

\* (does not hold) "You have successfully recovered your password.": the account
\* that is told so has its new password, unless its request is still running.
AnnouncedResetIsDone ==
  \A r \in announced :
    kind[r] = "completeForgotPassword" => pc[r] = "saving" \/ r \in committed

-----------------------------------------------------------------------------
(* The abstract specification.                                             *)

\* Requests that came with a link that was good, up to their save.
Following == {r \in Request : kind[r] \in CompleteKind /\ pc[r] \in {"handling", "saving"}}

Links == INSTANCE LinkLedger
           WITH owner <- [t \in mailed |-> user[t]],
                stored <- tokens,
                spent <- used,
                link <- [r \in Following |-> token[r]],
                done <- committed

\* Whatever races, fails or is deleted, links are mailed, stored and spent in that
\* order, for the account they were made for, and requests take effect once.
ImplementsLinks == Links!Spec
=============================================================================
