------------------------- MODULE OneTimeTokensProofs -------------------------
(***************************************************************************)
(* Proofs about OneTimeTokens: its invariants hold for any number of       *)
(* requests and accounts and with every kind of failure.                   *)
(*                                                                         *)
(* The inductive invariant IInv ties the place of a request in the         *)
(* pipeline to what the database, the mailboxes and the audit log hold.    *)
(***************************************************************************)
EXTENDS OneTimeTokens, TLAPS

\* What is known of a request from where it is in the pipeline.
StageInv ==
  \A r \in Request :
    /\ pc[r] # "idle" => kind[r] \in Kind /\ user[r] \in User
    /\ pc[r] = "authenticated" => kind[r] = "changePassword"
    /\ pc[r] = "saving" => /\ kind[r] \in BeginKind => r \in mailed
                           /\ kind[r] \in NoticeKind => r \in announced
    /\ r \in committed => pc[r] \in {"auditing", "answered", "threw"}
    /\ pc[r] \in {"auditing", "answered"} => r \in committed
    /\ pc[r] = "answered" => r \in audit
    /\ r \in audit => r \in committed

\* A completion is about a mailed token, and about the account of that token.
FormInv ==
  \A r \in Request :
    kind[r] \in CompleteKind => token[r] \in mailed /\ token[r] \in Request

\* What is mailed was accepted: an idle request has no link.
MailInv == \A r \in Request : r \in mailed => pc[r] # "idle"

\* Tokens, and the tokens consumed, come from committed Begin requests.
RowsInv ==
  /\ tokens \subseteq committed
  /\ tokens \subseteq mailed
  /\ \A r \in committed : kind[r] \in CompleteKind => token[r] \in committed
  /\ \A u \in User : password[u] # "old" => password[u] \in committed

\* A request that comes for a consumed token, or with a replaced password, ends
\* before it changes anything.
LateInv == \A r \in late : pc[r] \in {"refused", "threw"} /\ r \notin committed

\* A change that no other has overtaken has read, and after its validation has
\* been given, the password the account still has.
KnownInv ==
  \A r \in Request \ overtaken :
    /\ kind[r] = "changePassword"
    /\ pc[r] \in {"authenticated", "handling", "saving"}
    => /\ seenPassword[r] = password[user[r]]
       /\ pc[r] # "authenticated" => given[r] = seenPassword[r]

IInv ==
  /\ TypeOK
  /\ StageInv
  /\ FormInv
  /\ MailInv
  /\ RowsInv
  /\ UsedMeansConsumed
  /\ ResetWasAnnounced
  /\ LateInv
  /\ KnownInv

\* The invariant holds initially.
LEMMA InitIInv == Init => IInv
<1> SUFFICES ASSUME Init PROVE IInv
  OBVIOUS
<1>1. TypeOK
  BY DEF Init, TypeOK, LastScheme, Scheme
<1>2. StageInv /\ FormInv /\ MailInv /\ RowsInv /\ LateInv /\ KnownInv
  BY DEF Init, StageInv, FormInv, MailInv, RowsInv, LateInv, KnownInv, Kind, BeginKind,
     CompleteKind
<1>3. UsedMeansConsumed /\ ResetWasAnnounced
  BY DEF Init, UsedMeansConsumed, ResetWasAnnounced
<1> QED
  BY <1>1, <1>2, <1>3 DEF IInv

\* Every step keeps the types.
LEMMA TypeStep == IInv /\ [Next]_vars => TypeOK'
<1> SUFFICES ASSUME IInv, [Next]_vars PROVE TypeOK'
  OBVIOUS
<1>0. TypeOK /\ StageInv /\ MailInv
  BY DEF IInv
<1>a. ASSUME NEW r \in Request, NEW k \in Kind, NEW u \in User,
             NEW t \in Request \union {NoToken},
             NEW stage \in {"authenticated", "handling", "refused", "threw"},
             Accept(r, k, u, t, stage), late' \subseteq Request,
             seenPassword' \in [Request -> Request \union {"old"}]
      PROVE TypeOK'
  BY <1>0, <1>a DEF TypeOK, Accept, accountVars, tokenVars, mailVars
<1>b. \A ok : Verdict(ok) \in {"handling", "refused"}
  BY DEF Verdict
<1>1. ASSUME NEW r \in Request, NEW k \in BeginKind, NEW u \in User,
             ValidateBegin(r, k, u)
      PROVE TypeOK'
  <2>1. /\ k \in Kind /\ late' \subseteq Request
        /\ seenPassword' \in [Request -> Request \union {"old"}]
    BY <1>0, <1>1 DEF ValidateBegin, Kind, TypeOK
  <2> QED
    BY <1>a, <1>b, <1>1, <2>1 DEF ValidateBegin
<1>2. ASSUME NEW r \in Request, NEW k \in CompleteKind, NEW t \in Request,
             ValidateComplete(r, k, t)
      PROVE TypeOK'
  <2>1. /\ k \in Kind /\ late' \subseteq Request
        /\ seenPassword' \in [Request -> Request \union {"old"}]
    BY <1>0, <1>2 DEF ValidateComplete, Kind, TypeOK
  <2>2. user[t] \in User
    BY <1>0, <1>2 DEF ValidateComplete, StageInv, MailInv
  <2> QED
    BY <1>a, <1>b, <1>2, <2>1, <2>2 DEF ValidateComplete
<1>l. ASSUME NEW r \in Request, NEW u \in User, NEW p \in Request \union {"old"},
             ValidateLogin(r, u, p)
      PROVE TypeOK'
  <2>1. /\ "login" \in Kind /\ late' \subseteq Request
        /\ seenPassword' \in [Request -> Request \union {"old"}]
    BY <1>0, <1>l DEF ValidateLogin, Kind, TypeOK
  <2> QED
    BY <1>a, <1>b, <1>l, <2>1 DEF ValidateLogin
<1>r. ASSUME NEW r \in Request, NEW k \in ResetKind, NEW u \in User,
             ValidateReset(r, k, u)
      PROVE TypeOK'
  <2>1. /\ k \in Kind /\ late' \subseteq Request
        /\ seenPassword' \in [Request -> Request \union {"old"}]
    BY <1>0, <1>r DEF ValidateReset, Kind, TypeOK
  <2> QED
    BY <1>a, <1>b, <1>r, <2>1 DEF ValidateReset
<1>c. ASSUME NEW r \in Request, NEW u \in User, Authenticate(r, u)
      PROVE TypeOK'
  <2>1. /\ "changePassword" \in Kind /\ late' \subseteq Request
        /\ seenPassword' \in [Request -> Request \union {"old"}]
    BY <1>0, <1>c DEF Authenticate, Kind, TypeOK
  <2> QED
    BY <1>a, <1>c, <2>1 DEF Authenticate
<1>d. ASSUME NEW r \in Request, NEW p \in Request \union {"old"}, ValidateChange(r, p)
      PROVE TypeOK'
  <2>1. \E stage \in {"handling", "refused", "threw"} : pc' = [pc EXCEPT ![r] = stage]
    BY <1>d DEF ValidateChange, Verdict
  <2> QED
    BY <1>0, <1>d, <2>1 DEF ValidateChange, TypeOK, accountVars, tokenVars, mailVars
<1>3. ASSUME NEW r \in Request, Save(r)
      PROVE TypeOK'
  <2>1. user[r] \in User /\ kind[r] \in CompleteKind => token[r] \in tokens
    BY <1>0, <1>3 DEF Save, RowsExist
  <2>2. /\ tokens' \subseteq Request
        /\ used' \subseteq tokens'
        /\ committed' \subseteq Request /\ overtaken' \subseteq Request
    BY <1>0, <1>3, <2>1 DEF Save, SaveEffects, AccountEffects, TypeOK, RowsExist,
       BeginKind, CompleteKind
  <2>3. /\ password' \in [User -> Request \union {"old"}]
        /\ lastScheme' \in [User -> LastScheme]
    BY <1>0, <1>3 DEF Save, SaveEffects, AccountEffects, TypeOK, LastScheme, Scheme
  <2>4. pc' \in [Request -> {"idle", "authenticated", "handling", "saving", "auditing",
                             "answered", "refused", "threw"}]
    BY <1>0, <1>3 DEF Save, TypeOK
  <2> QED
    BY <1>0, <1>3, <2>2, <2>3, <2>4 DEF Save, TypeOK, mailVars, formVars
<1>4. ASSUME NEW r \in Request,
             Handle(r) \/ HandlerThrows(r) \/ SaveThrows(r) \/ Audit(r) \/ AuditThrows(r)
      PROVE TypeOK'
  BY <1>0, <1>4 DEF Handle, HandlerThrows, SaveThrows, Audit, AuditThrows, TypeOK,
     accountVars, tokenVars, mailVars, formVars, historyVars
<1>5. ASSUME NEW u \in User, NEW b \in BOOLEAN, SetIsActive(u, b)
      PROVE TypeOK'
  BY <1>0, <1>5 DEF SetIsActive, TypeOK, tokenVars, mailVars, formVars, historyVars
<1>6. ASSUME NEW u \in User, DeleteUser(u)
      PROVE TypeOK'
  BY <1>0, <1>6 DEF DeleteUser, TypeOK, mailVars, formVars, historyVars
<1>7. ASSUME NEW s \in Scheme, NEW side \in {"admins", "users"}, NEW b \in BOOLEAN,
             EditAuthenticationScheme(s, side, b)
      PROVE TypeOK'
  BY <1>0, <1>7 DEF EditAuthenticationScheme, TypeOK, tokenVars, mailVars, formVars, historyVars
<1>8. ASSUME NEW t \in Request, Expire(t)
      PROVE TypeOK'
  BY <1>0, <1>8 DEF Expire, TypeOK, accountVars, mailVars, formVars, historyVars
<1>9. CASE UNCHANGED vars
  BY <1>0, <1>9 DEF vars, TypeOK, accountVars, tokenVars, mailVars, formVars, historyVars
<1> QED
  BY <1>1, <1>2, <1>l, <1>r, <1>c, <1>d, <1>3, <1>4, <1>5, <1>6, <1>7, <1>8, <1>9 DEF Next

\* A request that comes changes nothing but its own form: no token, no commit.
LEMMA AcceptStep ==
  ASSUME IInv, TypeOK', NEW r \in Request, NEW k \in Kind, NEW u \in User,
         NEW t \in Request \union {NoToken},
         NEW stage \in {"authenticated", "handling", "refused", "threw"},
         Accept(r, k, u, t, stage),
         k \in CompleteKind => t \in mailed,
         late' = late \/ (late' = late \union {r} /\ stage = "refused"),
         IF k = "changePassword"
         THEN stage = "authenticated" /\ seenPassword' = [seenPassword EXCEPT ![r] = password[u]]
         ELSE stage # "authenticated" /\ seenPassword' = seenPassword
  PROVE  IInv'
<1>0. TypeOK /\ StageInv /\ FormInv /\ MailInv /\ RowsInv
  BY DEF IInv
<1>1. r \notin committed /\ r \notin mailed /\ pc[r] = "idle"
  BY <1>0 DEF Accept, StageInv, MailInv
<1>2. /\ pc' = [pc EXCEPT ![r] = stage]
      /\ kind' = [kind EXCEPT ![r] = k]
      /\ user' = [user EXCEPT ![r] = u]
      /\ token' = [token EXCEPT ![r] = t]
      /\ UNCHANGED <<tokens, used, audit, mailed, announced, password, committed, given, overtaken>>
  BY DEF Accept, accountVars, tokenVars, mailVars
<1>3. \A q \in committed : kind'[q] = kind[q] /\ token'[q] = token[q]
  BY <1>0, <1>1, <1>2 DEF TypeOK
<1>4. \A x : Consumers(x)' = Consumers(x)
  BY <1>2, <1>3 DEF Consumers
<1>5. StageInv'
  BY <1>0, <1>1, <1>2 DEF StageInv, TypeOK
<1>6. FormInv'
  <2>1. ~(NoToken \in mailed)
    BY <1>0, TokenAssumption DEF TypeOK
  <2> QED
    BY <1>0, <1>2, <2>1 DEF FormInv, TypeOK
<1>7. MailInv' /\ RowsInv'
  BY <1>0, <1>1, <1>2, <1>3 DEF MailInv, RowsInv, TypeOK
<1>8. UsedMeansConsumed' /\ ResetWasAnnounced'
  <2>1. UsedMeansConsumed'
    BY <1>2, <1>4 DEF IInv, UsedMeansConsumed
  <2>2. \A x \in User : password[x] # "old" => kind'[password[x]] = kind[password[x]]
    BY <1>0, <1>3 DEF RowsInv
  <2>3. ResetWasAnnounced'
    BY <1>2, <2>2 DEF IInv, ResetWasAnnounced
  <2> QED
    BY <2>1, <2>3
<1>9. LateInv'
  BY <1>0, <1>1, <1>2 DEF IInv, LateInv, TypeOK
<1>10. KnownInv'
  <2> SUFFICES ASSUME NEW q \in Request \ overtaken, kind'[q] = "changePassword",
                      pc'[q] \in {"authenticated", "handling", "saving"}
               PROVE  /\ seenPassword'[q] = password[user'[q]]
                      /\ pc'[q] # "authenticated" => given[q] = seenPassword'[q]
    BY <1>2 DEF KnownInv
  <2>1. CASE q = r
    BY <1>0, <1>2, <2>1 DEF TypeOK
  <2>2. CASE q # r
    <3>1. /\ kind[q] = "changePassword" /\ pc'[q] = pc[q] /\ user'[q] = user[q]
          /\ seenPassword'[q] = seenPassword[q]
      BY <1>0, <1>2, <2>2 DEF TypeOK
    <3> QED
      BY <3>1 DEF IInv, KnownInv
  <2> QED
    BY <2>1, <2>2
<1> QED
  BY <1>5, <1>6, <1>7, <1>8, <1>9, <1>10 DEF IInv

\* The validation of a change touches only that request.
LEMMA ChangeStep ==
  ASSUME IInv, TypeOK', NEW r \in Request, NEW p \in Request \union {"old"},
         ValidateChange(r, p)
  PROVE  IInv'
<1>0. TypeOK /\ StageInv /\ FormInv /\ MailInv /\ RowsInv /\ LateInv /\ KnownInv
  BY DEF IInv
<1>1. /\ pc[r] = "authenticated" /\ r \notin committed
      /\ UNCHANGED <<tokens, used, audit, mailed, announced, password, committed, kind, user,
                     token, seenPassword, overtaken>>
      /\ given' = [given EXCEPT ![r] = p]
  BY <1>0 DEF ValidateChange, StageInv, accountVars, tokenVars, mailVars
<1>2. /\ \A q \in Request : q # r => pc'[q] = pc[q]
      /\ pc'[r] \in {"handling", "refused", "threw"}
      /\ pc'[r] = "handling" => p = seenPassword[r]
      /\ late' = late \/ (late' = late \union {r} /\ p # seenPassword[r])
  BY <1>0 DEF ValidateChange, Verdict, TypeOK
<1>3. StageInv' /\ FormInv' /\ MailInv' /\ RowsInv'
  BY <1>0, <1>1, <1>2 DEF StageInv, FormInv, MailInv, RowsInv
<1>4. LateInv'
  BY <1>0, <1>1, <1>2 DEF LateInv, TypeOK
<1>5. KnownInv'
  BY <1>0, <1>1, <1>2 DEF KnownInv, TypeOK
<1>6. \A x : Consumers(x)' = Consumers(x)
  BY <1>1 DEF Consumers
<1>7. UsedMeansConsumed' /\ ResetWasAnnounced'
  BY <1>1, <1>6 DEF IInv, UsedMeansConsumed, ResetWasAnnounced
<1> QED
  BY <1>3, <1>4, <1>5, <1>7 DEF IInv

\* A commit consumes the token of a completion, or adds a token nobody consumed.
LEMMA SaveStep ==
  ASSUME IInv, TypeOK', NEW r \in Request, Save(r)
  PROVE  IInv'
<1>0. TypeOK /\ StageInv /\ FormInv /\ MailInv /\ RowsInv /\ LateInv /\ KnownInv
  BY DEF IInv
<1>a. /\ BeginKind \intersect CompleteKind = {}
      /\ kind[r] \in PasswordKind => kind[r] \in NoticeKind \/ kind[r] = "resetSilently"
  BY DEF BeginKind, CompleteKind, PasswordKind
<1>1. /\ pc[r] = "saving" /\ r \notin committed
      /\ kind[r] \in Kind
      /\ kind[r] \in CompleteKind => token[r] \in tokens
      /\ committed' = committed \union {r}
      /\ UNCHANGED <<audit, mailed, announced, kind, user, token, seenPassword, given, late>>
      /\ \A q \in Request : q # r => pc'[q] = pc[q]
      /\ pc'[r] \in {"auditing", "threw"}
  BY <1>0 DEF Save, SaveEffects, RowsExist, StageInv, TypeOK, mailVars, formVars
<1>b. \A u \in User : password'[u] # password[u] =>
                        password'[u] = r /\ kind[r] \in PasswordKind /\ u = user[r]
  BY <1>0 DEF Save, SaveEffects, AccountEffects, TypeOK
<1>2. StageInv'
  BY <1>0, <1>1 DEF StageInv
<1>3. FormInv' /\ MailInv'
  BY <1>0, <1>1 DEF FormInv, MailInv
<1>4. RowsInv'
  <2>1. tokens' \subseteq tokens \union {r} /\ (kind[r] \notin BeginKind => tokens' = tokens)
    BY DEF Save, SaveEffects
  <2>2. kind[r] \in BeginKind => r \in mailed
    BY <1>0, <1>1 DEF StageInv
  <2> QED
    BY <1>0, <1>1, <1>b, <2>1, <2>2 DEF RowsInv
<1>5. UsedMeansConsumed'
  <2>1. CASE kind[r] \notin CompleteKind
    <3>1. tokens' \subseteq tokens \union {r} /\ used' = used
      BY <1>1, <2>1 DEF Save, SaveEffects
    <3>2. \A x : Consumers(x)' = Consumers(x)
      BY <1>1, <2>1 DEF Consumers
    <3>3. Consumers(r) = {} /\ r \notin used
      BY <1>0, <1>1 DEF Consumers, RowsInv, TypeOK
    <3> QED
      BY <3>1, <3>2, <3>3 DEF IInv, UsedMeansConsumed
  <2>2. CASE kind[r] \in CompleteKind
    <3>1. tokens' = tokens /\ used' = used \union {token[r]}
      BY <1>a, <1>1, <2>2 DEF Save, SaveEffects
    <3>2. \A x : Consumers(x)' = IF x = token[r] THEN Consumers(x) \union {r} ELSE Consumers(x)
      BY <1>1, <2>2 DEF Consumers
    <3> QED
      BY <3>1, <3>2 DEF IInv, UsedMeansConsumed
  <2> QED
    BY <1>1, <2>1, <2>2
<1>6. ResetWasAnnounced'
  <2>1. kind[r] \in NoticeKind => r \in announced
    BY <1>0, <1>1 DEF StageInv
  <2> QED
    BY <1>1, <1>a, <1>b, <2>1 DEF IInv, ResetWasAnnounced
<1>7. LateInv'
  BY <1>0, <1>1 DEF LateInv, TypeOK
<1>8. KnownInv'
  <2> SUFFICES ASSUME NEW q \in Request \ overtaken', kind[q] = "changePassword",
                      pc'[q] \in {"authenticated", "handling", "saving"}
               PROVE  /\ seenPassword[q] = password'[user[q]]
                      /\ pc'[q] # "authenticated" => given[q] = seenPassword[q]
    BY <1>1 DEF KnownInv
  <2>1. q # r /\ pc'[q] = pc[q] /\ pc[q] # "idle"
    BY <1>1
  <2>2. q \notin overtaken /\ (kind[r] \in PasswordKind => user[q] # user[r])
    BY <1>0, <2>1 DEF Save, SaveEffects, AccountEffects
  <2>3. user[q] \in User
    BY <1>0, <2>1 DEF StageInv
  <2>4. password'[user[q]] = password[user[q]]
    BY <1>b, <2>2, <2>3
  <2> QED
    BY <1>0, <2>1, <2>2, <2>4 DEF KnownInv
<1> QED
  BY <1>2, <1>3, <1>4, <1>5, <1>6, <1>7, <1>8 DEF IInv

\* The steps of a request that commit none of its changes.
LEMMA StageStep ==
  ASSUME IInv, TypeOK', NEW r \in Request,
         Handle(r) \/ HandlerThrows(r) \/ SaveThrows(r) \/ Audit(r) \/ AuditThrows(r)
  PROVE  IInv'
<1>0. TypeOK /\ StageInv /\ FormInv /\ MailInv /\ RowsInv /\ LateInv /\ KnownInv
  BY DEF IInv
<1> USE DEF Handle, HandlerThrows, SaveThrows, Audit, AuditThrows, accountVars, tokenVars,
        mailVars, formVars, historyVars
<1>1. /\ pc[r] \in {"handling", "saving", "auditing"}
      /\ mailed \subseteq mailed' /\ mailed' \subseteq mailed \union {r}
      /\ announced \subseteq announced'
      /\ UNCHANGED <<tokens, used, password, committed, late, overtaken, kind, user, token,
                     seenPassword, given>>
      /\ \A q \in Request : q # r => pc'[q] = pc[q]
      /\ pc'[r] \in {"saving", "answered", "threw"}
  BY <1>0 DEF TypeOK
<1>2. StageInv'
  BY <1>0 DEF StageInv, TypeOK
<1>3. FormInv' /\ MailInv' /\ RowsInv' /\ LateInv'
  BY <1>0, <1>1 DEF FormInv, MailInv, RowsInv, LateInv, TypeOK
<1>6. KnownInv'
  <2>1. pc'[r] = "saving" => pc[r] = "handling"
    BY <1>0 DEF TypeOK
  <2> QED
    BY <1>0, <1>1, <2>1 DEF KnownInv
<1>4. \A x : Consumers(x)' = Consumers(x)
  BY <1>1 DEF Consumers
<1>5. UsedMeansConsumed' /\ ResetWasAnnounced'
  BY <1>1, <1>4 DEF IInv, UsedMeansConsumed, ResetWasAnnounced
<1> QED
  BY <1>2, <1>3, <1>5, <1>6 DEF IInv

\* What other requests do to accounts and schemes, and time.
LEMMA OtherStep ==
  ASSUME IInv, TypeOK',
         UNCHANGED <<password, audit, mailVars, pc, formVars, historyVars>>,
         tokens' \subseteq tokens, used' = used \intersect tokens'
  PROVE  IInv'
<1> USE DEF mailVars, formVars, historyVars
<1>1. StageInv' /\ FormInv' /\ MailInv' /\ RowsInv' /\ LateInv' /\ KnownInv'
  BY DEF IInv, StageInv, FormInv, MailInv, RowsInv, LateInv, KnownInv
<1>2. \A x : Consumers(x)' = Consumers(x)
  BY DEF Consumers
<1>3. UsedMeansConsumed' /\ ResetWasAnnounced'
  BY <1>2 DEF IInv, UsedMeansConsumed, ResetWasAnnounced
<1> QED
  BY <1>1, <1>3 DEF IInv

\* The inductive step.
LEMMA IInvStep == IInv /\ [Next]_vars => IInv'
<1> SUFFICES ASSUME IInv, [Next]_vars PROVE IInv'
  OBVIOUS
<1>0. TypeOK' /\ TypeOK /\ StageInv /\ MailInv
  BY TypeStep DEF IInv
<1>b. \A ok : Verdict(ok) \in {"handling", "refused"}
  BY DEF Verdict
<1>n. /\ "login" \in Kind \ CompleteKind /\ "changePassword" \in Kind \ CompleteKind
      /\ \A k \in BeginKind \union ResetKind :
           k \in Kind \ CompleteKind /\ k # "changePassword"
      /\ \A k \in CompleteKind : k \in Kind /\ k # "changePassword"
  BY DEF Kind, BeginKind, CompleteKind, ResetKind
<1>1. ASSUME NEW r \in Request, NEW k \in BeginKind, NEW u \in User,
             ValidateBegin(r, k, u)
      PROVE IInv'
  BY <1>0, <1>b, <1>n, <1>1, AcceptStep DEF ValidateBegin
<1>2. ASSUME NEW r \in Request, NEW k \in CompleteKind, NEW t \in Request,
             ValidateComplete(r, k, t)
      PROVE IInv'
  <2>1. k \in Kind /\ t \in mailed /\ user[t] \in User
    BY <1>0, <1>2 DEF ValidateComplete, Kind, StageInv, MailInv
  <2>2. Consumers(t) # {} => Verdict(Redeemable(k, t)) = "refused"
    BY DEF IInv, UsedMeansConsumed, Redeemable, Verdict
  <2> QED
    BY <1>0, <1>b, <1>n, <1>2, <2>1, <2>2, AcceptStep DEF ValidateComplete
<1>l. ASSUME NEW r \in Request, NEW u \in User, NEW p \in Request \union {"old"},
             ValidateLogin(r, u, p)
      PROVE IInv'
  <2>1. p # password[u] => Verdict(Allowed("login", u) /\ p = password[u]) = "refused"
    BY DEF Verdict
  <2> QED
    BY <1>0, <1>b, <1>n, <1>l, <2>1, AcceptStep DEF ValidateLogin
<1>r. ASSUME NEW r \in Request, NEW k \in ResetKind, NEW u \in User,
             ValidateReset(r, k, u)
      PROVE IInv'
  BY <1>0, <1>b, <1>n, <1>r, AcceptStep DEF ValidateReset
<1>c. ASSUME NEW r \in Request, NEW u \in User, Authenticate(r, u)
      PROVE IInv'
  BY <1>0, <1>n, <1>c, AcceptStep DEF Authenticate
<1>d. ASSUME NEW r \in Request, NEW p \in Request \union {"old"}, ValidateChange(r, p)
      PROVE IInv'
  BY <1>0, <1>d, ChangeStep
<1>3. ASSUME NEW r \in Request, Save(r)
      PROVE IInv'
  BY <1>0, <1>3, SaveStep
<1>4. ASSUME NEW r \in Request,
             Handle(r) \/ HandlerThrows(r) \/ SaveThrows(r) \/ Audit(r) \/ AuditThrows(r)
      PROVE IInv'
  BY <1>0, <1>4, StageStep
<1>5. ASSUME NEW u \in User, NEW b \in BOOLEAN, SetIsActive(u, b)
      PROVE IInv'
  BY <1>0, <1>5, OtherStep DEF SetIsActive, TypeOK, tokenVars
<1>6. ASSUME NEW u \in User, DeleteUser(u)
      PROVE IInv'
  <2>1. tokens' \subseteq tokens /\ used' = used \intersect tokens'
    BY <1>0, <1>6 DEF DeleteUser, TypeOK
  <2> QED
    BY <1>0, <1>6, <2>1, OtherStep DEF DeleteUser
<1>7. ASSUME NEW s \in Scheme, NEW side \in {"admins", "users"}, NEW b \in BOOLEAN,
             EditAuthenticationScheme(s, side, b)
      PROVE IInv'
  BY <1>0, <1>7, OtherStep DEF EditAuthenticationScheme, TypeOK, tokenVars
<1>8. ASSUME NEW t \in Request, Expire(t)
      PROVE IInv'
  BY <1>0, <1>8, OtherStep DEF Expire, TypeOK, accountVars
<1>9. CASE UNCHANGED vars
  BY <1>0, <1>9, OtherStep DEF vars, TypeOK, accountVars, tokenVars
<1> QED
  BY <1>1, <1>2, <1>l, <1>r, <1>c, <1>d, <1>3, <1>4, <1>5, <1>6, <1>7, <1>8, <1>9 DEF Next

\* The inductive invariant holds in every reachable state.
THEOREM TokenInvariant == Spec => []IInv
BY InitIInv, IInvStep, PTL DEF Spec

\* Type correctness.
THEOREM TokenTypes == Spec => []TypeOK
<1>1. IInv => TypeOK
  BY DEF IInv
<1> QED
  BY <1>1, TokenInvariant, PTL

\* A request whose token was consumed, or whose password was replaced, before it
\* came is never committed.
THEOREM LateCompletionsFail == Spec => []NoLateCompletion
<1>1. IInv => NoLateCompletion
  BY DEF IInv, NoLateCompletion, LateInv
<1> QED
  BY <1>1, TokenInvariant, PTL

\* A stored token is used exactly if a completion of it was committed.
THEOREM UsedTokensAreConsumed == Spec => []UsedMeansConsumed
<1>1. IInv => UsedMeansConsumed
  BY DEF IInv
<1> QED
  BY <1>1, TokenInvariant, PTL

\* A link is stored only after it was mailed.
THEOREM LinksAreMailedFirst == Spec => []StoredLinkWasMailed
<1>1. IInv => StoredLinkWasMailed
  BY DEF IInv, StoredLinkWasMailed, RowsInv
<1> QED
  BY <1>1, TokenInvariant, PTL

\* A new password was announced before it was committed.
THEOREM ResetsAreAnnounced == Spec => []ResetWasAnnounced
<1>1. IInv => ResetWasAnnounced
  BY DEF IInv
<1> QED
  BY <1>1, TokenInvariant, PTL

\* Unless another change overtook it, a change replaces the password it was given.
THEOREM ChangesAreKnowing == Spec => ReplacedKnowingly
<1>1. ASSUME IInv, [Next]_vars, NEW u \in User, password'[u] # password[u],
             kind[password'[u]] = "changePassword", password'[u] \notin overtaken
      PROVE  given[password'[u]] = password[u]
  <2>0. TypeOK /\ StageInv /\ KnownInv
    BY <1>1 DEF IInv
  <2>1. PICK r \in Request : Save(r)
    BY <1>1 DEF Next, vars, accountVars, formVars, ValidateBegin, ValidateComplete,
       ValidateLogin, ValidateReset, Authenticate, ValidateChange, Accept, Handle,
       HandlerThrows, SaveThrows, Audit, AuditThrows, SetIsActive, DeleteUser,
       EditAuthenticationScheme, Expire
  <2>2. password'[u] = r /\ u = user[r]
    BY <1>1, <2>0, <2>1 DEF Save, SaveEffects, AccountEffects, TypeOK
  <2>3. pc[r] = "saving" /\ r \in Request \ overtaken
    BY <1>1, <2>1, <2>2 DEF Save
  <2>4. seenPassword[r] = password[user[r]] /\ given[r] = seenPassword[r]
    BY <1>1, <2>0, <2>2, <2>3 DEF KnownInv
  <2> QED
    BY <2>2, <2>4
<1>2. IInv /\ [Next]_vars =>
      [\A u \in User :
         LET r == password'[u]
         IN  r # password[u] /\ kind[r] = "changePassword" /\ r \notin overtaken
             => given[r] = password[u]]_vars
  BY <1>1
<1> QED
  BY <1>2, TokenInvariant, PTL DEF Spec, ReplacedKnowingly

\* The audit log lists commits only, and all that were answered as a success.
THEOREM AuditIsTrue == Spec => []AuditTrail
<1>1. IInv => AuditTrail
  BY DEF IInv, AuditTrail, StageInv, TypeOK
<1> QED
  BY <1>1, TokenInvariant, PTL

-----------------------------------------------------------------------------
(* The refinement.                                                         *)

\* Links are mailed by Begin requests that were handled; a completion is about
\* the account of its link.
LinkInv ==
  \A r \in Request :
    /\ r \in mailed => kind[r] \in BeginKind /\ pc[r] \notin {"authenticated", "handling"}
    /\ kind[r] \in CompleteKind => user[r] = user[token[r]]

\* Every step keeps what is known of links.
LEMMA LinkStep == IInv /\ LinkInv /\ [Next]_vars => LinkInv'
<1> SUFFICES ASSUME IInv, LinkInv, [Next]_vars PROVE LinkInv'
  OBVIOUS
<1>0. TypeOK /\ StageInv /\ FormInv /\ MailInv
  BY DEF IInv
<1>1. ASSUME NEW r \in Request, NEW k \in Kind, NEW u \in User,
             NEW t \in Request \union {NoToken}, NEW stage, Accept(r, k, u, t, stage),
             k \in CompleteKind => t \in mailed /\ u = user[t]
      PROVE LinkInv'
  <2>1. r \notin mailed /\ NoToken \notin mailed
    BY <1>0, <1>1, TokenAssumption DEF MailInv, Accept, TypeOK
  <2>2. /\ kind' = [kind EXCEPT ![r] = k] /\ user' = [user EXCEPT ![r] = u]
        /\ token' = [token EXCEPT ![r] = t] /\ pc' = [pc EXCEPT ![r] = stage]
        /\ mailed' = mailed
    BY <1>1 DEF Accept, mailVars
  <2>3. \A q \in Request : q # r =>
          kind'[q] = kind[q] /\ user'[q] = user[q] /\ token'[q] = token[q] /\ pc'[q] = pc[q]
    BY <1>0, <2>2 DEF TypeOK
  <2>4. kind'[r] = k /\ user'[r] = u /\ token'[r] = t
    BY <1>0, <2>2 DEF TypeOK
  <2> SUFFICES ASSUME NEW q \in Request
               PROVE /\ q \in mailed => /\ kind'[q] \in BeginKind
                                       /\ pc'[q] \notin {"authenticated", "handling"}
                     /\ kind'[q] \in CompleteKind => user'[q] = user'[token'[q]]
    BY <2>2 DEF LinkInv
  <2>5. CASE q = r
    <3>1. pc'[r] = stage /\ (k \in CompleteKind => t # r /\ t \in Request)
      BY <1>0, <1>1, <2>1, <2>2 DEF TypeOK
    <3> QED
      BY <1>1, <2>1, <2>3, <2>4, <2>5, <3>1
  <2>6. CASE q # r
    <3>1. kind[q] \in CompleteKind => token[q] # r /\ token[q] \in Request
      BY <1>0, <2>1 DEF FormInv
    <3> QED
      BY <2>3, <2>6, <3>1 DEF LinkInv
  <2> QED
    BY <2>5, <2>6
<1>2. ASSUME UNCHANGED formVars, mailed' \subseteq mailed \union {x \in Request :
                 kind[x] \in BeginKind /\ pc'[x] \notin {"authenticated", "handling"}},
             \A r \in Request : pc'[r] \in {"authenticated", "handling"} =>
                                  pc[r] \in {"authenticated", "handling"}
      PROVE LinkInv'
  BY <1>2 DEF LinkInv, formVars
<1>3. ASSUME NEW r \in Request, NEW p, ValidateChange(r, p) PROVE LinkInv'
  <2>1. \A q \in Request : pc'[q] \in {"authenticated", "handling"} =>
                             pc[q] \in {"authenticated", "handling"}
    BY <1>0, <1>3 DEF TypeOK, ValidateChange
  <2> QED
    BY <1>3, <2>1 DEF ValidateChange, LinkInv, mailVars
<1>4. ASSUME NEW r \in Request, Handle(r) PROVE LinkInv'
  BY <1>0, <1>2, <1>4 DEF TypeOK, Handle
<1>5. ASSUME NEW r \in Request,
             HandlerThrows(r) \/ Save(r) \/ SaveThrows(r) \/ Audit(r) \/ AuditThrows(r)
      PROVE LinkInv'
  BY <1>0, <1>2, <1>5
     DEF TypeOK, HandlerThrows, Save, SaveThrows, Audit, AuditThrows, mailVars
<1>6. ASSUME UNCHANGED <<mailVars, pc, formVars>> PROVE LinkInv'
  BY <1>2, <1>6 DEF mailVars
<1>7. ASSUME NEW r \in Request, NEW k \in CompleteKind, NEW t \in Request,
             ValidateComplete(r, k, t)
      PROVE LinkInv'
  <2>1. k \in Kind /\ t \in mailed /\ user[t] \in User
    BY <1>0, <1>7 DEF ValidateComplete, Kind, StageInv, MailInv
  <2> QED
    BY <1>1, <1>7, <2>1 DEF ValidateComplete
<1>8. ASSUME NEW r \in Request, NEW u \in User, NEW k \in Kind \ CompleteKind, NEW stage,
             Accept(r, k, u, NoToken, stage)
      PROVE LinkInv'
  BY <1>1, <1>8
<1>9. /\ "login" \in Kind \ CompleteKind /\ "changePassword" \in Kind \ CompleteKind
      /\ \A k \in BeginKind \union ResetKind : k \in Kind \ CompleteKind
  BY DEF Kind, BeginKind, CompleteKind, ResetKind
<1> QED
  BY <1>3, <1>4, <1>5, <1>6, <1>7, <1>8, <1>9
     DEF Next, ValidateBegin, ValidateLogin, ValidateReset, Authenticate, SetIsActive,
         DeleteUser, EditAuthenticationScheme, Expire, vars

\* The links, as the ledger has them.
Owner == [t \in mailed |-> user[t]]
Link == [r \in Following |-> token[r]]

\* A step that touches neither a link nor the form of its request is no step.
LEMMA NoLedgerStep ==
  ASSUME UNCHANGED <<tokens, used, committed, password, mailed, Following>>,
         \A t \in mailed : user'[t] = user[t],
         \A r \in Following : token'[r] = token[r]
  PROVE  UNCHANGED Links!vars
<1>1. Owner' = Owner
  BY DEF Owner
<1>2. Link' = Link
  BY DEF Link
<1> QED
  BY <1>1, <1>2 DEF Links!vars, Owner, Link

\* A request that comes with a good link follows it; any other goes unnoticed.
LEMMA AcceptLedger ==
  ASSUME IInv, NEW r \in Request, NEW k \in Kind, NEW u \in User,
         NEW t \in Request \union {NoToken},
         NEW stage \in {"authenticated", "handling", "refused", "threw"},
         Accept(r, k, u, t, stage),
         k \in CompleteKind => stage \in {"handling", "refused"},
         k \in CompleteKind /\ stage = "handling" => t \in tokens \ used
  PROVE  Links!Next \/ UNCHANGED Links!vars
<1>0. TypeOK /\ StageInv /\ MailInv
  BY DEF IInv
<1>1. r \notin mailed /\ r \notin committed /\ r \notin Following
  BY <1>0 DEF MailInv, StageInv, Accept, Following
<1>2. /\ kind' = [kind EXCEPT ![r] = k] /\ user' = [user EXCEPT ![r] = u]
      /\ token' = [token EXCEPT ![r] = t] /\ pc' = [pc EXCEPT ![r] = stage]
      /\ UNCHANGED <<tokens, used, committed, password, mailed>>
  BY DEF Accept, mailVars, tokenVars, accountVars
<1>3. /\ \A q \in mailed : user'[q] = user[q]
      /\ \A q \in Following : token'[q] = token[q]
  BY <1>0, <1>1, <1>2 DEF TypeOK, Following
<1>4. CASE k \in CompleteKind /\ stage = "handling"
  <2>1. Following' = Following \union {r}
    BY <1>0, <1>2, <1>4 DEF TypeOK, Following
  <2>2. Owner' = Owner
    BY <1>2, <1>3 DEF Owner
  <2>3. Link' = [x \in Following \union {r} |-> IF x = r THEN t ELSE Link[x]]
    BY <1>0, <1>1, <1>2, <1>3, <2>1 DEF Link, TypeOK
  <2>4. DOMAIN Owner = mailed /\ DOMAIN Link = Following
    BY DEF Owner, Link
  <2>5. Links!Follow(r, t)
    BY <1>1, <1>2, <1>4, <2>2, <2>3, <2>4 DEF Links!Follow, Links!New, Owner, Link
  <2>6. t \in Request
    BY <1>0, <1>4 DEF TypeOK
  <2> QED
    BY <2>5, <2>6 DEF Links!Next
<1>5. CASE ~(k \in CompleteKind /\ stage = "handling")
  <2>1. Following' = Following
    BY <1>0, <1>1, <1>2, <1>5 DEF TypeOK, Following
  <2> QED
    BY <1>2, <1>3, <2>1, NoLedgerStep
<1> QED
  BY <1>4, <1>5

\* Between its validation and its save a request mails its link, fails, or does
\* nothing to the ledger.
LEMMA StageLedger ==
  ASSUME IInv, LinkInv, NEW r \in Request,
         Handle(r) \/ HandlerThrows(r) \/ SaveThrows(r) \/ Audit(r) \/ AuditThrows(r)
  PROVE  Links!Next \/ UNCHANGED Links!vars
<1>0. TypeOK /\ StageInv /\ BeginKind \intersect CompleteKind = {}
  BY DEF IInv, BeginKind, CompleteKind
<1>1. UNCHANGED <<tokens, used, committed, password, kind, user, token>>
  BY DEF Handle, HandlerThrows, SaveThrows, Audit, AuditThrows, accountVars, tokenVars,
         formVars, historyVars
<1>2. DOMAIN Owner = mailed /\ DOMAIN Link = Following
  BY DEF Owner, Link
<1>3. CASE Handle(r) /\ kind[r] \in BeginKind
  <2>1. Following' = Following /\ r \notin Following
    BY <1>0, <1>1, <1>3 DEF TypeOK, Handle, Following
  <2>2. r \notin mailed /\ r \notin committed /\ mailed' = mailed \union {r} /\ user[r] \in User
    BY <1>0, <1>3 DEF Handle, LinkInv, StageInv
  <2>3. Link' = Link
    BY <1>1, <2>1 DEF Link
  <2>4. Owner' = [x \in mailed \union {r} |-> IF x = r THEN user[r] ELSE Owner[x]]
    BY <1>1, <2>2 DEF Owner
  <2>5. PICK u \in User : u = user[r]
    BY <2>2
  <2>6. Links!Mail(r, u)
    BY <1>1, <1>2, <2>1, <2>2, <2>3, <2>4, <2>5 DEF Links!Mail, Links!New, Owner, Link
  <2> QED
    BY <2>6 DEF Links!Next
<1>4. CASE Handle(r) /\ kind[r] \notin BeginKind
  <2>1. Following' = Following /\ mailed' = mailed
    BY <1>0, <1>1, <1>4 DEF TypeOK, Handle, Following
  <2> QED
    BY <1>1, <2>1, NoLedgerStep
<1>5. CASE HandlerThrows(r) \/ SaveThrows(r)
  <2>1. Following' = Following \ {r} /\ mailed' = mailed
    BY <1>0, <1>1, <1>5 DEF TypeOK, HandlerThrows, SaveThrows, Following, mailVars
  <2>2. Owner' = Owner
    BY <1>1, <2>1 DEF Owner
  <2>3. Link' = [x \in Following \ {r} |-> Link[x]]
    BY <1>1, <2>1 DEF Link
  <2>4. CASE r \in Following
    <3>1. Links!GiveUp(r)
      BY <1>1, <1>2, <2>2, <2>3, <2>4 DEF Links!GiveUp, Links!Forget, Owner, Link
    <3> QED
      BY <3>1 DEF Links!Next
  <2>5. CASE r \notin Following
    BY <1>1, <2>1, <2>5, NoLedgerStep
  <2> QED
    BY <2>4, <2>5
<1>6. CASE Audit(r) \/ AuditThrows(r)
  <2>1. Following' = Following /\ mailed' = mailed
    BY <1>0, <1>1, <1>6 DEF TypeOK, Audit, AuditThrows, Following, mailVars
  <2> QED
    BY <1>1, <2>1, NoLedgerStep
<1> QED
  BY <1>3, <1>4, <1>5, <1>6

\* A save stores the link, spends it, or serves a request that has none.
LEMMA SaveLedger ==
  ASSUME IInv, LinkInv, NEW r \in Request, Save(r)
  PROVE  Links!Next
<1>0. TypeOK /\ StageInv /\ FormInv
  BY DEF IInv
<1>1. /\ pc[r] = "saving" /\ r \notin committed /\ kind[r] \in Kind /\ user[r] \in User
      /\ committed' = committed \union {r}
      /\ UNCHANGED <<mailed, kind, user, token>>
  BY <1>0 DEF Save, SaveEffects, StageInv, mailVars, formVars
<1>2. PICK u \in User : u = user[r]
  BY <1>1
<1>3. password' \in {password, [password EXCEPT ![u] = r]}
  BY <1>2 DEF Save, SaveEffects, AccountEffects
<1>4. Following' = Following \ {r}
  BY <1>0, <1>1 DEF Save, Following, TypeOK
<1>5. Owner' = Owner
  BY <1>1 DEF Owner
<1>6. Link' = [x \in Following \ {r} |-> Link[x]]
  BY <1>1, <1>4 DEF Link
<1>7. DOMAIN Owner = mailed /\ DOMAIN Link = Following
  BY DEF Owner, Link
<1>8. CASE kind[r] \in BeginKind
  <2>1. r \in mailed /\ r \notin Following
    BY <1>0, <1>1, <1>8 DEF StageInv, Following, BeginKind, CompleteKind
  <2>2. tokens' = tokens \union {r} /\ used' = used /\ password' = password
    BY <1>8 DEF Save, SaveEffects, AccountEffects, BeginKind, CompleteKind, PasswordKind,
                NoticeKind
  <2>3. Link' = Link
    BY <1>1, <1>4, <2>1 DEF Link
  <2>4. Links!Store(r)
    BY <1>1, <1>5, <1>7, <2>1, <2>2, <2>3 DEF Links!Store, Owner, Link
  <2> QED
    BY <2>4 DEF Links!Next
<1>9. CASE kind[r] \in CompleteKind
  <2>1. r \in Following /\ token[r] \in tokens /\ token[r] \in mailed
    BY <1>0, <1>1, <1>9 DEF Save, RowsExist, Following, FormInv
  <2>2. tokens' = tokens /\ used' = used \union {token[r]}
    BY <1>9 DEF Save, SaveEffects, BeginKind, CompleteKind
  <2>3. Link[r] = token[r] /\ Owner[token[r]] = u
    BY <1>2, <1>9, <2>1 DEF Link, Owner, LinkInv
  <2>4. Links!Serve(r, Owner[Link[r]])
    BY <1>1, <1>3, <2>3 DEF Links!Serve
  <2>5. Links!Spend(r)
    BY <1>1, <1>5, <1>6, <1>7, <2>1, <2>2, <2>3, <2>4
       DEF Links!Spend, Links!Forget, Owner, Link
  <2> QED
    BY <2>5 DEF Links!Next
<1>10. CASE kind[r] \notin BeginKind \union CompleteKind
  <2>1. r \notin mailed /\ r \notin Following
    BY <1>10 DEF LinkInv, Following
  <2>2. tokens' = tokens /\ used' = used
    BY <1>10 DEF Save, SaveEffects
  <2>3. Link' = Link
    BY <1>1, <1>4, <2>1 DEF Link
  <2>4. Links!Serve(r, u)
    BY <1>1, <1>3 DEF Links!Serve
  <2>5. Links!WithoutLink(r, u)
    BY <1>1, <1>5, <1>7, <2>1, <2>2, <2>3, <2>4 DEF Links!WithoutLink, Links!New, Owner, Link
  <2> QED
    BY <2>5 DEF Links!Next
<1> QED
  BY <1>8, <1>9, <1>10

\* Every step of the commands is one of the ledger or changes nothing in it.
LEMMA LedgerStep == IInv /\ LinkInv /\ [Next]_vars => [Links!Next]_(Links!vars)
<1> SUFFICES ASSUME IInv, LinkInv, [Next]_vars PROVE Links!Next \/ UNCHANGED Links!vars
  OBVIOUS
<1>0. TypeOK /\ StageInv /\ MailInv /\ RowsInv
  BY DEF IInv
<1>1. ASSUME NEW r \in Request, NEW k \in CompleteKind, NEW t \in Request,
             ValidateComplete(r, k, t)
      PROVE Links!Next \/ UNCHANGED Links!vars
  <2>1. k \in Kind /\ t \in mailed /\ user[t] \in User
    BY <1>0, <1>1 DEF ValidateComplete, Kind, StageInv, MailInv
  <2>2. Verdict(Redeemable(k, t)) = "handling" => t \in tokens \ used
    BY DEF Verdict, Redeemable
  <2>3. Verdict(Redeemable(k, t)) \in {"handling", "refused"}
    BY DEF Verdict
  <2> QED
    BY <1>1, <2>1, <2>2, <2>3, AcceptLedger DEF ValidateComplete
<1>2. ASSUME NEW r \in Request, NEW u \in User, NEW k \in Kind \ CompleteKind,
             NEW stage \in {"authenticated", "handling", "refused", "threw"},
             Accept(r, k, u, NoToken, stage)
      PROVE Links!Next \/ UNCHANGED Links!vars
  BY <1>2, AcceptLedger
<1>3. ASSUME NEW r \in Request, NEW p, ValidateChange(r, p)
      PROVE UNCHANGED Links!vars
  <2>1. Following' = Following
    BY <1>0, <1>3 DEF TypeOK, StageInv, ValidateChange, Following, CompleteKind
  <2> QED
    BY <1>3, <2>1, NoLedgerStep DEF ValidateChange, accountVars, tokenVars, mailVars
<1>4. ASSUME NEW u \in User, DeleteUser(u) PROVE Links!Next
  <2>1. Owner' = Owner /\ Link' = Link
    BY <1>4 DEF DeleteUser, mailVars, formVars, Owner, Link, Following
  <2>2. /\ tokens' = {t \in tokens : Owner[t] # u}
        /\ used' = used \intersect tokens'
    BY <1>0, <1>4 DEF DeleteUser, Owner, RowsInv, TypeOK
  <2>3. Links!DeleteAccount(u)
    BY <1>4, <2>1, <2>2 DEF Links!DeleteAccount, DeleteUser, historyVars, Owner, Link
  <2> QED
    BY <2>3 DEF Links!Next
<1>5. ASSUME UNCHANGED <<password, mailVars, pc, formVars, historyVars, tokens, used>>
      PROVE UNCHANGED Links!vars
  BY <1>5, NoLedgerStep DEF mailVars, formVars, historyVars, Following
<1>6. /\ "login" \in Kind \ CompleteKind /\ "changePassword" \in Kind \ CompleteKind
      /\ \A k \in BeginKind \union ResetKind : k \in Kind \ CompleteKind
      /\ \A ok : Verdict(ok) \in {"authenticated", "handling", "refused", "threw"}
  BY DEF Kind, BeginKind, CompleteKind, ResetKind, Verdict
<1> QED
  BY <1>1, <1>2, <1>3, <1>4, <1>5, <1>6, StageLedger, SaveLedger
     DEF Next, ValidateBegin, ValidateLogin, ValidateReset, Authenticate, SetIsActive,
         EditAuthenticationScheme, Expire, vars, accountVars, tokenVars

\* Passwords and links are what the ledger promises, whatever races, fails or is
\* deleted.
THEOREM TokensImplementLinks == Spec => ImplementsLinks
<1>1. Init => Links!Init /\ LinkInv
  <2> SUFFICES ASSUME Init PROVE Links!Init /\ LinkInv
    OBVIOUS
  <2>1. mailed = {} /\ Following = {}
    BY DEF Init, Following, CompleteKind
  <2>2. Links!Init
    BY <2>1 DEF Init, Links!Init
  <2>3. LinkInv
    BY DEF Init, LinkInv, CompleteKind
  <2> QED
    BY <2>2, <2>3
<1>2. Spec => []LinkInv
  BY <1>1, LinkStep, TokenInvariant, PTL DEF Spec
<1> QED
  BY <1>1, <1>2, LedgerStep, TokenInvariant, PTL DEF Spec, ImplementsLinks, Links!Spec

-----------------------------------------------------------------------------
(* What is true of the statements that do not hold.                        *)

\* A request is announced when it was handled.  A token that was stored goes with
\* its account only.
OwnerInv ==
  /\ \A r \in announced : pc[r] \notin {"idle", "authenticated", "handling"}
  /\ \A r \in Following : token[r] \in committed
  /\ \A t \in committed : kind[t] \in BeginKind => t \in tokens \/ user[t] \notin users

\* Every step keeps what is known of the owners of tokens.
LEMMA OwnerStep == IInv /\ LinkInv /\ OwnerInv /\ [Next]_vars => OwnerInv'
<1> SUFFICES ASSUME IInv, LinkInv, OwnerInv, [Next]_vars PROVE OwnerInv'
  OBVIOUS
<1>0. TypeOK /\ StageInv /\ FormInv /\ MailInv /\ RowsInv
  BY DEF IInv
<1>1. ASSUME NEW r \in Request, NEW k, NEW u, NEW t,
             NEW stage \in {"authenticated", "handling", "refused", "threw"},
             Accept(r, k, u, t, stage),
             k \in CompleteKind /\ stage = "handling" => t \in tokens
      PROVE OwnerInv'
  <2>1. r \notin announced /\ r \notin committed /\ r \notin Following
    BY <1>0, <1>1 DEF OwnerInv, StageInv, Accept, Following
  <2>2. /\ kind' = [kind EXCEPT ![r] = k] /\ user' = [user EXCEPT ![r] = u]
        /\ token' = [token EXCEPT ![r] = t] /\ pc' = [pc EXCEPT ![r] = stage]
        /\ UNCHANGED <<announced, committed, tokens, users>>
    BY <1>1 DEF Accept, mailVars, accountVars, tokenVars
  <2>3. \A q \in Request : q # r =>
          kind'[q] = kind[q] /\ user'[q] = user[q] /\ token'[q] = token[q] /\ pc'[q] = pc[q]
    BY <1>0, <2>2 DEF TypeOK
  <2>4. kind'[r] = k /\ token'[r] = t /\ pc'[r] = stage
    BY <1>0, <2>2 DEF TypeOK
  <2>5. \A q \in Following' : token'[q] \in committed
    BY <1>0, <1>1, <2>3, <2>4 DEF OwnerInv, Following, RowsInv
  <2> QED
    BY <1>0, <2>1, <2>2, <2>3, <2>5 DEF OwnerInv, TypeOK
<1>2. ASSUME NEW r \in Request, NEW p, ValidateChange(r, p) PROVE OwnerInv'
  <2>1. Following' = Following
    BY <1>0, <1>2 DEF TypeOK, StageInv, ValidateChange, Following, CompleteKind
  <2> QED
    BY <1>0, <1>2, <2>1 DEF OwnerInv, ValidateChange, mailVars, accountVars, tokenVars, TypeOK
<1>3. ASSUME NEW r \in Request, Handle(r) PROVE OwnerInv'
  <2>1. Following' = Following
    BY <1>0, <1>3 DEF TypeOK, Handle, Following, formVars
  <2> QED
    BY <1>0, <1>3, <2>1
       DEF OwnerInv, Handle, accountVars, tokenVars, formVars, historyVars, TypeOK
<1>4. ASSUME NEW r \in Request, HandlerThrows(r) \/ SaveThrows(r) \/ Audit(r) \/ AuditThrows(r)
      PROVE OwnerInv'
  <2>1. Following' \subseteq Following
    BY <1>0, <1>4
       DEF TypeOK, HandlerThrows, SaveThrows, Audit, AuditThrows, Following, formVars
  <2> QED
    BY <1>0, <1>4, <2>1
       DEF OwnerInv, HandlerThrows, SaveThrows, Audit, AuditThrows, mailVars, accountVars,
           tokenVars, formVars, historyVars, TypeOK
<1>5. ASSUME NEW r \in Request, Save(r) PROVE OwnerInv'
  <2>1. Following' \subseteq Following
    BY <1>0, <1>5 DEF TypeOK, Save, Following, formVars
  <2>2. /\ committed' = committed \union {r} /\ UNCHANGED <<users, announced, kind, user, token>>
        /\ tokens \subseteq tokens' /\ (kind[r] \in BeginKind => r \in tokens')
    BY <1>5 DEF Save, SaveEffects, mailVars, formVars
  <2>3. \A q \in announced : pc'[q] \notin {"idle", "authenticated", "handling"}
    BY <1>0, <1>5 DEF OwnerInv, Save, TypeOK
  <2> QED
    BY <2>1, <2>2, <2>3 DEF OwnerInv
<1>6. ASSUME NEW u \in User, DeleteUser(u) PROVE OwnerInv'
  BY <1>6 DEF OwnerInv, DeleteUser, mailVars, formVars, historyVars, Following
<1>7. ASSUME UNCHANGED <<users, tokens, mailVars, pc, formVars, historyVars>> PROVE OwnerInv'
  BY <1>7 DEF OwnerInv, mailVars, formVars, historyVars, Following
<1>8. ASSUME NEW r \in Request, NEW k \in CompleteKind, NEW t \in Request,
             ValidateComplete(r, k, t)
      PROVE OwnerInv'
  BY <1>1, <1>8 DEF ValidateComplete, Verdict, Redeemable
<1>9. /\ "login" \notin CompleteKind /\ "changePassword" \notin CompleteKind
      /\ \A k \in BeginKind \union ResetKind : k \notin CompleteKind
      /\ \A ok : Verdict(ok) \in {"authenticated", "handling", "refused", "threw"}
  BY DEF BeginKind, CompleteKind, ResetKind, Verdict
<1>10. ASSUME NEW r \in Request, NEW k \in BeginKind, NEW u \in User, ValidateBegin(r, k, u)
       PROVE OwnerInv'
  BY <1>1, <1>9, <1>10 DEF ValidateBegin
<1>11. ASSUME NEW r \in Request, NEW u \in User, NEW p, ValidateLogin(r, u, p)
       PROVE OwnerInv'
  BY <1>1, <1>9, <1>11 DEF ValidateLogin
<1>12. ASSUME NEW r \in Request, NEW k \in ResetKind, NEW u \in User, ValidateReset(r, k, u)
       PROVE OwnerInv'
  BY <1>1, <1>9, <1>12 DEF ValidateReset
<1>13. ASSUME NEW r \in Request, NEW u \in User, Authenticate(r, u) PROVE OwnerInv'
  BY <1>1, <1>9, <1>13 DEF Authenticate
<1>14. ASSUME NEW u \in User, NEW b \in BOOLEAN, SetIsActive(u, b) PROVE OwnerInv'
  BY <1>7, <1>14 DEF SetIsActive, tokenVars
<1> QED
  BY <1>2, <1>3, <1>4, <1>5, <1>6, <1>7, <1>8, <1>10, <1>11, <1>12, <1>13, <1>14
     DEF Next, EditAuthenticationScheme, Expire, vars, accountVars, tokenVars

\* Of accepted requests for a reset link only those fail whose account is gone or
\* was last signed in by another scheme than e-mail and password.
ResetEndsMailed ==
  \A r \in Request :
    kind[r] = "beginForgotPassword" /\ pc[r] = "threw" =>
      user[r] \notin users \/ seenScheme[r] # "email_and_password"

\* Whoever is told of a recovered password has it, unless the account is gone or
\* the request is still running.
AnnouncedEndsDone ==
  \A r \in announced :
    kind[r] = "completeForgotPassword" =>
      pc[r] = "saving" \/ r \in committed \/ user[r] \notin users

\* Where nothing fails, every step keeps what is known of failed requests for a
\* reset link.
LEMMA ResetStep ==
  ASSUME Faults = {}, IInv, ResetEndsMailed, [Next]_vars
  PROVE  ResetEndsMailed'
<1>0. TypeOK /\ StageInv /\ FormInv
  BY DEF IInv
<1>1. ASSUME NEW r \in Request, NEW k, NEW u, NEW t, NEW stage, Accept(r, k, u, t, stage),
             stage # "threw" \/ k # "beginForgotPassword"
      PROVE ResetEndsMailed'
  <2>1. /\ kind' = [kind EXCEPT ![r] = k] /\ user' = [user EXCEPT ![r] = u]
        /\ seenScheme' = [seenScheme EXCEPT ![r] = lastScheme[u]]
        /\ pc' = [pc EXCEPT ![r] = stage] /\ users' = users
    BY <1>1 DEF Accept, accountVars
  <2>2. \A q \in Request : q # r => /\ kind'[q] = kind[q] /\ user'[q] = user[q]
                                    /\ seenScheme'[q] = seenScheme[q] /\ pc'[q] = pc[q]
    BY <1>0, <2>1 DEF TypeOK
  <2>3. kind'[r] = k /\ pc'[r] = stage
    BY <1>0, <2>1 DEF TypeOK
  <2> QED
    BY <1>1, <2>1, <2>2, <2>3 DEF ResetEndsMailed
<1>2. ASSUME UNCHANGED formVars, users' \subseteq users,
             \A r \in Request :
               pc'[r] = "threw" /\ pc[r] # "threw" /\ kind[r] = "beginForgotPassword" =>
                 user[r] \notin users \/ seenScheme[r] # "email_and_password"
      PROVE ResetEndsMailed'
  BY <1>2 DEF ResetEndsMailed, formVars
<1>3. ASSUME NEW r \in Request, NEW p, ValidateChange(r, p) PROVE ResetEndsMailed'
  <2>1. kind[r] = "changePassword" /\ \A q \in Request : q # r => pc'[q] = pc[q]
    BY <1>0, <1>3 DEF StageInv, ValidateChange, TypeOK
  <2> QED
    BY <1>3, <2>1 DEF ResetEndsMailed, ValidateChange, accountVars
<1>4. ASSUME NEW r \in Request,
             Handle(r) \/ HandlerThrows(r) \/ Save(r) \/ SaveThrows(r) \/ Audit(r) \/ AuditThrows(r)
      PROVE ResetEndsMailed'
  <2>1. UNCHANGED formVars /\ users' = users /\ \A q \in Request : q # r => pc'[q] = pc[q]
    BY <1>0, <1>4
       DEF Handle, HandlerThrows, Save, SaveThrows, Audit, AuditThrows, accountVars, TypeOK
  <2>2. ASSUME pc'[r] = "threw", kind[r] = "beginForgotPassword"
        PROVE  user[r] \notin users \/ seenScheme[r] # "email_and_password"
    <3>1. HandlerThrows(r) \/ SaveThrows(r)
      BY <1>0, <1>4, <2>2 DEF Handle, Save, Audit, AuditThrows, TypeOK
    <3>2. ~RowsExist(r) \/ ~CanRender(r)
      BY <2>2, <3>1 DEF HandlerThrows, SaveThrows, MayNotRender
    <3> QED
      BY <2>2, <3>2 DEF RowsExist, CanRender, CompleteKind
  <2> QED
    BY <1>2, <2>1, <2>2
<1>5. ASSUME NEW u \in User, DeleteUser(u) PROVE ResetEndsMailed'
  BY <1>2, <1>5 DEF DeleteUser
<1>6. ASSUME UNCHANGED <<users, pc, formVars>> PROVE ResetEndsMailed'
  BY <1>2, <1>6
<1>7. "beginForgotPassword" \notin CompleteKind \union ResetKind \union {"login", "changePassword"}
      /\ \A ok : Verdict(ok) # "threw"
  BY DEF CompleteKind, ResetKind, Verdict
<1>8. ASSUME NEW r \in Request, NEW k \in BeginKind, NEW u \in User, ValidateBegin(r, k, u)
      PROVE ResetEndsMailed'
  BY <1>1, <1>7, <1>8 DEF ValidateBegin
<1>9. ASSUME NEW r \in Request, NEW k \in CompleteKind, NEW t \in Request,
             ValidateComplete(r, k, t)
      PROVE ResetEndsMailed'
  BY <1>1, <1>7, <1>9 DEF ValidateComplete
<1>10. ASSUME NEW r \in Request, NEW u \in User, NEW p, ValidateLogin(r, u, p)
       PROVE ResetEndsMailed'
  BY <1>1, <1>7, <1>10 DEF ValidateLogin
<1>11. ASSUME NEW r \in Request, NEW k \in ResetKind, NEW u \in User, ValidateReset(r, k, u)
       PROVE ResetEndsMailed'
  BY <1>1, <1>7, <1>11 DEF ValidateReset
<1>12. ASSUME NEW r \in Request, NEW u \in User, Authenticate(r, u) PROVE ResetEndsMailed'
  BY <1>1, <1>7, <1>12 DEF Authenticate
<1> QED
  BY <1>3, <1>4, <1>5, <1>6, <1>8, <1>9, <1>10, <1>11, <1>12
     DEF Next, SetIsActive, EditAuthenticationScheme, Expire, vars, accountVars

\* Where nothing fails, accounts last signed in by their password get the link
\* they ask for.
THEOREM PasswordAccountsGetLinks == ASSUME Faults = {} PROVE Spec => []ResetEndsMailed
<1>1. Init => ResetEndsMailed
  BY DEF Init, ResetEndsMailed
<1>2. IInv /\ ResetEndsMailed /\ [Next]_vars => ResetEndsMailed'
  BY ResetStep
<1> QED
  BY <1>1, <1>2, TokenInvariant, PTL DEF Spec

\* Where no save fails, every step keeps what is known of announced resets.
LEMMA AnnouncedStep ==
  ASSUME "save" \notin Faults, IInv, LinkInv, OwnerInv, AnnouncedEndsDone, [Next]_vars
  PROVE  AnnouncedEndsDone'
<1>0. TypeOK /\ StageInv /\ FormInv /\ MailInv /\ RowsInv
  BY DEF IInv
<1>1. ASSUME NEW r \in Request, NEW k, NEW u, NEW t, NEW stage, Accept(r, k, u, t, stage)
      PROVE AnnouncedEndsDone'
  <2>1. r \notin announced
    BY <1>1 DEF OwnerInv, Accept
  <2>2. /\ kind' = [kind EXCEPT ![r] = k] /\ user' = [user EXCEPT ![r] = u]
        /\ pc' = [pc EXCEPT ![r] = stage] /\ UNCHANGED <<users, announced, committed>>
    BY <1>1 DEF Accept, accountVars, mailVars
  <2>3. \A q \in Request : q # r => kind'[q] = kind[q] /\ user'[q] = user[q] /\ pc'[q] = pc[q]
    BY <1>0, <2>2 DEF TypeOK
  <2> QED
    BY <1>0, <2>1, <2>2, <2>3 DEF AnnouncedEndsDone, TypeOK
<1>2. ASSUME UNCHANGED formVars, users' \subseteq users, committed \subseteq committed',
             NEW r \in Request, announced' \subseteq announced \union {r},
             \A q \in Request : q # r => pc'[q] = pc[q],
             r \in announced' => \/ pc'[r] = "saving" \/ r \in committed'
                                 \/ user[r] \notin users
                                 \/ r \in announced /\ pc[r] # "saving"
      PROVE AnnouncedEndsDone'
  BY <1>0, <1>2 DEF AnnouncedEndsDone, formVars, TypeOK
<1>3. ASSUME NEW r \in Request, NEW p, ValidateChange(r, p) PROVE AnnouncedEndsDone'
  <2>1. r \notin announced /\ \A q \in Request : q # r => pc'[q] = pc[q]
    BY <1>0, <1>3 DEF ValidateChange, OwnerInv, TypeOK
  <2> QED
    BY <1>0, <1>3, <2>1
       DEF AnnouncedEndsDone, ValidateChange, accountVars, mailVars, TypeOK
<1>4. ASSUME NEW r \in Request, Handle(r) PROVE AnnouncedEndsDone'
  BY <1>0, <1>2, <1>4 DEF Handle, accountVars, historyVars, TypeOK
<1>5. ASSUME NEW r \in Request, HandlerThrows(r) PROVE AnnouncedEndsDone'
  BY <1>0, <1>2, <1>5 DEF HandlerThrows, accountVars, mailVars, historyVars, TypeOK
<1>6. ASSUME NEW r \in Request, Save(r) PROVE AnnouncedEndsDone'
  BY <1>0, <1>2, <1>6 DEF Save, SaveEffects, mailVars, TypeOK
<1>7. ASSUME NEW r \in Request, SaveThrows(r) PROVE AnnouncedEndsDone'
  <2>1. kind[r] = "completeForgotPassword" => user[r] \notin users
    <3> SUFFICES ASSUME kind[r] = "completeForgotPassword" PROVE user[r] \notin users
      OBVIOUS
    <3>1. r \in Following /\ kind[r] \in CompleteKind
      BY <1>7 DEF SaveThrows, Following, CompleteKind
    <3>2. token[r] \in committed /\ user[r] = user[token[r]] /\ token[r] \in mailed
      BY <1>0, <3>1 DEF OwnerInv, LinkInv, FormInv
    <3>3. kind[token[r]] \in BeginKind
      BY <1>0, <3>2 DEF LinkInv, TypeOK
    <3>4. token[r] \in tokens \/ user[r] \notin users
      BY <3>2, <3>3 DEF OwnerInv
    <3> QED
      BY <1>7, <3>4 DEF SaveThrows, RowsExist
  <2> QED
    BY <1>0, <1>7, <2>1
       DEF AnnouncedEndsDone, SaveThrows, accountVars, mailVars, formVars, historyVars, TypeOK
<1>8. ASSUME NEW r \in Request, Audit(r) \/ AuditThrows(r) PROVE AnnouncedEndsDone'
  BY <1>0, <1>2, <1>8 DEF Audit, AuditThrows, accountVars, mailVars, historyVars, TypeOK
<1>9. ASSUME NEW u \in User, DeleteUser(u) PROVE AnnouncedEndsDone'
  BY <1>9 DEF AnnouncedEndsDone, DeleteUser, mailVars, formVars, historyVars
<1>10. ASSUME UNCHANGED <<users, pc, mailVars, formVars, historyVars>> PROVE AnnouncedEndsDone'
  BY <1>10 DEF AnnouncedEndsDone, mailVars, formVars, historyVars
<1> QED
  BY <1>1, <1>3, <1>4, <1>5, <1>6, <1>7, <1>8, <1>9, <1>10
     DEF Next, ValidateBegin, ValidateComplete, ValidateLogin, ValidateReset, Authenticate,
         SetIsActive, EditAuthenticationScheme, Expire, vars, accountVars

\* Where no save fails, "you have recovered your password" is true of every account
\* that stays.
THEOREM RecoveredAccountsHaveIt ==
  ASSUME "save" \notin Faults PROVE Spec => []AnnouncedEndsDone
<1>1. Init => LinkInv /\ OwnerInv /\ AnnouncedEndsDone
  BY DEF Init, LinkInv, OwnerInv, AnnouncedEndsDone, Following, CompleteKind
<1>2. IInv /\ LinkInv /\ OwnerInv /\ AnnouncedEndsDone /\ [Next]_vars => AnnouncedEndsDone'
  BY AnnouncedStep
<1> QED
  BY <1>1, <1>2, LinkStep, OwnerStep, TokenInvariant, PTL DEF Spec
=============================================================================
