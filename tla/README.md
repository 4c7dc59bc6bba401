# Formal models of Raytha Zero

TLA+ modules, TLC runs and TLAPS proofs kept beside the code of Raytha Zero, an
ASP.NET Core template of an administration portal (MediatR commands, EF Core on
PostgreSQL, Razor pages). `src/` below is the repository's source directory.

TLC checks small instances (`tlc -config X.cfg M`), TLAPS proves the theorems for
every value of the constants (`tlapm M.tla`). `PROJECT.json` lists the runs, the
source lines each definition models, and the hazards the properties are for.

## The system

| component | state it keeps | operations | what is hard about it |
|---|---|---|---|
| Background tasks (`Infrastructure/BackgroundTasks`) | table BackgroundTasks; a process-wide lock; one DbContext per worker | EnqueueAsync, DequeueAsync, the worker loop | several processes share the table; crashes, shutdown, lost replies; a long-lived DbContext |
| Request pipeline (`Application/Common/Behaviors`, `Infrastructure/Persistence`) | the request's DbContext and domain events | validate, handle, publish events, commit, audit, answer | nothing is locked between validation and commit; e-mails leave before the commit; the audit log is a second save |
| Forgot password, magic link (`Application/Login`) | tables OneTimePasswords, Users | Begin and Complete commands | single use under concurrency; partial failure |
| Password login, profile, password change and reset | Users | LoginWithEmailAndPassword, ChangePassword, both ResetPassword, ChangeProfile, CreateUser | the password is compared with what was read at authentication |
| Single sign-on (JWT, SAML) | Users, JwtLogins | LoginWithJwt, LoginWithSaml | jti used once, accounts made on the fly, two ways to find an account |
| Administrators, API keys | Users, RoleUser, ApiKeys | create, edit, delete, demote, (de)activate, keys | check-then-act across requests, limit of 10 keys |
| Users, groups, roles | Users, UserGroups, Roles | create, edit, delete, (de)activate | deletion races assignment, unique e-mail addresses |
| Authentication schemes | AuthenticationSchemes | create, edit, delete | at least one must stay enabled for administrators |
| E-mail templates | EmailTemplates, EmailTemplateRevisions | edit, revert | concurrent edits lose a revision |
| Media items | MediaItems, file storage | upload, presign, delete | two stores without a transaction |
| Sessions, authorization | the cookie, claims, permission bits | ValidatePrincipal, authorization handlers | stale claims |
| Organization settings, setup | OrganizationSettings | InitialSetup, EditConfiguration, EditSmtp | setup runs once |
| Client-side form validation (`Web/wwwroot/public/lib/jquery-validation*`) | a validator and the DOM it writes to, per form | parse, check on typing, leaving and submitting, remote rules, reset | late, lost and overtaken answers; submits held for them; rules that overwrite each other |
| Queries, list views, rendering, Razor pages, migrations | none of their own | read and show | not modelled: no state, or generated |

Components meet in the database and in the request pipeline. Web pages send one
command each through MediatR; commands raise domain events whose handlers send
e-mail; commands and pages enqueue background tasks, which workers of any process
execute. No row has a concurrency token and no command opens a transaction of its
own, so the database sees one atomic commit per `SaveChangesAsync` and any
interleaving of other requests before it.

What makes each component correct: a background task runs at most once and ends
with one final status; a token serves one request; an audit entry and a commit
belong together; at least one administrator can sign in by an enabled scheme; the
stated limits and uniqueness rules hold; every overwritten template text is kept
as a revision; rows and files correspond; a session's claims are those of its
account; a form's script sends only what it has checked and says why it refuses.

## Modules

| module | models | proofs |
|---|---|---|
| `TaskLedger` | what the task queue promises its callers (abstract) | |
| `BackgroundTasks` | queue, dequeue transaction, worker loop, processes | `BackgroundTasksProofs` |
| `MCBackgroundTasks` | constants for TLC | |
| `LinkLedger` | what passwords and mailed links promise (abstract) | |
| `OneTimeTokens` | the commands on tokens and passwords in the request pipeline | `OneTimeTokensProofs` |
| `MCOneTimeTokens` | constants, symmetry and bound for TLC | |
| `SchemeTable` | what the commands on schemes promise (abstract) | |
| `AuthSchemes` | create, edit and delete an authentication scheme | `AuthSchemesProofs` |
| `MCAuthSchemes` | constants and symmetry for TLC | |
| `Accounts` | the commands about administrators, users, roles and API keys | `AccountsProofs` |
| `AccountBook` | what those commands promise (abstract) | |
| `MCAccounts` | constants, symmetry, the commands sent and a bound, for TLC | |
| `UnobtrusiveAdapters` | `data-val-*` attributes to rules, and what the rules accept | `UnobtrusiveAdaptersProofs` |
| `ClientForms` | a form under the two validation scripts | `ClientFormsProofs`, `ClientFormsRulesProofs` |
| `MCClientForms` | eleven pages for TLC | |

### BackgroundTasks

The database is `status` (the Status column), `rowLock` (row locks held by open
transactions) and `effects` (tasks whose leftover changes were committed). A
process is `host` and `monitor` (its `_lockObject`). A worker is a label `pc` in
`BackgroundProcessing` with what it holds: the snapshot and the rows passed over
by its SELECT, the task in hand, the status it is about to write, and the changes
its DbContext tracks. `executions` is history.

| code | actions |
|---|---|
| `EnqueueAsync` | `Enqueue` |
| loop head, `Thread.Sleep` | `CheckToken` |
| `lock`, SELECT .. FOR UPDATE SKIP LOCKED | `BeginDequeue`, `LockRow`, `SkipRow` |
| UPDATE, COMMIT | `CommitDequeue` |
| leaving the lock; the catch that returns null | `ReturnFromDequeue`, `DequeueThrows` |
| First, service lookup, `Execute`, the catch block | `StartExecute`, `ResolveFails`, `ExecuteEnds` |
| final `SaveChangesAsync` | `SaveOutcome`, `WorkerThrows`, `SaveReplyLost` |
| the .NET host | `Stop`, `Exit`, `Crash`, `Start` |

Points that shaped the model:

- the SELECT has no LIMIT, so a dequeue locks every waiting row until it commits;
  workers of another process skip those rows and may overtake them. Within a
  process `_lockObject` prevents that.
- READ COMMITTED evaluates the WHERE clause again when it locks a row
  (`Lockable`), which is what keeps a row taken meanwhile from being taken again.
- the token is looked at before the sleep only, so a worker asleep at shutdown
  still takes one more task.
- the final save is given the stopping token. EF's execution strategy throws on a
  cancelled token before it saves, so a task that completes after shutdown began
  is left `processing` (`SaveCommits` needs the host up).
- an exception outside the try block ends the loop and, by .NET's default
  (`BackgroundServiceExceptionBehavior.StopHost`), the host.
- nothing picks a `processing` row up again; NumberOfRetries, TaskStep and
  StatusInfo are never used. `LostStaysLost` states this as it is.
- initially the table is empty and every process is up. Locks of a dead
  connection are released at once; PostgreSQL may take longer, which only delays.

Properties: `AtMostOnce`, `SingleOwner`, `CleanContext`, `LocksUnderMonitor`
(invariants), `FinalIsFinal`, `LostStaysLost`, `OldestFirst` (actions),
`ImplementsLedger` (refinement: same variables, everything else hidden),
`WaitingTasksAreTaken` and `TasksFinish` (liveness).

Fairness: `WF` of each worker's steps without failure, because the thread pool
runs every worker and a task's `Execute` is assumed to end; `WF` of `Start`,
because an operator or an orchestrator (`docker-compose.yaml`) starts the
application again. Failures have no fairness. `WaitingTasksAreTaken` needs all
hosts up from some time on; `TasksFinish` needs them never to go down.

### OneTimeTokens

The four commands on one-time tokens, and those on passwords: a login, an
administrator's change of his own password, and the two resets by an administrator
(`resetSilently` is one without SendEmail). A request goes through `pc`: idle,
authenticated (ChangePassword only), handling, saving, auditing, then answered,
refused (validation) or threw (exception). A token is named by the request that
made it. The validator's queries are one step (they only read, and the handler
reads the same rows again through the same DbContext); publishing the event with
its e-mail is one step before the commit; the commit is one step; the audit save
is another. Handlers keep what their DbContext read (`seenScheme`, `seenPassword`),
and neither `IsUsed` nor the password is looked at again before the commit. A
password is named by the request that set it; `given` is the one a request comes
with. `committed`, `late` and `overtaken` are history.

| code | actions |
|---|---|
| validators of the token commands, `ValidationBehaviour` | `ValidateBegin`, `ValidateComplete` |
| LoginWithEmailAndPassword, validator | `ValidateLogin` |
| Admins/ and Users/ResetPassword, validators | `ValidateReset` |
| `ValidatePrincipal`, then ChangePassword's validator | `Authenticate`, `ValidateChange` |
| handlers up to the event's e-mail | `Handle`, `HandlerThrows`; what they write is in `SaveEffects`, `AccountEffects` |
| `RaythaDbContext.SaveChangesAsync` | `Save`, `SaveThrows` |
| `AuditBehavior` | `Audit`, `AuditThrows` |
| other commands, time | `SetIsActive`, `DeleteUser` (and DeleteAdmin), `EditAuthenticationScheme`, `Expire` |

Points that shaped the model:

- the event handler's `User.AuthenticationScheme.DeveloperName` finds a scheme if EF
  Core has set the navigation, that is, if the scheme is included or tracked by the
  request. `CanRender` and `MayNotRender` hold the rule: Users/ResetPassword includes
  no scheme and tracks its sender's besides the e-mail scheme, and every notice throws
  for an account without a scheme, such as the one the setup makes before it signs in.
- token kinds share one table without a kind column, so either completion may name
  either sort of token.
- the DbContext that checks the cookie is the one ChangePassword's validator and
  handler use. Their queries find the row as it is but hand out the entity tracked at
  authentication, so IsActive and the password are those read then (`seenPassword`).
- only the administrators' pages send ChangePassword and ResetPassword. A session may
  be older than the behaviours here: `Authenticate` needs no login before it, but an
  account that has signed in once (its scheme is in the claims). The page and the
  validator of ChangePassword look at the scheme; EF returns the same tracked row, so
  this is one step.
- whoever asks for a link, follows one or signs in has no session, so nothing but the
  request itself has loaded an account or a scheme.
- requests with malformed fields are refused and left out. SetIsActive stands for the
  user and the administrator command; other schemes than the two built-in ones are
  assumed to satisfy the rule of one scheme for administrators.

Properties: `NoLateCompletion`, `UsedMeansConsumed`, `StoredLinkWasMailed`,
`ResetWasAnnounced`, `AuditTrail` (invariants) and `ReplacedKnowingly` (action) hold.
The last says that a change of password replaces the one its sender gave, unless
another change overtook it; `NoLateCompletion` covers links whose token was consumed
and logins and changes with a password already replaced. Three statements of the
repository do not hold:

- `SingleUse`: "Token is consumed or expired." (CompleteForgotPassword.cs:67).
  Two overlapping completions both pass the check and both commit. What does hold
  is `NoLateCompletion`: a request that comes after the consumption fails.
- `AcceptedResetIsMailed`: "Email me a password reset link". For an account whose
  last login was by single sign-on, or that never logged in and has no scheme,
  the event handler dereferences null and the request throws.
- `AnnouncedResetIsDone`: "You have successfully recovered your password." is
  sent before a save that can still fail.

`LinkLedger` is the life of a link and of the passwords it may set, without the
pipeline. `ImplementsLinks` maps the links that were mailed with their accounts
(`owner`), the rows (`stored`), IsUsed (`spent`), the completions that were found good
up to their save (`link`) and `committed` (`done`) to it. The e-mail is `Mail`, a Begin
request's commit `Store`, a validation that accepts `Follow`, the commit of a completion
`Spend`, that of any other command `WithoutLink`, an exception `GiveUp`; a refusal, the
audit log and edits of schemes stutter.

### AuthSchemes

The table is `rows`, `name` (DeveloperName) and `forAdmins` (IsEnabledForAdmins).
A request is a slot, a tab of an administrator's browser, with a label `pc`, its
command, the row it is about, whether the row's page showed its box ticked when it
was opened (`shownTicked`), the box as it was posted (`ticked`) and what the
validator read (`seenTicked`). Two variables are history: `stale`, the requests
during which another has changed `forAdmins`, and `outdated`, the tabs whose page was
before somebody when another switched its row.

| code | actions |
|---|---|
| CreateAuthenticationScheme, validator | `ValidateCreate` |
| `Edit.cshtml.cs`, `OnGet` | `OpenPage` |
| `OnPost`; Edit and Delete, validators: first query | `ReadForEdit`, `ReadForDelete` |
| Edit and Delete, validators: the count | `Count`, `CountRefuses` |
| `OnPost` after a refusal: the page again | `ShowAgain`, in `CountRefuses` |
| another page in the same tab | `LeavePage` |
| Edit and Delete, handlers: `First` | `HandleRow`, `QueryThrows` |
| `SaveChangesAsync` | `SaveCreate`, `SaveEdit`, `SaveDelete`, `SaveThrows` |

The validator and the handler share one DbContext, so the handler gets the entity
with the values the validator read, and the save writes only columns the form has
changed (`Written`). So a switch by another request while an edit is served is not
undone by an edit of the label. Before that nothing protects it: the page posts every
field, changed or not, and no version of the row, so a page that was opened before
the switch takes it back when only its label is edited, and so does one that is shown
again after a refusal. A deletion may always throw: accounts refer to the scheme
they last signed in by, and that foreign key does not cascade. Going back to a page
whose edit was served or threw is left out.

Properties: `OneSchemePerName`, `BuiltInStays` (invariants), `LastSchemeTakenByRace`
and `SwitchedAsMeant` (actions). The last says how another's choice may be undone
unawares: by a page that was out of date when it was posted, and in no other way.
Whoever posts a page that is not has changed the box from what it showed, or switches
nothing. The rule of the validators, `SomeSchemeForAdmins`,
does not hold: two edits that overlap count each other's scheme.
`LastSchemeTakenByRace` says what does: nobody but an overtaken request can break it.

`SchemeTable` is the table with each command checked and done in one step.
`ImplementsTable` maps the names of the rows, the requests being served (`InFlight`, its
`open`) and `stale` (`overtaken`) to it. A request that arrives opens, its queries and
pages that are opened stutter, and its save, refusal or exception is the command: a save
of a request nobody has overtaken finds what the abstract command asks for, another
scheme when it takes one away and the switch as it read it. One that was overtaken is promised only what
the unique index and the tracked row give.

### Accounts

The tables are `users` with `admins` (IsAdmin) and `active` (IsActive), `roles`,
`has` (RoleUser) and `keys` (a count of ApiKeys per account). A request is a slot:
its command (`kind`), the account or role it names, the roles of its form, whether
it is about its sender's own account (`own`), and the join rows its DbContext
tracks (`seen`). Authorization, validation and the handler's queries read the
tables at three times; the save is one commit. `stale` is history: requests during
which another has committed.

| code | actions |
|---|---|
| `ValidatePrincipal`, the rules on the form and on one's own account | `Start` by way of `StartOnOther`, `StartKey`, `StartEditAdmin`, `StartCreateAdmin`, `StartCreateUser`, `StartOnRole` |
| validators that query | `Validate` |
| handlers up to the save | `Handle` |
| `SaveChangesAsync` of Admins/ EditAdmin, RemoveAdminAccess, CreateApiKey, DeleteApiKey | `SaveEditAdmin`, `SaveRemoveAdminAccess`, `SaveCreateApiKey`, `SaveDeleteApiKey` |
| of Admins/CreateAdmin: an account that is there, a new one | `SavePromote`, `SaveCreate` |
| of DeleteAdmin and DeleteUser, of both SetIsActive, of Users/CreateUser | `SaveDelete`, `SaveSuspend`, `SaveRestore`, `SaveCreate` |
| of Roles/ CreateRole, DeleteRole | `SaveCreateRole`, `SaveDeleteRole` |
| refusals and exceptions | `Fails` |

Points that shaped the model:

- authorization, validator and handler share one DbContext. A query filters on the
  row as it is, but hands out the entity that was tracked first (`IsAdminTo`).
- EditAdmin and RemoveAdminAccess write the difference to the roles they loaded.
  A join row that is gone, or there already, makes the whole save throw.
- CreateAdmin does not load the roles of an account it promotes (`SavePromote`).
- deleting an account or a role cascades in the database to join rows and keys
  nobody loaded.

Properties: `LastAdminLostByRace`, `RolesFitExceptByRace`, `AdministratorsKept` and
`KeysWithinRules` (actions) say what overlapping requests alone can break:
that there is an active administrator, that administrators are those with a role,
that the users' pages leave administrators alone, and the rules for keys. The limit
of the validator, `KeyLimitKept`, does not hold.

`AccountBook` has the same tables, with each command authorized, checked and done in
one step. `ImplementsBook` maps the roles of the forms (`asked`), the requests that are
not idle (`open`) and those overtaken to it: arrival is one step, what reads is none,
a save is its command, and a refusal or exception leaves the tables as they were. Even
an overtaken save is about one account or one role, inserts no account that is there,
gives a promoted one no role twice and, if it is about an account, touches nobody
else's roles. One that was not overtaken
does what was asked of it: it was sent by an administrator who is still one, and is not
the account it demotes, suspends or deletes; an edit leaves the roles its form asks for
and no others; a demoted account has no roles left; a promoted one was no
administrator; a deleted role was nobody's.

Left out: names, spelling and changes of addresses, permissions (any administrator
sends any command), user groups, EditUser and EditRole, passwords (`OneTimeTokens`), and the stamps
CreatorUserId and LastModifierUserId, whose foreign keys only make more saves
throw. A public registration (Login/CreateUser) does to these tables what
Users/CreateUser does.

### ClientForms

`wwwroot` ships jQuery Validate 1.19.5 and the unobtrusive adapter over it;
`Areas/Public/Pages/Shared/_ValidationScriptsPartial.cshtml` links both. No page
includes that partial at this commit, so the module is about pages that do. `form` is
the validator with the DOM it writes to: `rules` and `sentAlong` (the remote rule);
`errors`, `invalid`, `submitted` (errorMap, invalid, submitted); `previous` (the
remote method's memory per element); `flight`, `lost`, `orphans` (its request: under
way, never answered, sent before a reset); `pending`, `pendingRequest`,
`formSubmitted`; `linked` (equalTo's binding); and the display, `inError`, `messages`,
`summary`. `UnobtrusiveAdapters` holds the adapters as operators that give the rules they write, as
a function from names to parameters, and the methods as predicates on what they look at
in a value. The code's rules object is mutated by one adapter after the other;
`ParseElement` says what it ends as: each rule has the parameter its last writer gave it
and the place (`at`) its first writer gave it, which is where JavaScript lists it.

| code | actions and operators |
|---|---|
| `parseElement`, the adapters | `ParseElement`, `Adapt` |
| `parse`, `validationInfo`, `attachValidation` | `Ready`, `InsertAndParse` by way of `Parse`, `Attach` |
| `onkeyup`, `onfocusout`, `onclick`, equalTo's blur | `KeyUp`, `FocusOut`, `Click`, `BlurOfTarget` |
| `element()`, `form()`, `showErrors`, `onError`, `onErrors`, `onSuccess` | `CheckElement`, `CheckForm`, `ShowErrors` |
| the submit handler | `Submit`, `SubmitCancel`, `SubmitThrows` |
| `remote`, `startRequest`, the ajax mode "abort" | `Ask` |
| its success callback, `stopRequest` | `AnswerFalse`, `AnswerTrue`, `AnswerReleases` |
| an error or an abort, which nothing handles | `Lose` |
| `onReset` | `Reset` |
| user, browser and page scripts | `Edit`, `SubmitUnattached`, `Load` |

Points that shaped the model:

- a form gets its validator once, with a copy of the rules known then. Elements that
  are inserted and parsed later have no rules in it (`Attach`).
- a submit with requests pending is held (`formSubmitted`) and goes by itself when the
  last answer comes. A reset or an edit does not let go of it; the form is checked
  again as it is by then. After a refused release the flag stays set, so a later
  answer may still send the form.
- a request that is lost leaves its field pending: no submit is let through until that
  field is asked about again. This is what `HeldSubmitIsDecided` excludes.
- a reset drops the memory an old request's callback writes to. The late answer still
  reaches the display: an error may appear on a form that was just reset.
- the text of a message stays in its container after a reset; the class hides it.
- `accept`, `extension` and `creditcard` have no method in the script that is shipped.
  A check that meets such a rule throws, the submit event is left alone, and the
  browser sends the form unchecked (`SubmitThrows`).
- two attributes of one element may write the same rule: the later adapter wins.
- `nonalphamin` is the one method that an empty field fails.
- a range of one bound hands the text of its attribute to `min` or `max`, and
  `normalizeRules` makes no number of it, as it does for `range`. Both sides of the
  comparison are texts: "10" is refused for a minimum of "5", and a word may be
  accepted. So a value has a place in the order of texts (`order`) besides its number,
  and so has a bound.
- equalTo looks its field up when it is parsed. If the field is not in the form then,
  the rule has no parameter and is dropped (`there` in `LocalRules`).

`RulesMeanAnnotations` compares the rules of an element with what its attributes say,
read as ASP.NET means them (`Meets`). Where the code departs from that the property
names it: an empty field that `nonalphamin` refuses; a range of one bound where texts
and numbers are ordered differently (`TextsMislead`), in both directions; a comparison
with an element that was inserted after the parse (`TargetIsLate`); and two attributes
that write the same rule (`Overridden`). `RefusedWithReason` is about every submit that
is refused: a click, also one while an earlier submit is still held, a held submit
found wrong when it is checked again, and one that is let go.

Properties: `SentIsChecked`, `RulesMeanAnnotations`, `ErrorsAreShown`,
`RememberedIsAnswered`, `RequestsAreCounted` (invariants), `RefusedWithReason`
(action), `HeldSubmitIsDecided` (liveness).

Fairness: `WF` of `Answer` for each field, that is, a request that is not lost is
answered. The user is never obliged to do anything: `HeldSubmitIsDecided` speaks of
users who from some time on neither edit nor reset the form.

Left out: the texts of messages, ignored, hidden and disabled elements, groups,
`focusInvalid`, rules added by script, forms without a `data-valmsg` container. A
field whose check throws does not share a page with a remote rule
(`PagesAssumption`); an element is the target of at most one equalto rule.
`AttributesAssumption` says what ASP.NET writes: a range has a bound, equalto names an
element of the form, nonalphamin asks for one character at least. `MethodsAssumption`
names the methods the two scripts define themselves, whatever else is linked.

## Runs

| run | instance | shows |
|---|---|---|
| `bgtasks_safety` | 2 tasks, 3 workers, 2 hosts, all faults | all safety properties and the refinement |
| `bgtasks_live` | 2 tasks, 2 workers on 2 hosts, stop and crash | both liveness properties |
| `tokens` | 3 requests, 1 administrator, all faults | the invariants of tokens and passwords, `ReplacedKnowingly` and the refinement |
| `token_single_use` | 3 requests, no faults | `SingleUse` is violated |
| `token_reset_link` | 3 requests, no faults | `AcceptedResetIsMailed` is violated |
| `token_notice` | 3 requests, failing saves | `AnnouncedResetIsDone` is violated |
| `schemes` | 2 requests, 4 rows, 3 names | the scheme invariants, action properties and the refinement |
| `schemes_last` | the same | `SomeSchemeForAdmins` is violated |
| `accounts` | 2 requests, 2 accounts, 2 roles, every command but those on keys | the account invariants, action properties and the refinement |
| `accounts_keys` | the same, commands on keys and those that make and unmake administrators, limit 1 | `KeysWithinRules` and the refinement |
| `accounts_key_limit` | the same | `KeyLimitKept` is violated |
| `forms` | 11 pages, 2 fields, 3 values, answers late, lost and overtaken by edits and resets | the form properties and the liveness of held submits |

Bounds. Two tasks are enough to order, skip and confuse tasks; three workers on
two hosts give both a pair that shares the process lock and a pair that does not.
Hosts may crash and start again any number of times: no counter is needed since
every variable is finite and `executions` is kept at 1 by the property itself.
The run `bgtasks_live` is smaller: each host has one worker, and the only faults are
stops and crashes. Waiting for the process lock, a dequeue that throws and a final save
that fails are covered by `bgtasks_safety` only.
Three requests give one that makes a token and two that compete for it, two tokens
and a completion, or a change of password between two others. In the run `tokens` the
account is an administrator, who may send every command; the three runs that end in a
violation have a user, so that both sides of `Side` and both pages of ResetPassword
occur. Schemes are switched only for the side the account is on. One thing of the
background changes at a time (a scheme or account is switched off, the account is
deleted, or a token expires), and at most one reset and one login are sent (constraint
`EditsMatter`): each of these can fail or overtake a request on its own, and the
theorems have no such bound. Requests are interchangeable
(symmetry). Two overlapping requests are what the scheme properties are about; two
rows besides the built-in ones let two creations compete for a name. A slot is used
any number of times. Two accounts are two administrators that act on each other, or
one and a user. In the run `accounts` an edit of an administrator overlaps only with
requests about the same account or about a role, and creations overlap only if they are
of one account (constraint `RequestsMeet`: on different accounts they do not touch the
same rows; the theorems have no such bound). A limit of 1 key is reached at once and
passed by two requests that overlap. The pages of `forms` differ in
their attributes: one and two remote rules, a comparison, lengths and ranges, rules
that override each other, ranges of one bound, a password and a checkbox, rules without a
method, elements inserted later, one of them compared with. Two fields let one be pending while the other is refused, and let the
answer to one decide a submit that the other holds back; of three values one is empty,
one is accepted by the server and one is refused. The account runs do not check deadlock: with the last active administrator gone
nobody can send a command any more. The proofs cover what the bounds leave out.

## Proofs

`BackgroundTasksProofs` proves, from `QueueAssumption` alone, the invariants, the
three action properties and `Spec => Ledger!Spec`. The invariants are not
inductive by themselves. `IInv` adds: what a worker holds at each label
(`HandsInv`), which rows may be locked and that a locked, selected row still waits
(`RowsInv`), that the workers inside a dequeue are exactly the holders of their
monitor (`MonitorInv`), that a task not yet executed has no execution recorded
(`RunsInv`), that unsaved changes are of the task in hand (`ContextInv`), and that
a host that is down has nothing (`DownInv`). `OrderInv` says which rows a SELECT
has passed over and why. The refinement maps every step to one step of the ledger
or to a stutter (`LedgerStep`).

`OneTimeTokensProofs` proves the token invariants for any number of requests and
accounts and all faults, from `TokenAssumption`. `IInv` ties the place of a request
in the pipeline to the database, the mailboxes and the log (`StageInv`), a
completion to a mailed token (`FormInv`, `MailInv`), tokens and consumed tokens to
committed requests (`RowsInv`), a late request to its refusal (`LateInv`), and a
change that nobody overtook to the password it was given: what it read at
authentication is still the account's (`KnownInv`), which is `ReplacedKnowingly` at its
save. The refinement of `LinkLedger` needs one more invariant, `LinkInv`: mailed links
come from Begin requests that were handled, and a completion is about the account of its
link. `AcceptLedger`, `StageLedger` and `SaveLedger` map the steps of a request,
`LedgerStep` all of them. Two theorems say how far the statements that are violated do
hold. `PasswordAccountsGetLinks`: where nothing fails, a request for a reset link that
was accepted throws only if its account is gone or was last signed in by another scheme.
`RecoveredAccountsHaveIt`: where no save fails, an account that was told so has its new
password, or is gone (`OwnerInv`: a stored token goes with its account only). Their
hypotheses are on `Faults`, so they are about the program without these failures; the
two runs show what happens otherwise.

`AuthSchemesProofs` proves, from `SchemeAssumption`, all properties of the run
`schemes`. `IInv` adds what a request knows: unless it was overtaken, the value it
read is the current one, and once it has counted, a second scheme is enabled beside
the one it takes away (`FreshInv`, with the lemma `AnotherLeft` on the count). The
refinement needs one more invariant, `NewRowInv`: a row about to be inserted has an id
no row and no other request has. `SwitchedAsMeant` needs `PageInv`: a page that is not
out of date shows its row as it is, and an edit posted from one has read what the page
showed; `CommitKeepsPages` is its hard case, the save of another request. `TableStep` maps every step to a step of
`SchemeTable` or a stutter, with a lemma for each of the three saves.

`AccountsProofs` proves, from `AccountAssumption`, all properties of the runs
`accounts` and `accounts_keys`. `IInv` adds what a request is about (`FormInv`) and
what one that was not overtaken knows (`FreshInv`): since authorization, that its
sender is another active administrator than the account it acts on and that the
join rows it tracks are there (`Authorized`); since validation, what was checked
(`Checked`); when it saves, that it has loaded all roles of the account (`Loaded`).
`OnlySaves` reduces each property to the saves of such requests. The refinement needs
more of `Checked` and `Loaded` (what `suspend`, `restore` and promotions look at) and
that a deletion past its validator is not that of the Super Admin role (`FormInv`).
`SaveIsDone` gives what all saves share; there is one lemma for each group of saves
(`EditSets`, `RemovalDemotes`, ...), and `BookStep` joins them.

`ClientFormsProofs` proves, from `PagesAssumption`, the types and all safety
properties of the run `forms` but `RulesMeanAnnotations` (below), for any fields, values,
pages and server. `IInv` says of each field what its request, its memory and its
place in `pending` have to do with each other (`FieldInv`: a request in flight asks
what is remembered, unless a reset made it an orphan and nothing is remembered, and a
lost one is not in flight), that the counter is the number of pending fields and a
field that is not pending remembers the server's answer (`AskingInv`),
that errors are shown (`ShownInv`), and that the rules are those
parsed from the page (`RulesInv`). The lemmas about `Ask`, `Check` and the display
operators say what each keeps; `NothingThrows` shows that a page with a remote rule
never throws, and `CleanCheckIsRight` that a check without errors or requests means
what `SentIsChecked` asks.

`ClientFormsRulesProofs` proves `RulesMeanAnnotations`, for any page, values and methods,
from the three assumptions. `Means` relates the rules one adapter writes to its
attribute; there is a lemma for each kind of adapter (`AdaptersMean` joins them), and
`RangeMeans` is where the order of texts comes in.
`UnobtrusiveAdaptersProofs` says where the rules of an element come from:
`RulesAreWritten` that every rule has the parameter some adapter wrote,
`ApartRulesAreKept` that each adapter's own parameters stay if no two write the same
rule. `ParsedRulesMean` puts both together for an element. The inductive invariant is
`ParsedInv`: elements of the loaded page are in the form before the one parse that
attaches, and from then on the validator's rules are what their attributes parse to
with the fields in the form at that moment (`ParsedIn`).
`WhatIsSentIsMeant` joins it with `SentIsChecked`: whenever the script sends the form,
each element of the loaded page holds a value that each of its attributes accepts
(`ObeysRules`), but for a range whose texts mislead and a comparison with a late element,
or has two attributes for the same rule. For those the script sends what the attributes
do not accept, and only the server can tell.

The refinement is `INSTANCE TaskLedger WITH` the tasks, `status`, `executions` and
`effects` of the queue; TLC checks it in `bgtasks_safety`, and it is proved.

Only model-checked: the liveness properties `WaitingTasksAreTaken`, `TasksFinish` and
`HeldSubmitIsDecided` (fairness is out of the prover's reach), and the five statements
that are violated.

## Plan

In this order; each with an MC module, and a proof module where named.

1. `Accounts`, extended: user groups, changes of addresses (the validators compare
   in lower case, the index does not), and the promise of DeleteRole that no user
   is assigned to a deleted role as a run.
2. `SingleSignOn`: JWT and SAML logins, jti consumed once thanks to the unique
   index (abstract specification: a set of consumed tokens), accounts made on the
   fly are not made twice.
3. `Permissions`: permission bits as sets, the authorization handlers and the header
   check of API keys, cookies against a changing account.
4. `EmailTemplates`: edits and reverts, abstract specification of a history.
5. `MediaItems`: row and file, uploads and deletions with failures between.
6. `Setup`: initial setup raced by a second request.

Composition: the commands of `OneTimeTokens` over the accounts of `Accounts`.

## Not modelled

- `SingleSignOn`, `Permissions`, `EmailTemplates`, `MediaItems` and `Setup` are planned
  as above; the hazards they are for are listed in `PROJECT.json` without a property.
- queries, list views and paging read and keep no state.
- templates are rendered by a third-party engine; their text is data.
- Razor pages send one command each. What a page shows is old when it is posted; this is
  modelled for the edit page of a scheme (`AuthSchemes`) and left out of the other
  modules, whose requests come with any form. `site.js` holds comments only.
- migrations are generated. The unique indexes and cascades they create are part of
  the modules.
