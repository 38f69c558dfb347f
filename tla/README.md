# Verification of a12n-server

TLA+ models of a12n-server, an OAuth2 authorization server and user database
written in TypeScript. The models are translated from `src/` (the server), model
checked with TLC on small instances, and proved about with TLAPS for every value
of their constants. Paths below are relative to the server's own `src/`.

Contents:

1. the system: its components, their state, and what makes them hard
2. the modules and how they correspond to the code
3. the runs, their bounds and what they show
4. fairness
5. the theorems and how they are proved
6. where the code and its documentation disagree
7. what is not modelled, and the plan

## 1. The system

The server is one node process (or several behind one database): koa-style
controllers call services, services call the database through knex, and
everything that is not in a table is in a key/value store, which is redis or a
`Map` of the process. Handlers interleave at every `await`, so that two requests
on the same row interleave at every statement unless a transaction locks it.
Hardly any operation uses one.

| component | state | operations | interacts with |
| --- | --- | --- | --- |
| OAuth2 codes and tokens (`oauth2/`) | `oauth2_codes`, `oauth2_tokens` | authorize, exchange, refresh, five direct grants, revoke, logout | browser session (who is logged in, logout), principals (active), app clients, authorization challenge |
| Authorization challenge (`login/service.ts`, `login/challenge/`) | login session in the key/value store, `verified_at` | start, continue, four challenges, issue a code | key/value store, lock-out, TOTP, URI codes, identities, OAuth2 codes |
| Password lock-out (`login/login-activity/`, `user/service.ts`) | `user_login_activity` | check, count a failure, reset | login form, password grant, authorization challenge |
| Key/value store (`kv/`) | a `Map` with expiry and a timer, or redis | get, set, delete, collect | browser sessions, login sessions, URI codes |
| Browser login, MFA (`login/controller/`, `mfa/`, `logout/`) | browser session | login, TOTP or WebAuthn step, logout | lock-out, TOTP, OAuth2 (authorize), principals |
| TOTP (`mfa/totp/`) | `user_totp` with a failure counter | save, validate | login, authorization challenge |
| Registration (`register/`, `mfa/*/controller/register*.ts`) | `principals`, passwords, privileges, browser session | register, add a factor | privileges (the first administrator), TOTP, identities |
| URI codes (`verify-uri/`) | one code per URI, in the key/value store | send, verify | identities, authorization challenge |
| Verification tokens (`verification-token/`, `reset-password/`) | `verification_token` | create, validate | OAuth2 one-time-token grant, password reset |
| Principals, groups (`principal/`, `user/`, `group/`, `app/`) | `principals`, `group_members` | create, edit, add and remove members | everything (active), privileges |
| Privileges (`privilege/`) | `user_privileges` | grant, replace, resolve over groups | every controller |
| Identities (`principal-identity/`) | `principal_identities` | create, edit, verify | login, authorization challenge |
| App clients, permissions (`app-client/`, `user-app-permissions/`) | `oauth2_clients`, `oauth2_redirect_uris`, `user_app_permissions` | create, edit, merge scopes | OAuth2 |
| Introspection, sessions (`introspect/`, `oauth2/controller/active-sessions.ts`) | none | read | OAuth2, app clients |
| Settings, keys, mail, SMS, log, front | caches and append-only tables | reads and output | - |

What is hard, component by component, and the property that makes it correct:

* **OAuth2.** A code or refresh token is read in one statement and deleted in a
  later one, and the new token is inserted in a third; any of them may fail, and
  another request may be between any two. What was authorized is stored in the
  code, checked by the exchange, and handed on along a chain of refreshes. Spent
  secrets have to stay dead; a token must stand for what its code stood for; the
  conditions of the code must have been met.
* **Authorization challenge.** The state of a login is a JSON value that each
  request loads, changes and stores as a whole, with the database in between. A
  code may only be given to a user who answered.
* **Lock-out.** The lock is read before, and written after, a comparison that
  takes long. Failures must not overwrite each other, guessing must be bounded,
  and the row lock must be given back.
* **Memory store.** A lazy expiry in `get` and a collector driven by a timer that
  re-arms itself only when it must. The two must agree, and nothing may stay in
  memory for ever.
* **Browser login.** Every request works on a copy of the browser's session and
  stores it whole at its end, whatever another one stored meanwhile. A session may
  name a user only after the password and the second factor.
* **TOTP, URI codes, verification tokens.** Each is read and then consumed or
  counted in a second statement; each should work once, or be guessed a bounded
  number of times.
* **Registration.** The first user becomes administrator: decided by a read before
  five writes, none of them in a transaction, with others registering meanwhile.
  A set-up must leave somebody who can sign in, and it must be over for good.
* **Principals.** Saved whole from a copy read earlier; listed page by page, in no
  order, with a count that is a query of its own; found by an identity that is stored in another
  spelling than the one that was looked for.
* **Privileges.** Resolved by a walk over groups, one query each, while memberships
  change, on a graph that nothing keeps acyclic.
* **App clients, permissions, views.** What users permitted, what tokens there are,
  what the list of apps, the sessions and introspection say of them, are written
  and read by statements of their own and have to agree.

`PROJECT.json` lists every hazard at its line with the properties that watch it.

## 2. The modules

| module | what it is | code |
| --- | --- | --- |
| `GrantLedger` | abstract: secrets are issued, inherit from a dead parent, die once | the promise of `oauth2/service.ts` |
| `OAuth2Tokens` | detailed: both tables, sessions, handlers | `oauth2/service.ts`, `oauth2/controller/*`, `logout/controller.ts` |
| `OAuth2TokensProofs` | theorems about it | |
| `LoginActivity` | the lock-out | `login/login-activity/service.ts`, `user/service.ts` |
| `LoginActivityProofs` | theorems about it | |
| `TtlStore` | abstract: a map whose entries vanish in time | the promise of `kv/abstract-store.ts` |
| `MemoryKvStore` | detailed: the `Map` and the collector | `kv/memory-store.ts` |
| `LoginChallenge` | authorization challenge over either store | `login/service.ts`, `login/challenge/*` |
| `LoginChallengeProofs` | theorems about it | |
| `BrowserLogin` | login form, second factor, logout, over browser sessions | `login/controller/*`, `mfa/totp/*`, `mfa/webauthn/*`, `logout/controller.ts` |
| `BrowserLoginProofs` | theorems about it | |
| `Privileges` | the walk over groups, memberships, privileges, the report | `privilege/service.ts`, `principal/service.ts`, `group/controller/*`, `user/controller/privileges.ts` |
| `PrivilegesProofs` | theorems about it | |
| `Accounts` | registration, principals, identities, passwords, the list of users | `register/controller/user.ts`, `principal/service.ts`, `principal-identity/service.ts`, `user/*`, `app/*`, `group/*` |
| `AccountsProofs` | theorems about it | |
| `Secrets` | codes for a uri and one-time tokens | `verify-uri/*`, `verification-token/*`, `reset-password/*`, `principal-identity/controller/*`, `login/challenge/email*.ts` |
| `SecretsProofs` | theorems about it, and about `MemoryKvStore` | |
| `Apps` | clients of apps, permissions, sessions, introspection | `app-client/*`, `user-app-permissions/service.ts`, `introspect/controller.ts`, `oauth2/*` |
| `AppsProofs` | theorems about it | |
| `MCOAuth2Tokens`, `MCMemoryKvStore`, `MCLoginChallenge`, `MCBrowserLogin`, `MCPrivileges`, `MCAccounts`, `MCSecrets`, `MCApps` | values of the constants for TLC | |

The modules share one style. A request occupies one of the handler slots
`Requests`; `req[r]` is what its JavaScript frame holds between two awaits, with
`pc` naming the next statement that matters. One action is what runs up to and
with the next statement on shared state. `Fail(r)` (`End(r)` in `Accounts` and
`Privileges`, where it also ends a request that is done) ends a request at any
statement with an exception, `Restart` loses all frames. History variables
(marked in each module) record what happened so that properties can relate it to
the state; no guard reads them, except for the bounds named below. Definitions
whose comment says "Mutant" are variations of the one below them, kept to show
that a property notices a plausible mistake; no specification uses them.

### OAuth2Tokens

`codes` and `tokens` are the rows of the two tables, `session` the user kept in
each browser session (a copy made at login), `active` the `active` column,
`lastSecret` the generator of secrets. The access and the refresh token of a row
are one `id`, as they are always inserted and deleted together.

| code | actions |
| --- | --- |
| `GET /authorize`, `response_type=code` and `token` | `StartAuthorize`, `InsertCode`; `StartImplicit`, `MintToken` |
| `generateAuthorizationCode` after a login challenge | `StartChallengeCode`, `InsertCode` |
| `generateTokenAuthorizationCode` | `StartExchange` (SELECT), `DeleteCode`, `CheckCode`, `MintToken` |
| `generateTokenFromRefreshToken` | `StartRefresh` (SELECT), `RevokeOld`, `MintToken` |
| client credentials, password, developer and one-time tokens | `StartClientCredentials`, `StartPassword`, `StartDeveloperToken`, `StartOneTimeToken`, `MintToken` |
| `revokeByAccessRefreshToken` | `StartRevoke`, `RemoveToken` |
| `LogoutController.post` | `StartLogout`, `LogoutCodes`, `LogoutTokens`, `ClearSession` |

The `grant_type` column is a number, and reading it back loses part of what was
written: `StoredSecretUsed` is that round trip. `StoredSecretUsed`,
`ExchangeAccepted`, `RefreshDraft` and `PkceMatches` are the places where the
code decides what a token stands for.

`GrantLedger` knows nothing of tables: a ledger of entries and the set of live
secrets. `ImplementsLedger` is the refinement: an insert is `Issue`, every delete
is `Kill`, all else stutters.

### LoginActivity

`attempts` and `locked` are the columns, `rowLock` the transaction that holds the
row between `SELECT ... FOR UPDATE` and `COMMIT`. `CheckLock`, `Right`/`Wrong`,
`SelectForUpdate`, `Update`, `Reset` are `validateUserCredentials` statement by
statement. The failing path of a locked account counts as well, as in the code.
With SQLite `FOR UPDATE` means nothing, but knex runs transactions there on its
single connection, one at a time, which is what `rowLock` says too.
`AdministratorUnlocks` is the administrator the error message sends the user to;
no route of the server does it, so it stands for an UPDATE by hand.

### MemoryKvStore

Nothing in the store awaits, so each operation is one action; `get` only reads
and is the operator `Get`, which the refinement mapping uses. `Gc` is the timer's
callback, late by as much as the event loop is. `deadline` is history: the moment
the caller asked for. `TtlStore` has no collector: `value` is what `get` answers.
`ImplementsTtlStore` says that lazy expiry and collection together are invisible.
Its definitions are called `StoreInit`, `StoreNext`, `StoreSpec` and so on, so that a
module may extend it next to one of its users, as `SecretsProofs` does.

### LoginChallenge

`kv` is the stored session, `heap` the session object a request works on. With
redis (`SharedObjects = FALSE`) every request parses its own copy; the memory
store hands the very same object to every request (`SharedObjects = TRUE`), and
`heap` is then indexed by session. `Context` and `Resume` are
`initChallengeContext` and the lines after it; `Skip`, `CheckRight` and
`CheckWrong` are one round of the loop over the challenges; `Decide` the rule for
the number of passes with the loop that throws; `Issue`, `Delete`, `Store` the
end with its `finally`. What an answer is checked against (a hash, a TOTP secret,
a mailed code) is nondeterminism: it is right or wrong. A right mailed code
verifies its address, which `Verifies` keeps, because it changes the list of
challenges of the next request. Time is left out: `Expire` may happen at any
moment.

### BrowserLogin

`session` is what the store has for each browser: the user who is logged in, the
user whose second factor is awaited (`mfa`), and whether a challenge for a
security key is open. The middleware gives each request a copy and stores the
copy at its end, also when the handler threw (the error middleware is inside it);
it always works with redis here, never on a shared object. A browser has one
session id throughout.

| code | actions |
| --- | --- |
| `LoginController.post` | `StartLogin`, `FindUser`, `PasswordRight`/`PasswordRefused`, `HasTotp`, `HasWebauthn` |
| `MFAController.post`, `validateTotp` | `StartMfa`, `CodeRight`/`CodeWrong`/`CodeRefused`, `ResetFailures`, `CountFailure` |
| `WebAuthnLoginRequestController` | `StartWebauthn`, `Options`, `AssertionVerified`/`AssertionUnverified`/`AssertionRefused`, `SaveCounter` |
| `LogoutController.post` | `Logout` |
| `save()` for a TOTP device | `StartAddTotp`, `InsertTotp` |
| any other page | `StartPage` |
| the end of each request | `Save`, `Fail` |

`Demand` is the shape that `shouldUseTotp` and `shouldUseWebauthn` share: with a
device the second step is awaited, a required factor that is missing refuses, and
otherwise the login goes on. The settings are read once at start. `active` says
that a user may log in (active, with a verified identity); it changes between the
requests and within them. The password check is `LoginActivity`'s; here it is
right or refused.

`exempt` is the one concession in `LoginIsProven`: where TOTP is only enabled, a
login that began before the device was added may end without it. A user with a
security key is not asked for TOTP by this property, and the assertion's own
result is not part of it (section 6).

### Privileges

`member` and `grants` are the two tables. A slot walks (`Start`, `Visit`), loads the
rows (`LoadRows`), and then acts on its `box`: the code reads the groups of one
principal after the other, and `todo` counts the calls of `getRecursiveGroupIds()`
that wait. The code goes depth first; the model lets any waiting call be the next,
which allows more orders and hides none. `seen` and `kept` are history: the
memberships that were there at some time of the walk, and all of it. What a walk
finds is compared with `Reachable`, the least set that is closed under membership.

| code | actions |
| --- | --- |
| `middleware/login.ts`, `LazyPrivilegeBox.ready` | `Start`, `Visit`, `LoadRows` |
| `PATCH /group/:id` | `AddMember`, `RemoveMember` |
| `POST` and `PATCH /user/:id/edit/privileges` | `ReplacePrivileges`, `AddPrivilege` |
| `findPrivilegesForResource`, `getImmediatePrivilegesForPrincipal` | `Report`, `Immediate` (read only) |

### Accounts

The rows of `principals` by their id (`kind`, `active`), `owner` and `verified` for
`principal_identities`, `hasPassword`, and `admins`. Whoever registers or makes a
principal goes through `Look`, `Save`, `Grant`, `Password` and `Identity`, in the
order of the code and only those that apply; each is one statement, and `End`
leaves behind what was written. An identity is looked for in the spelling that was
sent and stored in the one `validateIdentityUri()` makes of it (`Canon`). A page of the list (`Rows`) has as
many rows as LIMIT and OFFSET leave, and they are any rows: the query has no ORDER BY,
and a database may move a row that was saved.

| code | actions |
| --- | --- |
| `POST /register` | `Register`, then `Look` ... `Identity` |
| `POST /user`, `/user/new`, `/app`, `/app/new`, `/group`, `/group/new` | `PostUser`, `PostUserForm`, `PostApp`, `PostAppForm`, `PostGroup`, `PostGroupForm`, then the same |
| `PUT /user/:id` (two formats), `/group/:id`, `/app/:id`, `POST /user/:id/edit` | `PutUser`, `PutUserForm`, `PutGroup`, `PutApp`, `PostEdit`, then `WriteBack` |
| `PUT /user/:id/password`, `POST /user/:id/identity`, `markVerified()` | `PutPassword`, `AddIdentity`, `MarkVerified` |
| `PrincipalService.search()` page after page | `List`, `Count`, `Rows` |

### Secrets

`code` is what the key/value store has for the uri of an identity, `token` the rows
of `verification_token`. A code is made before its message goes out, and the
message may not go out (`MakeCode`, `Deliver`, `Fail`). An answer reads the store, deletes
the key whatever is under it by then, and compares what it read (`Answer`,
`Compare`); only then comes `Verify`. A token is read, deleted, and its user and
identity looked up (`Use`, `Spend`, `ReadOwner`), and what follows depends on who
asked. `Found` is the lookup of section 6: whatever identity of the user the database
gives first. Who answers has read a message
or has nothing: guessing is not part of the model.

| code | actions |
| --- | --- |
| `sendVerificationRequest`, `sendOtpRequest` from four callers | `AskForCode`, `AskForCodeAsClient`, `ChallengeOtp`, `ChallengeVerification`, `MakeCode`, `Deliver` |
| `verifyCode` from four callers | `AnswerOnPage`, `AnswerAsClient`, `AnswerOtp`, `AnswerVerification`, `Compare`, `Verify` |
| `createToken` from three callers | `Generate`, `AskForReset`, `AskForResetAsClient` |
| `validateToken`, the exchange, the link of a reset | `Exchange`, `FollowLink`, `Spend`, `ReadOwner`, `Activate`, `Confirm`, `Finish` |
| `POST /reset-password/change-password` | `ChangePassword` |

### Apps

`clients` and `uris` are `app_clients` and `oauth2_redirect_uris`, `perms` is
`user_app_permissions`, `tokens` the rows of `oauth2_tokens` with what the views
need of them. `asked` is history: the user saw the app's name before the token was
made. A list of scopes is the set of its members. `setPermissions()` leaves the UPDATE
out when the merged text is the one that is there; when no scope is new, whether it is
depends on order and repetitions, and `SetPermissions` allows both. How codes and tokens are spent is left to `OAuth2Tokens`; here an exchange may
come back as often as it likes, which allows more tokens and hides none.

| code | actions |
| --- | --- |
| `POST /app/:id/client`, `create()` | `PostClient`, `InsertClient`, `InsertUri` |
| `POST .../edit`, `edit()` | `StartEdit`, `EditClient` |
| `GET /authorize`, password grant | `StartAuthorize`, `CheckRedirect`, `StartPassword`, `Consent`, `InsertCode` |
| `generateTokenInternal()`, `updateLastUse()` | `Exchange`, `Refresh`, `Unasked`, `Mint`, `Use` |
| the list of apps, the sessions, introspection | `AppsOf`, `PermissionOf`, `ActiveTokens`, `Introspect` (read only) |

### How the modules fit together

Each module keeps what others decide as a choice: `BrowserLogin` and
`OAuth2Tokens!StartPassword` take a password that was right, which `LoginActivity`
counts; `OAuth2Tokens!StartChallengeCode` begins where `LoginChallenge!Issue` ends;
`LoginChallenge` takes a mailed code as right or wrong, and `Secrets` says for whom it
can be right; `Accounts` takes `admins` as those with the privilege, and `Privileges`
says how a request finds out; `Apps` shares the tokens with `OAuth2Tokens`.

## 3. The runs

| run | specification | checks |
| --- | --- | --- |
| `tokens_race` | `OAuth2Tokens`, two handlers, one user and client, three secrets | `TypeOK`, `SpentSecretsAreGone`, `OneChildPerHandler`, `ImplementsLedger` |
| `tokens_terms` | every grant type, two clients, one with PKCE, two redirect URIs, time, deactivation, memory sessions | `CodeGrantsWhatWasAuthorized`, `CodeTermsWereMet`, `RequiredPkceIsProven`, `RefreshKeepsTheGrant` |
| `lockout` | `LoginActivity`, three handlers on one account | `TypeOK`, `NoFailureIsOverwritten`, `GuessesAreBounded`, `EveryTryEnds` |
| `kv_store` | `MemoryKvStore`, two keys and values | `StoreTypeOK`, `CollectorIsScheduled`, `ImplementsTtlStore`, `ExpiredItemsLeave` |
| `browser_login` | `BrowserLogin`, two requests of one browser, two users, six settings | `TypeOK`, `LoginIsProven`, `CodeGuessesAreBounded` |
| `challenge_redis` | `LoginChallenge` with copies, two requests, two users | `TypeOK`, `CodeIsEarned` |
| `privileges` | `Privileges`, two requests, two groups and `$all`, two changes | `TypeOK`, `NoGroupIsMissed`, `NoGroupIsInvented`, `ReportIsComplete`, `LoadingEnds` |
| `accounts` | `Accounts`, two requests, two principals, one address in two spellings, pages of one | `TypeOK`, `SetupLeavesAnAdmin`, `SuccessIsComplete`, `ListIsLongEnough`, `SetupEnds`, `UriKeepsItsOwner`, `DeactivationLasts` |
| `secrets` | `Secrets`, two requests, two addresses of one user and one of another, two codes or tokens | `TypeOK`, `VerifiedWasProven`, `SpentStaysSpent` |
| `apps` | `Apps`, two requests, two users, one client, one token, time over both expiries | `TypeOK`, `PermissionsMatchTokens`, `ActiveIsListed`, `ClientMatchesForm` |
| `token_identity`, `permissions_spread` | `Secrets`, `Apps` | one documented property each, which the code does not have: section 6 |

Bounds and why they are enough:

* `MaxSecrets` (secrets ever generated). Three with two handlers make code,
  token and refreshed token, or two tokens from one code; the terms of a code and
  of a refresh involve two secrets and one handler.
* `MaxTime`, `CodeExpiry`, `AccessExpiry`, `RefreshExpiry`. Lifetimes of 0 and 1
  second with one tick put every check on, before and after its boundary.
* `require_pkce` of a client is a constant of `OAuth2Tokens`, although an administrator
  may change it: `RequiredPkceIsProven` speaks of clients that always required it. The
  edit is in `Apps`.
* A refresh of a token that came out of a code needs a third secret. `tokens_race` has
  it but does not check `RefreshKeepsTheGrant`, `tokens_terms` refreshes tokens of the
  direct grants; the theorem of section 5 covers chains of any length.
* `Editable`: the principals whose `active` flag changes in a run.
* `MaxCount`, `MaxLost`. An account that locks after two failures goes two
  further; one failure is lost. Three handlers are one more than the lock-out
  needs, so that the bound of `GuessesAreBounded` is reached.
* `MaxTime = 9` with a collector every 2 and times to live of -1, 1 and 3: items
  expire before the next collection, at it and after it, several times over. A
  negative time is what `storeSession` asks for after a session's end.
* One login session, two requests, two users: a session that names nobody can be
  given two different users, and each request can fail at each await.

* One browser, two requests, and two users of which one may have a TOTP device and
  the other has a security key: two logins of different users overlap with each
  other, with a logout and with the device being added. `TotpModes` and
  `WebauthnModes` are the values of the settings; webauthn disabled is left to
  the proofs. With `MaxFailures = 2` both requests read the last count below the
  limit, and one more code (`MaxLost`) is not counted: the bound is reached.

* `MaxEdits`, `MaxPending`. Two changes let a membership appear and go again within
  one walk. A principal waits twice when two ways lead to it; the walk of a group that
  contains itself has no end, and is followed until the bound.
* `MaxId = 3`: `$all` and two more, so that two overlapping registrations both finish;
  with pages of one user the second page is one that the first count decides about.
* `MaxSecrets = 2` in `secrets`: two codes, so that a late answer meets a newer code and
  a code of one address is tried at another, two tokens, or one of each. Tokens are for
  any address, or for none, and with a second user it would show if one marked an
  address of somebody else. In `token_identity` one token is enough.
* In `apps`, `AccessExpiry = 1`, `RefreshExpiry = 2` and `MaxTime = 2`: a token is active
  by both secrets, then by the refresh token alone, then by none. The client's form is one with every box but two, PKCE and a
  redirect URI, or one without.

Handlers are interchangeable where a run declares symmetry, and users too in `apps`,
where the constants treat them alike. `accounts`, `secrets` and `tokens_race` check
action properties under it, which look at one step and treat all handlers alike; no
run with a liveness property declares any.

Deadlock is checked in every run.

## 4. Fairness

Three runs need it. `LoginActivity!FairSpec` has weak fairness of a handler's
own steps (the event loop resumes every continuation, the database answers) and
strong fairness of the steps that wait for the row (`SelectForUpdate`, `Reset`):
the lock is enabled and disabled again and again, and databases grant it in turn.
No fairness is assumed of new tries, failures, or that a password is right or
wrong. `MemoryKvStore!StoreFairSpec` has weak fairness of the clock and of the timer's
callback; a process that restarts loses the store, which satisfies
`ExpiredItemsLeave` as well. `Privileges!FairSpec` has weak fairness of each request's
loading: the database answers, and the event loop resumes what awaits an answer.
Nothing is assumed of changes to the tables, and `LoadingEnds` gives way only when
groups contain each other.

## 5. The theorems

All are proved for arbitrary constants under the named assumptions of the
modules; a theorem that needs more says so in its ASSUME. Every invariant and action
property of the passing runs is the subject of one, and of the temporal properties the
two refinements. The others say what no run asks, mostly about histories
of any length.

**OAuth2Tokens.** All properties of its runs: `TypeCorrect`, `SpentSecretsStayDead`
(`SpentSecretsAreGone`), `OneMintPerHandler` (`OneChildPerHandler`),
`CodesGrantWhatWasAuthorized`, `CodesTermsAreMet`, `PkceIsProven`,
`RefreshesKeepTheGrant`, and `TablesImplementTheLedger`, the refinement.
`SpentSecretsAreGone` is not inductive: that a minting handler's parent is dead must
be known before it mints, that the parent cannot be inserted again needs the
generator of secrets, and that nothing else is killed or revived needs ids to be
unique. The invariant is

    IInv == TypeOK /\ Known /\ Numbered /\ Distinct
              /\ SpentSecretsAreGone /\ OneChildPerHandler /\ Held

where `Known` ties the tables to the histories, `Numbered` and `Distinct` say that
secrets are fresh and name one row, and `Held` what a handler may rely on at each
`pc`. The proof goes through `Next` action by action; for each, only the parts
that action can disturb are argued.

What a token stands for is a second invariant, `Terms`, preserved by the steps from
states of the first one. `Follows(d, p)` relates a draft or a token `d` and the proof
`p` it was asked for with to everything on record: if `p` names a code, `d` is what
the code was issued for and `p` answers it; if it names a token, `d` is that token
again. It holds of the drafts at their insert and of all tokens minted, and it lasts
because a secret to come is nobody's parent yet (`FollowsOn`). Two details make it
inductive: a code of the browser flow for a client with `require_pkce` has a challenge
(`Guarded`), and the flag `secretUsed` is a fixed point of the round trip through
`grant_type` (`Settled`), so that a refresh does not change it. The four properties
are readings of `Terms`, and so is the refinement: an insert issues a root, or the
child of a secret whose entry has the user, client and scope that `Follows` says.

The refinement is then used: `ChainsStandForOneGrant` is proved of `GrantLedger` alone
(`Lineage`: a secret has one entry, and the entry it was issued for has the same grant
and is dead) and carried over by `TablesImplementTheLedger`. `Ancestors(e)` are the
entries in every set that has `e` and the parents of its members, so that the theorem
speaks of chains of any length without an induction: the entries with the grant of `e`
are such a set.

**LoginActivity.** `TypeCorrect`, `EveryFailureCounts` (`NoFailureIsOverwritten`),
`GuessLimit` (`GuessesAreBounded`). The invariant adds `Owned` (between SELECT and
UPDATE a handler has the row, and read what is still there), `Accounted` (each
wrong password is counted, on its way, or lost) and `Limited` (with those still
comparing, guesses stay below the bound). The proof counts handlers: a step moves
one element between two finite sets, with the cardinality lemmas of
`FiniteSetTheorems`. The one assumption beyond the constants' types is that there
are finitely many handlers.

`NobodyWaitsInVain` and `TriesGoForward` are what `EveryTryEnds` needs of the code: who
holds a row is between SELECT and UPDATE on it, and so waits for nobody
(`HeldByWriters`), and no try goes back to a statement it has made (`GoesForward`). The
rest of `EveryTryEnds` is fairness.

**MemoryKvStore** (in `SecretsProofs`). `StoreTypeCorrect`, `CollectorStaysScheduled` and
`StoreKeepsItsPromise`: `StoreSpec => ImplementsTtlStore`, assuming `0 \notin Ttls`. The
invariant `Punctual` (an item expires when its caller said) is what fails for a time to
live of 0. Each action maps to one of `TtlStore`: `Set` to `Set`, `Delete` to `Forget`,
`Gc` to a stutter, `Tick` to the tick that drops what is over.

`StoreOnlyForgets` is what the store's users rely on, with any times to live: an answer
stays, vanishes, or is what was just set. `LoginChallenge` and `Secrets` have no more of the store than
that (`Expire`, `CodeExpires`). `ItemsAreCollectedInTime` bounds the memory: the next
collection is due within one interval after an item expired (`CollectedBy`), and not only
at some time. It needs that the timer is never set further ahead than one interval
(`TimerIsSoon`). A late timer collects late; that it runs at all is fairness.

**LoginChallenge.** `TypeCorrect` and `CodesAreEarned` (`CodeIsEarned`), assuming
`~ SharedObjects`: with the memory store the property fails (section 6).
The invariant says of each request's object, and of each stored one, that what it
counts as completed was answered for the user it names (`Earned`), and that a
request which checks answers works for that user (`Good`). Copies make it a
statement about one request at a time (`OneMoves`). `StoredPassesAreEarned` reads it of
what is stored: a copy that is stored late, or after the session was deleted, may lose
passes of the user and never has one that was not answered for.

**BrowserLogin.** `TypeCorrect`, `LoginsAreProven` (`LoginIsProven`) and
`CodesAreLimited` (`CodeGuessesAreBounded`). The invariant has one predicate for a
session, stored or in a request's hands (`Sound`), and one for what a request knows
by the step it is at (`Known`). Both depend only on things that grow: proofs given,
logins exempt, devices added (`Grows`). So they survive every step of every other
request (`StillGood`), and each action needs an argument about its own request only
(`Moves`). Nothing is said about which copy is stored last, which is why it does
not matter. The bound on codes adds `Accounted`: every wrong code is counted, about
to be, or lost; at most one per request is about to be. `SecondFactorComesSecond` is a
reading of the first invariant at the steps between the factors: a code or a key is
asked for, and checked, only after the password of that user in that browser.

**Privileges.** `TypeCorrect`, `NothingMissed` (`NoGroupIsMissed`), `NothingInvented`
(`NoGroupIsInvented`) and `ReportExplains` (`ReportIsComplete`). The invariant brackets
a walk: the rows in `kept` are members now, and those in `seen` were at some time
(`Bracketed`); a lasting membership of what was found leads to something found or to
a call that waits (`Awaited`); what was found or waits can be reached over what was
seen (`Founded`). When no call waits any more, the first two say that the set is closed
under `kept`, and `Reachable` is the least such set.

`PowerComesFromPower` assumes `Powerless`, that no principal can reach the right to
administer at the start, and concludes that both tables stay as they were, over any
number of overlapping requests. Its invariant says that no walk has seen another
membership than the first ones and that nobody's box has the right; `NothingInvented`'s
invariant is what keeps a walk from finding more. (The first administrator is made by
set-up, which is `Accounts`.)

**Accounts.** `TypeCorrect`, `SetupSucceeds`, `SetupIsOver`, `OwnersStay`,
`AccountsAreWhole`, `ListsAreLongEnough` and `DeactivationHolds`, all properties of its run.
The invariant says of each handler what its `pc` implies of the tables
(`MakingSound`), that set-up is pending, broken or has left an administrator, and for
a reader of the list that the pages so far showed as many rows as their offset says.
Users are never removed, so a page that is not the last one is full, and with the last one
there are at least as many rows as there were users at the start; the proof counts
elements of finite sets.

**Secrets.** `TypeCorrect`, `NoSecondUse` (`SpentStaysSpent`) and `OnlyProvenIsVerified`
(`VerifiedWasProven`). Codes and tokens are numbered, a code is under one identity at
most (`OneUri`), and what was spent is not in the store (`CodeGone`, `TokenGone`): a
late answer deletes a newer code, never an older one it could bring back. The other
theorem has no assumption about which identity `Found` gives, and so says of a token no
more than that it was for an identity of the same user; that it was for another one than
the one marked is what `token_identity` shows (section 6).

**Apps.** `TypeCorrect`, `PermissionsFollowTokens` (`PermissionsMatchTokens`),
`ActiveTokensAreListed` (`ActiveIsListed`) and `ClientsFollowForms`
(`ClientMatchesForm`), all properties of its run. No statement of this part locks what it
read, and none needs to: rows of clients and permissions are never deleted, and a client
stays with its app (`Grows`). So `Consented`, that a user's permission for the app of a
client is there, lasts once it is written, through the code to the token (`Agree`), and
what a request may rely on at its `pc` (`Good`) survives every step of every other
request (`StillGood`). A client is different, as edits replace it: `Following` says that
what is missing of the form stored last are the redirect URIs that the one request which
makes the client still holds. `ActiveIsListed` needs `ExpiryAssumption`, by which no
token's access secret outlives its refresh secret.

Only model-checked: the three liveness properties (`EveryTryEnds`, `ExpiredItemsLeave`,
`LoadingEnds`), which need ENABLED and fairness and are out of the prover's reach. What
the first two need of the code besides fairness is proved (`NobodyWaitsInVain` and
`TriesGoForward`, `ItemsAreCollectedInTime`). That a walk over groups without cycles ends
is an induction over the graph, and stays with TLC as well. No module of the project uses
a recursive operator.

## 6. Where the code and its documentation disagree

Each is a run of its own that ends with a counterexample.

* `token_identity`: `principal-identity/service.ts:21` takes the id of an identity and
  does not use it, nor an ORDER BY. A one-time token for one address of a user may mark
  another one as verified when it comes back (`api-types.ts:909` says the one it was made
  for).
* `permissions_spread`: the UPDATE in `user-app-permissions/service.ts:43` has no
  condition, so that a new scope of one user and app is written into the rows of all.

Other behaviour met while modelling, without a run:

* A correct password that passed the lock check before the account was locked
  resets counter and lock (`user/service.ts:116`). `GuessesAreBounded` is
  therefore stated between two resets.
* With redis, of two overlapping requests of one login session the later store
  wins, and the passes of the earlier one are lost (`login/service.ts:196`). A
  request that fails stores a session that another one completed and deleted
  (line 163).
* Two exchanges of one code that overlap both mint a token: the code is read, and then
  deleted without a look at how many rows the DELETE found (`oauth2/service.ts:156`).
* The implicit flow checks the copy of the user made at login, so a user who was
  deactivated since is given a token (`oauth2/service.ts:302`).
* The exchange and the refresh do not hand the browser session's id on to the token, so
  that a logout does not find it (`oauth2/service.ts:201`, `changelog.md:902`).
* Verifying an email address counts as a factor and vanishes from the list of factors at
  once, so that the next request of a login session needs no password
  (`login/service.ts:127`).
* With the memory store two first requests of one login session share its object, and
  the pass of one user counts for the other (`login/service.ts:94`); `SharedObjects = TRUE`
  of `LoginChallenge` is that store.
* A login session goes on with any of the user's identities, by the same lookup as above
  (`MayBeFound` of `LoginChallenge`).
* Two requests that read a code or a one-time token before either deletes it both use it
  (`verify-uri/service.ts:73`, `verification-token/service.ts:42`, although line 39 says
  "This function only works once for every token"). `SpentStaysSpent` is about requests
  that read later: neither DELETE is looked at for how much it found.
* The reset after a right TOTP code depends on the failures read before the check
  (`mfa/totp/service.ts:93`): it takes back what was counted since, or is left out.
  `CodeGuessesAreBounded` is stated between two resets.
* A token that was generated with the client's secret is refreshed without it:
  `generateTokenFromRefreshToken` never looks at `secretUsed`, whose comment
  (`oauth2/types.ts:48`) says it must be. `StartRefresh` takes any `basic`.
* The webauthn step goes on with the login whatever `verified` says
  (`mfa/webauthn/controller/login.ts:66-78`), as `AssertionUnverified` does.
  `LoginIsProven` makes no claim about the key for that reason.
* An item set with a time to live of 0 never expires (`kv/memory-store.ts:44`).
* A late answer deletes a code that was sent after the one it read
  (`verify-uri/service.ts:75`); its owner has to ask again.
* A one-time token is spent before the checks that can still refuse it
  (`verification-token/controller/exchange.ts:28`).
* The password reset stores the pair of user and identity where a user is expected
  (`reset-password/controller/token.ts:20`), so the password that is set has no user id;
  `ChangePassword` changes nobody's password for that reason.
* A group that is a member of itself, directly or through others, makes every request of
  its members walk for ever (`privilege/service.ts:253`); nothing refuses such a
  membership. `LoadingEnds` is about groups that do not.
* A registration looks for the address as it was typed and stores the canonical
  spelling: a second account with another spelling gets as far as its identity and
  leaves a principal with a password and no identity. If it was the first, the set-up is
  broken (`broken` of `Accounts`), as it is after any failure on the way: the server has
  users and no administrator.
* A principal is saved whole from an older copy, so that editing a name takes back a
  deactivation that came in between (`principal/service.ts:154`). `DeactivationLasts` is
  about principals of which nobody holds such a copy.
* The pages of users are read with LIMIT and OFFSET and without ORDER BY
  (`principal/service.ts:85`). On Postgres an UPDATE, such as `WriteBack`, moves the row,
  so that a user may be on no page and another on two. `ListIsLongEnough` says how long
  the list is and not who is on it.
* A client whose making stops half way has some of its redirect URIs, and one that is
  edited before all are there has those of two forms (`app-client/service.ts:144`).
  `ClientMatchesForm` leaves out these clients (`torn`).
* The consent is stored before a client that has to use PKCE and does not is refused
  (`oauth2/controller/authorize.ts:76` and 85).
* Codes of the login challenge and developer tokens have no entry in the list of apps
  (`Unasked` of `Apps`). One token of an app that is off makes the page of sessions fail
  (`oauth2/controller/active-sessions.ts`), and introspection answers with an error for
  an app or user who is off.
* `replaceMembers()` (`principal/service.ts`) inserts into a table that does not exist;
  nothing calls it.
* `updateUserInfo()` drops the middle name. User info is written before the checks of
  `save()` can refuse (`user/controller/item.ts:105`).
* That whatever introspection calls active is listed among the sessions
  (`ActiveIsListed`) needs access tokens to expire no later than refresh tokens, which
  the settings do not enforce (`ExpiryAssumption`).

## 7. Not modelled, and the plan

What is left, in this order:

1. The second factor that may be added at the end of a registration, and registering a
   security key, as actions of `BrowserLogin` (`Keys` becomes a variable).
2. Label and MFA flag of an identity, which would make `MfaIdentities` of `Secrets` a
   variable.
3. The composition of `BrowserLogin` with `LoginActivity`, so that the bound on wrong
   passwords is stated of logins.

Left out for good: ID tokens, JWKS and well-known documents (pure functions of rows),
the profile of a user (fields that nothing reads back but the page), mail and SMS (I/O),
the event log (append only), settings (read once at start), migrations and seeds (run
once), routing and templates. What bcrypt, the TOTP algorithm, the token generator and
the database do is taken as specified: answers are right or wrong, secrets are fresh,
statements are atomic.
