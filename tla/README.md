# Vehicle Vault: TLA+ models, checks and proofs

Vehicle Vault keeps a household's vehicles: their papers, services, fuel, tyres,
loans and reminders, shared between the people who drive them. The API
(`apps/api`, NestJS over PostgreSQL through Prisma) owns the data; the web
application (`apps/web`, React) is a client; `packages/shared` is their contract.

This directory holds TLA+ modules of the parts of it that are hard to test,
model-checked with TLC on small instances and proved with TLAPS where a result
should hold for every instance. Paths below are relative to `src/`; API modules
are under `apps/api/src/modules/`.

## How the code runs, and what a step is

The API is one Node container. JavaScript runs to the next `await`, and nearly
every `await` is a database call, so requests interleave at database calls and
nowhere else. Three rules follow and every module keeps them:

- each awaited read or write outside a transaction is a step of its own;
- a `prisma.$transaction` is one step: it commits or it does not. The database
  runs read committed, so what a request read *before* its transaction may be
  stale inside it, and what it writes by id is written whatever the row now
  holds. Almost every hazard in this code is of that kind: a check in one
  statement, the write in another, no condition on the write;
- a request that throws leaves what it has committed and nothing else.

## Inventory

| component | state | operations | hard part | correct when |
|---|---|---|---|---|
| Vehicle sharing (`vehicle-sharing/*`, `vehicles/vehicle-access.service.ts`) | VehicleMember and VehicleInvite rows, the legacy pointer `Vehicle.userId` | create, resend, revoke, decline, accept an invite; change a role, remove, leave, transfer; create and delete the vehicle | every operation checks, then writes by id; no unique index on active invites | one owner, whom the pointer names; access only by an accepted invite; a spent invite stays spent |
| Sessions and sign-in (`auth/token.service.ts`, `auth/auth.service.ts`, `auth/oauth.service.ts`, `admin/admin.service.ts`) | the User row's password, verification and link hashes; AuthSession rows | register, sign in by password or provider, refresh, sign out, revoke, forced logout, reset, verify, resend, change password | hardly any of it in a transaction; bcrypt and audit awaits between check and write; retries | ended sessions stay ended; a reset ends all of them; a token works once |
| Alert engine and inbox (`notifications/*`) | Notification rows (unread unique by key), AlertRaise rows, a run in memory | the 06:00 run over each vehicle, raise, read, open, read all, delete | a run of hundreds of awaits against members who read; nothing resumes a run | prompts respect their cooldown; what stays due is heard; viewers are not asked to record |
| Channels and preferences (`notifications/channels`, `*-preference*.ts`, `push-subscriptions`) | per-user switches, device rows | set, subscribe, deliver | I/O that fails | a failing channel does not stop the others |
| The vehicle row (`vehicles/vehicles.service.ts`) | odometer, catalogue link, setup prompt | edit, odometer update, dismiss, relink | several writers of one row, each from a row it read earlier | the odometer path never goes back; the first dismissal stands |
| Reminders (`reminders/*`) | Reminder rows with due date, due odometer, repeat rule, links | create, edit, complete, snooze, complete by record | the successor is built before the transaction; two completions | one successor for one completion |
| Renewals and papers (`reminders/renewal-link.ts`, `vehicle-documents/*`) | policies, compliance papers, the reminder that follows the paper of record | add, edit, delete a paper; roll, re-date, adopt, unlink | recency by dates that may be edited or missing; four writes in a row | at most one open reminder follows, and it follows the paper of record |
| Maintenance records (`maintenance/*`) | records, line items, the reminder a record makes | create, confirm, edit, bulk import, delete | a record makes one reminder, fulfils others, and completes the one it was logged from | a service fulfils the older reminders of its kind and no others |
| Attachments and files (`attachments/*`, `claims/claim-attachments.service.ts`, `common/storage`) | Attachment rows; objects in storage | upload, delete, reconcile, sweep | two stores and no transaction across them | no row without its file; files without a row can be swept |
| Account deletion (`users/account-deletion.service.ts`, `auth/account-self-deletion.service.ts`) | everything of one user | plan, delete, sweep | the plan is read before the transaction | nobody else's vehicle goes with the account |
| Browser session (`apps/web/src/features/auth`, `lib/api/api-client.ts`) | the session in memory per tab and in localStorage, a timer, one shared refresh | restore, refresh before expiry, refresh after a 401, sign out | tabs share one refresh token that rotates; answers arrive after sign-out | only the server or the user ends a session; signed out means signed out |
| Rate limiting (`common/rate-limit`) | in-memory timestamps per client | hit, sweep | boundaries; a restart | never more than the limit in a window |
| Intervals, tyres, fuel, loans, accessories, claims, catalogue, extraction, audit, product events, read side, contact | their own rows | one audited write each, queries, arithmetic | decimals, layout, outside services | see the component's note in `PROJECT.json` |

Components interact through the database and by direct calls inside one
request: sharing decides access for every other component; a paper or a record
writes reminders in its own request; completing a reminder or renewing a paper
marks notifications read; the alert run reads vehicles, members, records,
papers, accessories, reminders and tyres; sign-in verifies, and a reset ends,
the sessions every request depends on.

`PROJECT.json` lists every component with its status and every hazard with its
line and the properties that cover it, or the reason none does.

## Modules

Each module is one component: state as the rows the code keeps, one action per
read or write that another request can come between, the bounds named in the
header. The MC modules add only symmetry sets, views and the small sets a `.cfg`
cannot write. The `*Proofs` modules hold theorems and nothing a run uses.

### VehicleSharing, and its promise SharedVehicle

`VehicleSharing` is one vehicle. `members`, `invites` and `pointer` are the
rows; `req` maps a slot to the request running in it, with what it has read. An
operation is its `...Begin` (the first read and its checks), a step for each
later read (`...Read`, `...Member`, `...Active`, `...Assert`, `...Target`,
`...Self`) and `...Commit`, its transaction. `Expire` is the clock passing an
invite's TTL. E-mail addresses and accounts are the same thing here, links are
numbers, and row ids are never reused, because they are random in the code.

`SharedVehicle` is the abstract specification: an owner, a role for each person,
an offer for each person without one, and atomic steps. The refinement mapping
(`Promise`) forgets rows, links and requests: the pointer is the owner, `roleOf`
the roles, and `offerOf` the one role among a person's standing offers, where an
invite counts as an offer until it is spent, or while an accept that found it
usable is under way.

### AuthSessions, and its promise SessionTokens

One account and its sessions. A password is the number of the write that set
it, a refresh token the number of its issue, so "old" and "current" can be told
apart; a mailed link is only as good as the one hash on file. `...Read` steps
look up, the others write; `Fault` ends a request after any call. `hist` records
the last password a reset set and how often the address was verified, for the
properties only; nothing reads it.

`SessionTokens` is what the API promises of sessions: started once, one working
refresh token each, replaced by every refresh, never issued twice, gone when
signed out. `AuthSessions` implements it under any overlap and failure (the
mapping forgets requests, passwords and links), and so does the server that
`WebSession` assumes: the two modules meet in this promise.

### AlertRaise

The daily run over one vehicle. `run` is the run's program counter, the check
it is at, the verdicts it loaded at the start and the rows it has yet to raise;
`unread` are the unread Notification rows, `raises` the days since each prompt
was last raised, read or deleted rows being of no account to either. `Raise` is
the cooldown, `Create` and `Collide` the insert and the unique index's refusal,
`Lookup` the search after a refusal, which may find the row read meanwhile and
then ends the vehicle's run (`runDailyChecks` catches it). What makes an alert
due is the environment's. Dedup keys are a member, an alert and a bucket.

### Renewals

The papers of one kind of one vehicle, and the reminders that follow them.
`papers` and `reminders` are the rows; `req` is what a client's request has read
since its transaction opened, because a transaction here reads first and writes
what it decided (`SyncRead`, then `SyncRenew`, `SyncFollowing`, `SyncAdopt` or
`SyncNothing`). A paper is saved in one step and its reminders synced in later
ones, so a stop or a refusal in between is `Crash` or `SyncRefused`. What the
unique link and the foreign keys refuse is in `MayFollow` and `Refused`.

`req[c].fresh` says that nobody has written since the request read, and `owed`
that papers changed, or a record re-dated a renewal, and no undisturbed sync has
run since. Both are history: no guard reads them. They let the properties say
what holds when requests do not overtake each other without assuming that they
never do.

### ServiceReminders

Service records of one category and the reminders to do that work: made by
hand, from an item of the suggested schedule (`slug`), or by a record in which
the workshop wrote down when to come back (`src`). `done` is `completedAt`,
`closed` is the status column: two columns the code writes together and reads
apart, which is where finding 2 comes from. Completing, editing, snoozing and
saving a record read in one step and commit in another. What a completion finds
out before its transaction is `Found`: the row, whether a next occurrence is to
be scheduled (`Repeats`, and not born already due, `BornDue`) and what it will
be. The commit writes that and not the row as it has become, as the code does
with `before` and `next`; a record whose named reminder is gone by then is saved
all the same, and the reminder it made still takes the rule on (`HandOff`). A
record's transaction is one step with what it makes, refreshes and fulfils; an
import writes its rows first and syncs the one that speaks afterwards.

Due dates are left out but for `BornDue`: a successor counted from a logged
service, or that of the tyre walk-around (`Walkaround`), which is counted from
the last reading, may be due at once and is then not scheduled.
`CadenceGoesOn` is about the completions that schedule one; it looks at the rows
before and after the commit and at nothing the code decides by. `KeepsCadence`
is about what they look up, and is what finding 2 violates.

### StoredFiles

One vehicle's files: `stored` is object storage, `rows` the attachment rows,
`holders` the kinds of thing that hold files. Storage and database share no
transaction, so every request alternates steps in the two, storage may refuse
any call and `Crash` stops a request anywhere. Uploads, removals, reconciliation,
the deletion of a holder, of the vehicle and of an account, and the orphan sweep
that ends the latter, are the requests. `asked` and `astray` are history:
files someone asked to remove, and files a crash, a refusal, a race or a known
gap (finding 3) left behind.

### WebSession

The browser. `kept` is the stored session, `session` each tab's own copy,
`flight` the refreshes a tab has out by who asked (opening the app, the expiry
timer, an API call that got a 401), `server` an abstract server that rotates a
refresh token, refuses the one before, and may end a session on its own. A
request may be served and its answer lost (`Lose`). Two things are left out: on
opening, a 400 or 403 to "who am I" from a server that still has the session,
after which the app tries a refresh, and the retries of a download, which unlike
other requests asks for a refresh at every 401. `crossed` is history: it turns
true when requests cross in one of the ways its comment lists, and the two
properties about whose session ends are stated for behaviours without such a
crossing, because the code keeps them only then (see "Further interleavings").

The server of `WebSession` is what `AuthSessions` does for one session seen from
outside: `RefreshRead` and `RefreshRotate` in one step. It keeps the promise of
`SessionTokens` (`ServerKeepsPromise`), which says in what sense the server
assumed here is the one modelled there; the one thing it does beyond it is to
answer only one of two refreshes of a token (the other is refused), where
`AuthSessions` lets both rotate and the first answer's token is dead on arrival.

## Runs

| run | question | instance | result |
|---|---|---|---|
| `sharing_serial` | Does sharing keep its promise when requests do not overlap? | 3 people, 2 invites, 4 links, one slot | `OneOwner`, `AcceptedIsFinal`, `OneStandingOffer`, `JoinSpendsInvite` hold, and it implements `SharedVehicle` |
| `sharing_concurrent` | What survives overlap? | 3 people, 2 slots, all operations | types and `AccessIsEarned` hold |
| `sharing_owner_lost` | Can an owner be lost? | members' operations, 2 slots | **violated** (finding 1) |
| `auth_serial` | Do sign-in, links and sessions agree one request at a time? | 3 sessions, 5 tokens, 3 passwords | `ResetEndsSessions`, `VerifiedOnce`, `OnlyItsSessionLeft`, `ChangeProvesCurrent` hold |
| `auth_concurrent` | What survives overlap and failure? | 2 slots, failures anywhere | types hold, and it implements `SessionTokens` (`ImplementsTokens`) |
| `alerts` | Are prompts asked too often, or of the wrong people, and does what stays due get heard? | 2 members, a viewer among them, 3 alerts, 2 buckets, cooldown 2, one lost run | types, `NotAskedTwice`, `NobodySkipped` and, under fairness, `EveryoneHears` hold |
| `renewals` | Does the reminder follow the paper of record? | 2 papers, 2 reminders, 2 requests | `OneRenewal`, `SettledUnlessOwed`, `UndisturbedAccepted`, `HandsOn` hold |
| `service_reminders` | Is a cadence kept, once and only once? | 2 records, 3 reminders, the walk-around's item, one request | `StatusTellsDone`, `CadenceGoesOn`, `SoleSuccessor`, `StaysCompleted`, `ClosedByLaterService` hold |
| `service_cadence_lost` | And with two requests? | 2 requests, another item | `KeepsCadence` is **violated** (finding 2) |
| `files` | Does a row keep its file, and is no file forgotten? | 3 files, 2 people, 2 requests, storage refusing, crashes | `RowsHaveFiles`, `NoneForgotten`, `ReconcileSpares` hold |
| `files_left_behind` | Do a vehicle's files go with it? | 2 files, one request | **violated** (finding 3) |
| `web_session` | Who can end a session, and does the tab stay usable? | one tab, 2 accounts, 2 sign-ins | `ShowsItsOwnUser`, `ServerKeepsPromise`, `OnlyTheServerEnds`, `SignOutSticks` hold; under fairness `LoadingEnds`, `StaysFresh` |

### Findings

1. A transfer that commits between another request's role check and its write by
   id is undone: the vehicle has a pointer and no owner row, so nobody may
   delete it, invite, or hand it over (`vehicle-members.service.ts:78,120`,
   `vehicle-invites.service.ts:356`).
2. An edit or a snooze that read a reminder open writes an open status over it
   after it was completed; `buildNextOccurrence` goes by the status column
   (`service-schedule.service.ts:285`), so that row covers its schedule item for
   good and the next completion schedules no successor.
3. Deleting a vehicle lists the files of records, policies, warranties, loans
   and compliance papers; the rows of claims and accessories go by the same
   cascade and their files stay in storage (`vehicles.service.ts:326-345`) until
   the account that uploaded them is deleted.

### Further interleavings

Each of these violates a property of a passing run when its instance is widened
(a second slot, `Faults`, `StableOrder` FALSE, a second tab) or its history
condition dropped. They are not runs; the passing runs claim no more than their
instances.

Sharing, with two slots:
- a revoke that read the invite before it was accepted stamps it revoked and
  answers success, and the member stays (`AcceptedIsFinal`);
- two accepts that both read a link pending: the second brings back a member
  removed in between (`JoinSpendsInvite`);
- two overlapping `createInvite` calls leave two active invites for one address
  (`OneStandingOffer`, `ImplementsPromise`).

Sessions, with two slots:
- a sign-in that compared the old password before a reset starts its session
  after the reset has ended them all (`ResetEndsSessions`); so does, with
  `Faults`, a reset that dies after writing the password;
- `rotateSession` writes by session id: two refreshes of one token both succeed
  and the first answer's token is already dead (`token.service.ts:197`);
- a verification link read twice is counted twice (`VerifiedOnce`); a password
  change overlapping a reset or another change replaces a password its caller
  never proved (`ChangeProvesCurrent`).

Alerts, with `StableOrder` FALSE: an order of members that changes daily,
together with reads that always hit the row just ahead of one member, keeps that
member unheard (`EveryoneHears`).

Reminders, without the exception `SavedAgain`: a record that says when to come
back is saved again and named as the service done for a reminder, although the
reminder it made is completed by then; `completeByRecord` schedules nothing from
the rule (`reminders.service.ts:318`) and the made one is not open to take it on
(`CadenceGoesOn`). With two requests, two completions that both read the
reminder open schedule two successors (`SoleSuccessor`).

Renewals: editing a record whose reminder was adopted as a renewal re-dates the
renewal (`next-due-reminder.ts:104-108`), although the schema's comment says the
link decides the date (`schema.prisma:860-861`). `owed` counts it.

Files: deleting a policy cascades to its claims without listing their files;
`claims.service.ts:122` and `vehicle-loans.service.ts:156` delete a claim or a
loan without removing its files; the comment at
`account-deletion.service.ts:47-55` still says that a vehicle's deletion removes
files only for maintenance records. `astray` counts what they leave. An invite accepted between the plan of an
account's deletion and its transaction loses the new member the vehicle
(`account-deletion.service.ts:146`): `Plan`, `Join` and `Close` do so in the
model, the code has nothing against it, and no property speaks of it.

Browser: a refresh answered after a sign-out and a new sign-in restores or
clears the other session; a refresh of the timer refused after a sign-out shows
"Session expired", contrary to `auth-provider.tsx:230-232`; a restore with the
client's clock behind puts the stored, older token over a fresher one; two tabs
rotate under each other; a lost answer to a rotation ends the session at the
next refresh; a request refused twice while a refresh is out ends a live
session. `crossed` counts them, and a request refused twice with nothing else
out is the exception `OnlyTheServerEnds` names.

### Bounds, and why they are enough

Bounds are named in each module's header and set in the `.cfg`.

- Two slots or clients put any one request between any two steps of another;
  the findings need no third.
- Sharing: two people besides the creator let one be invited, removed and
  invited again while the other is transferred to; one invite row with two
  links covers resending.
- Sessions: three sessions, five tokens and three passwords let a session be
  started, rotated, revoked and started again around two changes of password;
  with two slots, two sessions and three tokens let each request rotate once
  after the sign-in that precedes them.
- Alerts: two buckets and a cooldown of two mornings let a prompt's key move and
  its window pass; three alerts let one abort hide another, and a prompt come
  after both.
- Renewals: two papers let either be of record, be backdated and be deleted
  under the other; two reminders let one be released and the other follow.
  Start dates are left out, since recency falls back on end dates.
  The constraint `EndsTried` lets paper 1 end on day 1 or 4 and paper 2 on day 1
  or never, so that they can tie, swap, or never run out. Without the constraint
  the run has 3.7 million states instead of 1.5 and passes as well.
- Service reminders: three reminders and two records let a reminder be
  completed twice over, each time with a successor, and an older service be
  saved after a younger one.
- Files: a batch of two on a paper lets one of a batch fail; a claim falls with
  its policy; a guest and the owner upload, so either account can be closed
  while the other's files remain.
- Browser: two sign-ins let the second be to another account, one lost request
  and one access token that runs out let each fail once. With two tokens running
  out (`MaxDead = 2`, 1.3 million states) the run passes too. With two tabs the
  safety properties are weaker by `crossed`; the run keeps to one, over any
  number of openings and closings.

Deadlock is checked where the system never stops: `alerts`, `renewals` and the
two runs of ServiceReminders. It is off in the others: a deleted vehicle accepts
no request, an instance of AuthSessions or WebSession may use up its sessions
and tokens, and StoredFiles stops when the vehicle and both accounts are gone.

Symmetry (slots, clients, invite rows, people other than the creator) is used
only in runs without liveness. `renewals` also has a `VIEW` that forgets the
date of a completed reminder: no action reads it and no property does.

### Fairness

`alerts`: `FairSpec` asks that the run's next step is taken
(`WF_vars(RunStep)`: every awaited call answers) and that mornings come
(`WF_vars(NextMorning)`: cron). Nothing is asked of members, of what is due, or
of failures beyond their bound. Two assumptions carry the result and are
constants of the model: at most `MaxFaults` runs are lost, and the members come
back from the database in the same order every day (`StableOrder`); the query
has no ORDER BY. With a stable order the property holds, and not by accident of
the instance: a run that aborts at a row has consumed that row's unread mark,
and everything before it in the order has been raised or stands unread.

`web_session`: the expiry timer fires, a request that is out is answered or
fails in the end (the client's fetch settles), and its answer is handled.
Nothing is asked of the user, of the server's willingness, or of which of the
two outcomes a request has.

## Theorems

Every proof is for all values of the constants, under the named ASSUMEs of the
module: any number of people, slots, invites, sessions, alerts, buckets, papers,
dates, files, tabs and requests. The ASSUMEs ask that the constants have sensible
ranges and that markers such as `None` or `NoHandoff` are no rows
(`RowsAssumption`, `NoInviteIsNoRow`, `ServiceReminderRows`, `WebSessionMarkers`). Theorems about one request at a time assume in so
many words that there is one slot at most.

| theorem | says | how |
|---|---|---|
| `VehicleSharingProofs!TypeCorrect` | types; no invite and no request carries the owner role | inductive by itself: a record type for each kind of request fixes what a later step may write |
| `VehicleSharingProofs!AccessInvariant`, `AccessEarned` | `AccessInv`, and so `AccessIsEarned`, however many requests overlap | The property alone is not inductive: an accept writes what it read earlier, so it needs that the invite still names the caller (`AcceptNamesCaller`) and that a deleted vehicle leaves no rows and is not created again (`NoVehicleNoRows`) |
| `VehicleOwnerProofs!OneOwnerWithoutTransfer` | `OneOwner` when `Ops` has no transfer, however many requests overlap | inductive invariant `OwnerInv`: no request past its checks is about to write the creator's row (`CreatorUntouched`). Finding 1 is why the hypothesis is needed |
| `VehicleOwnerProofs!OneOwnerInTurn`, `AcceptedStaysAccepted`, `JoiningSpends` | `OneOwner`, `AcceptedIsFinal`, `JoinSpendsInvite` with transfers, one request at a time | inductive invariant `VehicleSharing!SerialInv`: what the request has checked is still so when it writes (`StillSo`) |
| `VehicleOwnerProofs!OwnerHandsOverInTurn`, `OwnerStaysWithoutTransfer` | `OwnerOnlyHandsOver`, one request at a time, and under any overlap when `Ops` has no transfer | between two states with one owner each (`OwnersFollow`). With neither hypothesis it is false: finding 1 |
| `VehicleOwnerProofs!OffersAreSingle`, `PromiseIsKept` | `OneStandingOffer`, and every behaviour is one of `SharedVehicle` (`ImplementsPromise`), one request at a time | inductive invariant `VehicleSharing!OfferInv`: `SerialInv`, at most one standing offer per person and none to a member, and what a request about to make, renew or spend an offer has found is still so (`OfferStillDue`). With one offer a person the `CHOOSE` of the mapping has one value to choose, and each step either keeps the offers (`OffersKept`), ends one (`OfferEnds`) or makes one (`OfferMade`), which is a step of `SharedVehicle` or a stutter |
| `AuthSessionsProofs!TypeCorrect` | types; no password sign-in on an account without one | inductive by itself |
| `AuthSessionsProofs!EndedForGood` | `SessionsEndForGood`, with overlap and failures: the part of `SessionTokens` that needs no mapping | from the types: a started session takes a new id, a rotation only a living row |
| `AuthSessionsProofs!TokensKeepPromise` | every step is a step of `SessionTokens` or leaves sessions and tokens alone, with overlap and failures | a refinement step by step: each of the four ways to write a session (`StartSession`, `RotateSession`, `RevokeAllBut`, the delete by id) is one abstract step, whatever its request had read |
| `AuthSessionsProofs!ResetEndsThemAll`, `CountedOnce`, `ProvedBeforeChanged`, `ChangeLeavesItsOwn` | `ResetEndsSessions`, `VerifiedOnce`, `ChangeProvesCurrent`, `OnlyItsSessionLeft`, one request at a time and none failing halfway | inductive invariant `AuthSessions!SerialInv`: passwords are set in order, whoever acts on one holds the present one, and a verified address has no good link and nobody about to issue one |
| `AlertRaiseProofs!TypeCorrect` | types; no viewer holds an alert meant for editors | needs that every row the run has yet to raise is its recipient's (`RunOK`) |
| `AlertRaiseProofs!PromptsKeepTheirDistance` | `NotAskedTwice` for any cooldown | `Create` does not look at the cooldown, so `RunOK` carries the answer of `Raise` over the awaits in between |
| `AlertRaiseProofs!NobodyDropsOff` | `NobodySkipped`, the part of `EveryoneHears` that needs no fairness | adds that the run owes nobody anything between two alerts (`NoneLeft`); each step then strikes off at most the one recipient it tells |
| `RenewalsProofs!TypeCorrect`, `RenewalIsUnique`, `SyncSettles`, `FreshIsAccepted`, `RenewalHandsOn` | the five properties of `renewals` | the inductive invariant is `FreshReads`: as long as nobody has written since, what a request read is what the rows say. Uniqueness needs only the unique index; that the index never refuses an undisturbed transaction is the theorem with content |
| `StoredFilesProofs!TypeCorrect`, `RowsKeepTheirFiles`, `FilesAccountedFor`, `ReconcilingSpares` | the four properties of `files` | `IInv`: what each request holds (`Sound`), and that an upload's names are held by no request that removes what it holds (`Apart`), but for the sweep of an account, which needs the account gone while an upload's row needs it there. `NoneForgotten` adds that a deletion nothing disturbed has listed all that falls (`Complete`) |
| `ServiceRemindersProofs!TypeCorrect`, `CompletedStays` | `TypeOK`, `StaysCompleted`, however requests interleave between their reads and their transactions | inductive by the types of what each request holds (`Requests`): every write there is leaves `completedAt` set, those made from an old read too |
| `ServiceRemindersProofs!StatusIsTrue`, `CadenceKept`, `OneSuccessor`, `LaterServiceCloses` | `StatusTellsDone`, `CadenceGoesOn`, `SoleSuccessor`, `ClosedByLaterService`, one request at a time, the walk-around's item or another | inductive invariant `SerialInv`: what a request read of its reminder is still so when it writes (`StillSo`). With the status column telling the truth, nothing covers the only open reminder of an item (`NothingInTheWay`), and a record's save leaves an open one to repeat (`SaveGoesOn`). Finding 2 is why the hypothesis is needed |
| `WebSessionProofs!TypeCorrect`, `RightUserShown` | `TypeOK`, `ShowsItsOwnUser`, for any number of tabs | `IInv`: every session held, stored or on its way is of a sign-in the server knows, under its account (`KnownAll`); no tab holds a token whose answer is still to be heard (`NewTokens`); and what a tab has out while it is closed, loading or signed in (`Here`) |
| `WebSessionProofs!ServerIsAsPromised` | the server of `WebSession` implements `SessionTokens` too | from `IInv`: a refresh that is out presents a token with a successor, so what is served is the working token, replaced by one never issued |
| `WebSessionProofs!ServerHasTheLastWord`, `SignedOutForGood` | `OnlyTheServerEnds`, `SignOutSticks`, for any number of tabs | `Calm`, which says what is so until requests cross: a session has one refresh out, by its holder (`Alone`, `ItsOwn`); what is held is the newest token or its successor is already on its way (`UpToDate`, `KeptUpToDate`, `Newest`); a refusal means the session is over (`Refused`); nobody holds what is being signed out (`SignedOut`) |

TLC checks each of these properties in a passing run, but for
`SessionsEndForGood`, which `ImplementsTokens` includes (`SessionTokens` starts a
session once), and `OwnerOnlyHandsOver`, which is checked by the run that
violates it. The
strengthenings were checked with TLC on the runs' instances before they were
proved; none is an INVARIANT of a run.

Model-checked only: everything under fairness (`EveryoneHears`, `LoadingEnds`,
`StaysFresh`). Liveness and ENABLED are out of the prover's reach, and so is what
a recursive definition computes for every input. Every other property of a
passing run is a theorem.

## Not modelled, and why

- The text of anything, the catalogue, extraction, reports and pages: no state
  a property would be about. Most of the repository's lines are of this kind:
  the catalogue's snapshot data alone is tens of thousands of lines, and the web
  application's pages and the shared schemas most of the rest, which is why the
  map covers a small share of them.
- Audit and product events: inserts in the transaction of what they record.
- Delivery of mail and push: I/O without state. A crash between a notification's
  commit and its delivery loses the mail; nothing promises otherwise.
- Due dates in `ServiceReminders` and the arithmetic of `repeat-rule.ts` in
  `Renewals`: a successor may be born at any date, or not at all.
- The odometer, the rate limiter, the loan schedule, service intervals and
  tyres: see the plan.
- The database itself: a transaction is taken as atomic and a unique index as
  enforced, at read committed.

## Plan

Done: sharing, sessions, alerts, renewals, service reminders, files with account
deletion, the browser session. Next, in this order:

1. `Odometer`: the writers of the vehicle row (`vehicles.service.ts:297`,
   `fuel-logs.service.ts:214`, service records), reads and commits apart.
   Property: the odometer path never takes back a higher reading.
2. `RateLimit` (`rate-limit.service.ts:62`): the sliding window and its sweep
   against a reference definition; never more than the limit in a window.
3. `Amortization` (`amortization.ts:82`): the schedule as a recursive function
   in whole units against a reference definition over bounded inputs.
4. Intervals and baselines as operators, and with them what `AlertRaise` takes
   as due.
