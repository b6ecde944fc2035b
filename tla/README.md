# Passdown, specified

TLA+ modules for [Passdown](../src), a self-hosted library of work guides: a
Next.js application (`apps/web`) over PostgreSQL (`packages/database`), with an
operator command line (`apps/operator`) for migration, backup and restore. Every
definition follows the code, and `PROJECT.json` names the lines each one stands
for. TLC checks small instances; TLAPS proves, for every value of the constants,
most of what the runs check and the inductive invariants behind it.

## The system

| Part | State | Operations | What makes it hard | What makes it correct |
| --- | --- | --- | --- | --- |
| **Guide library** (`store.ts`, `structured-store.ts`, triggers in `migrations/`) | category tree, catalog items and their frozen versions, drafts, numbered releases, requirement references, outbox | create and update a category or an item; create, save, publish, withdraw, reinstate, move a guide | every edit is legal on its own and only the combination is wrong; blockers look at a few rows and must cover all; managers act on stale screens | what is public is readable, whatever the order of edits; numbering, references and events are exact |
| **People** (`store.ts`, `021_invitations.sql`) | memberships, invitations, accounts | invite, revoke, accept, change a role, remove | concurrent transactions under row locks, an advisory lock and a trigger; an acceptance that is three transactions | a manager remains; links work once; nobody acts on a role they lost |
| **Guide families** (`012_guide_families.sql`) | one parent link for each guide | set or clear the parent | concurrent links | no cycle, a bounded number of levels |
| **Guide editor** (`components/studio`) | the author's copy of a guide, the visual editor's text beside it, requests under way | type, add and arrange steps, assign items, save, reload, publish, withdraw, move | answers that arrive late, out of order, or after another manager's change; text the format cannot hold | no typed text is lost, nothing is published unseen, no edit leaves a reference behind |
| **Management pages** (`components/structured`) | a list, an open record, a form, each with a request | search, page, unfold, open, add, change, set a picture | overtaken answers; another manager's changes | the list settles on what is stored; an added row can be seen; an edit replaces what it showed |
| **Restore** (`restore-flow.ts`, `staging.ts`, `restore.ts`) | a checkpoint in a database comment and its mirror in a file, staged pictures, connection rights | restore, activate, discard | a crash between any two steps; files and database move separately | no step skipped or half done, access closed until the end |
| **Backup** (`commands/backup.ts`, `lifecycle.ts`) | a snapshot, a lock, the archive | one long command | uploads and migrations go on meanwhile | database and pictures agree |
| **Migrations and deployment** (`migrator.ts`, `migrate.ts`, `startup.ts`, Compose, `upgrade.sh`) | the applied list, notices for the proxy, the serving build | deploy, migrate, start the web service | two migrators; a commit of unknown outcome; two builds | each file once, in order, unchanged; nobody serves a schema they do not know |
| **Secrets** (`init-secrets.ts`) | secret files | created once | kills and power failures between the steps | whole or absent |
| **Accounts and credentials** (`credential-store.ts`, `032`, `034`) | passwords, sessions, reset links, administrators | issue, redeem, cancel, change, grant, revoke | a documented lock order; a sign-in racing a reset | one open link; a password is replaced only by proof; an administrator remains |
| **First run** (`setup.ts`, `033`) | the default login | create, finish | two browsers finishing at once | finished exactly once |
| **Pictures** (`media.ts`, `store.ts`, `011`, `024`) | files, rows, references | upload, save with, discard | the file and the row are written apart | a row always has its file |
| **Rate limits** (`store.ts`, `auth/[...all]`) | counters with an expiry | look, count, clear | looked at before, counted after | a bounded excess |
| **Guide content** (`guide-content`) | none | requirement checks, step order, rich text | | pure functions |
| Reader's library and search, row-level security, settings and logging, pages | | | read-only, predicates, or rendering | not modelled |

The server's parts meet in the database. A handler of the web application is one
transaction: `BEGIN`, the actor's identity as settings, `app.lock_scope` (share
locks on the actor's account, the workspace and the actor's membership), a check
of the role, the lock of the part it writes, the reads it decides on, the writes
with their triggers, `COMMIT`. A refusal is an exception and rolls everything
back. The browser's parts meet the server in requests whose answers arrive late;
the operator's parts meet it in advisory locks, the applied list and the picture
volume.

## Modules

| Module | What it is |
| --- | --- |
| `GuideLibrary` | the category tree, the catalog, the guides and the outbox of one workspace |
| `GuideScreens` | the library with the pages its managers have open, and the requests sent from them |
| `PublicShelf`, `GuideDraft` | what the library promises a visitor, and a client that edits one guide; `GuideLibrary` implements both |
| `Editor` | one tab of the guide editor, a client of `GuideDraft` |
| `Authoring` | the document the tab edits, with the visual editor's text |
| `Families` | filing guides under one another |
| `Roster` | members, invitations, and the requests that change them, statement by statement |
| `ManagementPage` | the pages for things and catalog items |
| `Credentials`, `RateLimit` | passwords, sessions, links, administrators, setup; attempt limits |
| `RestoreFlow`, `SafeRestore` | restoring an installation; the promise it implements |
| `Secrets`, `Migration`, `Pictures`, `Backup`, `Deployment` | an installation and what its operator runs, `Deployment` composing the others |
| `MCGuideLibrary`, `MCGuideScreens`, `MCManaging`, `MCEditing`, `MCCredentials`, `MCRestoreFlow`, `MCDeployment` | small instances for TLC |
| `GuideLibrary_proofs`, `GuideLibraryFiling_proofs`, `GuideLibraryRefinement_proofs` | types, numbering, readable guides; the tree, filing, references, items; the refinements, the outbox, the pages of `GuideScreens` |
| `Managing_proofs`, `Credentials_proofs`, `RestoreFlow_proofs`, `Deployment_proofs`, `Editing_proofs` | the theorems about the parts they are named for (`Managing_proofs`: `Roster`, `ManagementPage` and `Families`; `Editing_proofs`: `Editor` and `Authoring`; `Credentials_proofs`: `RateLimit` too) |

An MC module may put parts side by side that share no variable (`MCManaging`,
`MCEditing`, `MCCredentials`). There each part moves only while the others stand
where they started, so that the states add up instead of multiplying; projected
on one part's variables the behaviours are that part's own.

### GuideLibrary

**State.** One variable for each table: `category`, `item`, `snapshot`
(`catalog_item_version`), `guide`, `release`, `reference`
(`guide_requirement_reference`), `outbox`. A row that is not inserted yet is a
row with version 0 (state `"absent"` for a guide). Identities are model values,
because the code only compares them.

**Steps.** Every handler here takes the advisory lock 719821007 of its
workspace before it reads what it decides on and holds it to `COMMIT`; its
isolation is `READ COMMITTED`, so under the lock it sees all that was committed
before. One transaction is therefore one action, and the triggers it fires are
part of it:

| Action | Code | Triggers |
| --- | --- | --- |
| `CreateCategory`, `UpdateCategory` | `createCategory`, `updateCategory` | `check_category_tree`: `PlaceAccepted`, `VisibilityAccepted`, `ArchiveAccepted` |
| `CreateCatalogItem`, `UpdateCatalogItem` | `createCatalogItem`, `updateCatalogItem` | `check_catalog_visibility`, `check_catalog_item`, `snapshot_catalog_item` |
| `CreateDraft`, `SaveDraft` | `createDraft`, `saveDraft` | `check_guide_category` |
| `PublishDraft` | `publishDraft` | `check_guide_category`, `guide_publication_state` |
| `WithdrawGuide`, `ReinstateGuide` | `changePublication` | `guide_publication_state` with `reinstate_blockers` |
| `SetGuideAudience` | `setGuideAudience` | `guide_publication_state`, `check_guide_audience` with `guide_public_blockers` |

What a client sends about the state it saw (`expectedVersion`,
`expectedRelease`, `expectedPublicationRevision`) is chosen freely: the server
faces every stale screen.

**Promises.** `PublicShelf` is what a visitor may rely on: what is readable, and
that only a release changes what a guide says. `GuideDraft` is what a client may
rely on: it may send any version, release and revision, and its request takes
effect only if they are the guide's when it is served. `GuideLibrary`
implements both. The second is stated request by request (`ImplementsDrafts`): a
step that is a handler's answer to some expectation (`Served`) is a step of
`GuideDraft` for the same guide, whose own handlers compare what was sent.

**Screens.** `GuideScreens` adds what those numbers are for. `Look` delivers a page of
a guide - its row, the release readers have, and how much had been decided by then -
at any moment, and it stays in front of its reader while others go on. `Sent` is what
a request from that page carries: three numbers, of all that was read.
`RequestsActOnWhatWasShown` says that the three are enough: a save replaces only the
text that was shown; what is published is the draft that was shown, in the section
shown, with nothing published, withdrawn or moved since; a withdrawal or a
reinstatement is of a publication nobody has decided on again; a move opens or closes
only the release that was shown. The page is the model's, not a client's code: `Editor`
is the client that keeps such a page up to date.

**Abstractions.** One category domain (`'guide'`; the others are unused since
migration 015, and a category's domain cannot change). A document is the set of
item versions it requires; its text, pictures, licence and guide type, and the
names and codes of categories, are left out with the checks on them, which only
refuse. The recursive walks of the triggers stop at 16 levels, and
`TreeStaysATree` shows no chain is longer, so `Chain` is the whole walk. The
state `'redacted'` and a change of the workspace's audience are in the schema
and are written by no code. Actors are managers: losing the role concerns
`Roster`. `setCategoryImage` changes only a picture (`ManagementPage`).

**No fairness** is assumed: nothing in this part has to happen. It is people who
save and publish.

### Editor

**State.** What the tab holds (`screen`, `baseline`, `conflict`, `license`,
`dialog`, `observed`), the requests under way (`call`, one of each of nine
kinds), and of the server the guide's draft and releases (`GuideDraft`). Four
histories are not the code's: `delivered`, `typed`, and in `screen` `base` (the
version the text was made from) and `sources` (whether section and revision came
with one answer).

**Steps.** A request is three steps: sent with what the screen shows at the
click; served on what the draft is by then (`ServeSave` and the others,
or a colleague's change first); answered, when the tab merges the answer into
what it shows now. In between anything else may happen, and a request or its
answer may be lost. The tab's steps are the handlers of `editor.tsx`: typing, an
upload and a created item, whose answers change the document; save, reload, the
publication dialog, the state read again after a refusal, the withdrawal dialog,
the move.

**Abstractions.** A text is a model value. Several requests of one kind are not
under way at once, because the buttons wait for the answer. The list of versions
and the guide's other pages are left out.

**No fairness**: an author may leave.

### Authoring

What `Editor` calls the content of the screen is here the document: `outline`
(the order of the steps), `page` (their instructions, prerequisites, uses,
pictures), `prepared` (what the guide does with an item). Beside it stand what
the visual editor last held for a step (`kept`), which steps it cannot save
(`errors`), what it shows (`canvas`, `lastBody`) and a picture that is being
added. Each action is one click: React runs one handler at a time, and the
editor that the new page opens reports in the same step (`View`).

The server accepts documents of `guideDocumentSchema` only: one to a hundred
steps with an id each (`WellFormed`, assumed of `SavedDocuments` as
`DocumentsAssumption`). Whether references in them are sound is checked at
publication only, so nothing is assumed about that.

**Abstractions.** An item's requirement is identified with the item. Left out:
units, quantities, optional marks, preconditions, callouts, annotations, the order
of pictures, unresolved tools of old documents, read-only instructions that are
too large, and the review of catalog updates. An item created from a step is
`Editor`'s.

### Families

A manager files a guide under another in a transaction of several statements;
`Families` runs them one at a time, at `READ COMMITTED`. The trigger takes the
advisory lock 719821009 of the workspace, walks up and down in what is committed
by then plus its own link, and keeps the lock to the commit. `CheckFamily` is the
two walks with the code's own bounds (each stops at the limit of levels).
`FamiliesAreTrees` is about what is committed. The picker's list is left out.

### Roster

Roster requests share no lock that would make each of them one step, so `Roster`
runs their statements one at a time.

**State.** `member` (`app.membership` as committed), `account` (the
`auth_user` of each address), `invitation`, and `request`: for each request under
way its kind, what it was asked, what it has learnt, and where it stands (`at`).
A request's locks follow from where it stands: `Shares` is `lock_scope`'s `FOR
SHARE`, `WritesRow` an uncommitted membership row, `HoldsRoster` the advisory
lock 719821010, `HoldsInvitation` the `FOR UPDATE` of `accept_invitation`.
`WaitsFor` says which of them the next statement of a request waits for. What a
request wrote is added to `member` at its `Commit`; until then it is seen by
itself only (`Written`).

| Request | Places it passes |
| --- | --- |
| `setMemberRole`, `removeMember` | `LockScope`, `CheckOwner`, `LockRoster`, `WriteMember` (with `check_last_manager`), `Commit` |
| `inviteToWorkspace` | `LockScope`, `CheckOwner`, `CheckAlready`, `InsertInvitation` |
| `revokeInvitation` | `LockScope`, `CheckOwner`, `DeleteInvitation` |
| accepting a link | `OpenLink` (describe, find the account, be signed in as it), `SignUp` if there is none, `LockInvitation`, `Join`, `Commit`, `MarkVerified` if it signed up |

A refusal ends the request. `Crash` ends it anywhere: its transaction is rolled
back and what earlier transactions did stays, an unverified account among it.
`AbortDeadlocked` is PostgreSQL's choice of a victim: a request on a cycle of
waits. `Expire` is the clock.

**Abstractions.** An address is the person who has it. The last statement of an
invitation or a revocation and its `COMMIT` are one step, because nothing else
reads or waits between them. `describeInvitation` and `findAccount` are one step:
what the first reads is read again under the lock. `now()` is read at the
statement. The schema has suspended memberships and accounts; no code of the
application writes them. Rate limits and the sign-in after acceptance are left
out. PostgreSQL's locks, and signing up for an address that has an account (it
answers with a user that does not exist, as `store.ts:655-662` describes), are
external.

**Fairness.** Weak fairness of `Step(r)` for each request (`FairManaging`): the
database runs a statement that waits for nobody, and its detector ends a
deadlock. It is not assumed that people send requests, that a crash happens, or
that a lock others keep taking is ever granted; so `RequestsEnd` is about what
happens once requests stop coming.

### ManagementPage

The server's `records`, what the viewer has chosen (`question`), the list request
under way and the answers it overtook (`fetch`, `overtaken`, `result`), the record
open over the list with its own request (`sheet`), a form with its request
(`form`), a picture being set (`upload`). A request reads `records` when it is
served and is used when it arrives; other managers change `records` meanwhile.
`Listing` is the server's query: filters, the unfolded branches of the tree, the
page that holds the row to place.

**Abstractions.** A search is a word a record has or not; siblings are ordered by
`Rank`; sort orders, counts and the columns are left out. The wait before a search
is sent is part of the request. One answer is overtaken at a time. The server may
refuse a form for any further reason. Which records guides use does not change.

### Credentials and RateLimit

**Credentials** has the tables (`account`, `password`, `admins`, `default`,
`workspace`, `link`, `session`), what each request read before it writes (`job`)
and what the web process remembers of setup (`remembered`). A request reads first,
in a transaction of its own, and writes later; every password write locks the
account's row (`032`) and what follows it is one step. Losing an administrator
(revocation, suspension, deletion) waits for the lock of the administrator set as
well and is two. Suspending, reactivating and deleting an account are the
operator's SQL, from the documentation. Used and closed links are not told apart
by date, `must_change_password` is the default login's mark, and the sign-in that
follows a redeemed link is an ordinary one. An installation that existed before
migration 032 is not modelled.

**RateLimit**: a sign-in reads the counter of all addresses, then its own, lets the
password be checked, and charges both for a wrong one or clears its own for a
right one; a change to the library is charged to the person, then to the
installation. Each of these is a transaction. A counter runs for a fixed window
from its first charge; a charge also sweeps what has expired, of every key. The
other counters are one `consumeRateLimit` each and are left out.

### RestoreFlow

**State.** The checkpoint in the database's comment (`db`), what the database holds
(`data`), whether the runtime role may connect and is connected (`connect`,
`online`), the mirror of the checkpoint on the picture volume (`file`), where each
workspace's pictures are (`place`), what else is in the control directory
(`control`), and the one command that runs (`at`, `memo`, `mine`): an advisory
lock keeps others out.

**Steps.** Restore goes through `Preflight`, the set-up of its directory (`Claim` to
`Unclaim`), `Begin`, `Receive` to `MarkLoaded`, `Verify`; activation through
`ResetAccess`, `Move`, `MarkMoved`, `Activate`, the probe of the sign-in, `Finish`;
discarding through `Wipe`, `Unmove`, `WipeData`, or less where only the directory
or only the mirror is left. At each step the command may fail,
which the code answers (`FailSetup`, `Abort`, `GiveUp`), or stop (`Crash`). The web
service connects whenever it may (`WebConnects`).

Removing a directory takes its contents first (`Erase`: the pictures of a workspace,
then its directory; `RemoveRun`: the workspaces' directories, then the staging
directory itself), and may be cut off anywhere in it. Every write of the file's state
asks for the staging directory first (`checkedPaths` in `persist`), so once a discard
has removed it no activation gets further (`CannotWrite`, `CannotMove`): that is what
`OpenOnlyWithPictures` rests on.

**Abstractions.** A command whose connection is lost ends at its next call. The check
and rename of `persist` is one step. The staging directory and the `media` directory in
it are one. A process may be lost anywhere; the order in which a power failure leaves
removals that were not synced yet is not modelled. How the role's
access was before is one Boolean. Tampered dumps and other schemas, which only
refuse, are left out.

**Promise.** `SafeRestore`: the target is as found, under way, or installed; what was
restored is cleaned before it is installed; the web service connects only to what is
installed. **Fairness** for `RetriesSettle`: the running command goes on
(`WF(Work)`); the property assumes an operator who keeps activating and discarding,
and that faults stop.

### Deployment

`Deployment` composes `Secrets`, `Migration`, `Pictures` and `Backup`.

* **Secrets**: a partial file, its content, its flush, the link under its name, the
  removal of the partial name; a kill between any two; a power failure takes what
  was not flushed.
* **Migration**: an `attempt` is one run of `migrate`, with its `session` at the
  database apart from it: a command that lost its connection is over while its
  session may still commit. `ran` is what happened to the schema, `recorded` what
  `schema_migration` says. `notices` are what the proxy shows. The web service is
  started only after a migration that succeeded, and serves what `startup.ts`
  accepts. After the migrations a command makes the first account if there is none
  (`ensureDefaultLogin`), in a transaction of its own on a connection of its own, under
  an advisory lock (`CreateLogin`, `CommitLogin`, `LoginCreated`). `firstLogin` says
  whose transaction made it. When the answer to that `COMMIT` is lost and no migration
  was applied, the command says "unchanged" (`migrate.ts:97-99` counts migrations) though
  the account was made, perhaps late. `UnchangedIsTrue` therefore speaks of migrations,
  and of the account only that it is the installation's single first one.
* **Pictures**: the file, then the row's transaction, then saves that refer to it;
  a lost `COMMIT` answer makes the route remove the file, as its comment says.
* **Backup**: the snapshot under the migration lock, the check of the files, the
  dump, the release of the lock, packing the pictures, publication. `verify-media`
  is its first part.

**Abstractions.** Accounts people make themselves are there from the start or not at
all. Power failures concern secret files only; pictures are not synced
at all. A picture's narrower renditions, the archive's format and a manifest's
fields are left out. `ShipsAssumption`: the files of a build are sorted with
distinct names (`migrator.ts:85-90`), and a version adds its own after those of the
one before (`getting-started.md:113`); the content of a file may differ between
builds, which is the case the checksum is for. **Fairness**: the init service, every
`migrate` and every backup that runs goes on (`WF`), and so does a session at the
database; nothing makes anybody start anything.

## Runs

| Run, configuration | Instance | Shows | Properties |
| --- | --- | --- | --- |
| `library` (`Library.cfg`) | 3 categories on 2 levels, 1 item, 1 guide, 4 revisions | the tree is one, what readers have stays readable and filed, numbering, references and outbox are exact, `PublicShelf` is implemented | `ReadersKeepWhatTheyHave`, `ReleasesFollowDrafts`, `OutboxTellsPublication`, `ImplementsShelf`, `ReferencesMatchDocuments`, `TreeIsSound` |
| `screens` (`Screens.cfg`) | 2 categories, 1 guide, 3 versions, 4 revisions, 1 page | a request sent from a page, however old, acts on what the page showed or not at all; `GuideDraft` is implemented request by request | `RequestsActOnWhatWasShown`, `ImplementsDrafts` |
| `managing` (`Managing.cfg`) | a manager and a newcomer, 2 requests at once, 1 invitation; 2 records on pages of 1, 2 changes | a manager remains, a checked role lasts, every membership uses up an invitation, every request ends; a page's list settles on what is stored, an added row can be seen, an edit replaces what it showed | `SomeoneManages`, `AuthorityLasts`, `MembersAreInvited`, `RequestsEnd`, `ListIsCurrent`, `AddedRowsAreShown`, `EditsReplaceWhatTheyShowed` |
| `restore_steps` (`RestoreSteps.cfg`) | 2 workspaces, 2 restores | the checkpoints stay within one step, nobody reads unfinished data, what is opened has all its pictures, access is as recorded, `SafeRestore` is implemented, retries settle | `DatabaseLeadsByOne`, `NobodyReadsUnfinished`, `OpenOnlyWithPictures`, `AccessIsAccountedFor`, `ImplementsSafeRestore`, `RetriesSettle` |
| `credential_changes` (`CredentialChanges.cfg`) | 2 accounts, 2 links, 1 session, 2 passwords, 2 requests at once; 1 address, 2 callers, limits 1 to 6 | setup ends once, links are current, an administrator remains, nobody takes an account over; guesses are bounded, nobody spends the limit of all | `SetupEndsOnce`, `LinksAreCurrent`, `KeepsAnAdministrator`, `LimitsHold`, `NobodyTakesOver` |
| `deployment` (`Deployment.cfg`) | 3 builds, 2 migrations, 1 secret, 1 picture, 1 backup | secrets are whole, the schema is one build's and the web service knows it, "unchanged" means that no migration was applied, rows have files, backups are whole, every command ends | `SecretsAreWhole`, `SchemaIsOneBuilds`, `WebMatchesSchema`, `UnchangedIsTrue`, `PicturesBehindRows`, `BackupsAreWhole`, `CommandsEnd` |
| `editing` (`Editing.cfg`) | 3 versions, 2 revisions, 2 requests at once; 3 steps, 1 item, 1 picture; 4 guides on 3 levels, 2 managers | no text is replaced, saves and releases are of what was delivered and confirmed; what is typed is saved, no reference is left behind; families are trees | `WritingStays`, `SavesReplaceWhatWasDelivered`, `ReleasesAreAsConfirmed`, `WhatIsTypedIsSaved`, `OnlyTheOrderIsLeftToFix`, `FamiliesAreTrees` |
| `frozen_versions` (`FrozenVersions.cfg`), `archived_filing` (`ArchivedFiling.cfg`) | 1 category and 1 item; 2 categories, 1 guide | violations, see below | `PublicReleasesFrozePublicVersions`; `ArchivedCategoriesHoldNoLiveGuide` |
| `last_manager` (`LastManager.cfg`) | 2 managers, 2 requests at once, 2 invitations | violation | `SomeoneManages` |
| `retried_migration` (`RetriedMigration.cfg`) | as `deployment`, one command at a time | violation | `NoDataWasChanged` |
| `silent_overwrite` (`SilentOverwrite.cfg`) | as `editing`, without transactions the database gives up | violation | `SavesBuildOnWhatTheyReplace` |

**Why the bounds are enough, and what they cut.**

* `library`: the counters allow a category that is created, changed and changed
  back, a release, a later one, a withdrawal, a reinstatement and a move. Guides
  never read one another in these handlers, so one is enough; a category's checks
  quantify over guides, and a second adds only a second reason to refuse.
  `SmallEnough` explores three questions as far as each needs: the tree with all
  categories and no guide; guides filed under two of them; items required by
  guides filed under one.
* `screens`: three versions and four revisions let a page be older than a save and than
  any two of a release, a withdrawal, a reinstatement and a move. What a draft says is
  where it is filed, among two categories; nothing in these requests depends on what it
  requires. A page is of one guide, and of one guide the handlers read no other. One page
  at a time is enough: a property of one page and one request, and `Look` may replace it
  at any moment.
* `managing`: requests come one after another without limit; the number of
  invitations bounds the history of links. Two requests are enough for every race
  of a pair, the mutual demotion that deadlocks included; three waiting for each
  other are left to the theorems. With one invitation an acceptance always adds a
  member; with two it can change one (`last_manager`). On the pages, two records
  are a parent with a child and a page with a row beyond it. `OneManager` lets one
  of a late list, an answer on its way, a form and an upload be under way at a
  time, and looks at the table and at the sheet in turn.
* `restore_steps`: nothing is bounded but the identities, and a restore's identity
  can be used again.
* `credential_changes`: two of everything that can race. `OneCounter` looks at one
  kind of limit at a time: nothing reads both. The clock has two windows and one
  tick more; one charge may fail.
* `deployment`: a build, its successor with two more files, and a build whose
  second file was edited. `NotAllAtOnce` looks at two deployments, or at one
  upgrade beside an upload and a backup; it only cuts steps that start something,
  none of which is fair, so `CommandsEnd` is not made true by it.
  `AccountWhereServed` leaves out the start in which a version has served and there
  is no account.
* `editing`: three versions are the screen's, a colleague's, and one more to
  overtake; `OneStory` looks at writing and at publishing in turn, since one
  changes versions and the other revisions, and `Most` is two requests under way
  of the nine kinds. `OneTopic` looks in turn at texts, at references without
  pictures, and at pictures. Four guides are two chains that two managers can join
  in two ways at once; `MaxLevels` is 3 so that they also reach the limit.

`CHECK_DEADLOCK FALSE` stands where the counters of a model are used up, or where
everything may rest (a settled installation). No run uses symmetry together with
a liveness property.

### Five places where code and text differ

* `frozen_versions`: publishing demands that an item "now, and the exact version
  this guide froze, must both be public" (`structured-store.ts:167`), and
  `013_guide_audience_moves.sql:8-13` says the move to the public section
  enforces "the same rule". It checks only the item as it is now: a release that
  froze a members-only version can be moved before the public once the item has
  been opened.
* `archived_filing`: a category in use cannot be archived
  (`manual-test-checklist.md:238`, `009:1`), but a withdrawn guide does not
  count, and reinstating it checks only the category of its release. A guide
  whose draft was saved under another category before comes back assigned to an
  archived one. What a reader sees is right (`ReadersKeepWhatTheyHave` holds and
  is proved). The next save must choose another category.
* `last_manager`: "a workspace cannot be left with nobody who can administer it"
  (`021_invitations.sql:67`). `inviteToWorkspace` reads whether the address is a
  member, the person joins as a manager by an earlier link, and the second
  invitation, to view, is inserted: the unique index counts pending ones only.
  Accepting it lowers the role (`ON CONFLICT DO UPDATE`) without the roster lock,
  and if the other manager steps down meanwhile each trigger sees the other row
  still committed. `SomeoneAlwaysManages` proves that such an acceptance is the
  only way: without it any number of requests keeps a manager.
* `retried_migration`: the page and the command say "no data was changed" when a run
  applied nothing (`migrate.ts:26`, `install.md:264`). The count and the notice are
  of this run: an upgrade that committed a migration and lost its connection, started
  again and refused before it applied anything, now says that the previous version can
  simply be put back. The run's commands never overlap, so what it shows is the retry.
* `silent_overwrite`: of a tab whose save was refused, "It cannot silently overwrite
  the winner" (`manual-test-checklist.md:248`). It reloads; while the load is under
  way the author creates a catalog item in a form opened on the old document; the
  load brings the winner's version; the item's answer puts the old document back
  under the new version, and the next save is accepted. `SavesReplaceWhatWasDelivered`
  still holds, and is proved: the version is one the tab was given.

### Seen while modelling, without a run

* Three answers can publish an unseen section. A state read again (after a refusal)
  is served early and delayed; a reload is sent, and a publication confirmed; the
  server publishes, a colleague saves, the load is answered; the stale state sets
  the old section and revision, and the publication's answer sets the new revision
  beside the old section (`editor.tsx:1229-1238` keeps `latest.audience`). The next
  confirmed publication is accepted, though the screen shows the other section.
  `ReleasesAreAsConfirmed` therefore speaks of the section where section and
  revision came with one answer (`sources`); the text it speaks of always. This was
  found by trying to prove it: it needs one version and two revisions more than
  `editing` has.
* An overtaken answer may set the publication state of the screen back
  (`editor.tsx:1116`); text typed between confirming a reload and its answer is
  dropped; an author whose save's answer is lost is refused their own retry; a
  picture sent for one step is offered on another (`editor.tsx:86-93` says "Pictures
  for one step."); text over a limit stays on the canvas after a reload that brings
  the same text, while the page says it is saved (`rich-text-editor.tsx:182-190`).
* A transaction that the database gives up is answered as a conflict
  (`store.ts:340`), a second way into `silent_overwrite`.
* `setCategoryImage` updates the row before it takes the library's lock
  (`structured-store.ts:351-366`), which can deadlock with `updateCategory`.
* A migrate command whose first account's `COMMIT` is not answered says that nothing was
  changed (`setup.ts:59`, `migrate.ts:97-99`), though the account may be there.
* `change_own_password` asks whether the caller's account is active before it waits for
  the account's row, and not again after (`032:248-255`).
* A restore cut off while its directory is set up leaves one that only an operator
  can remove (`staging.ts:267`, `backups.md:3`). A power failure can leave
  `.name.1.partial`, which every later start of the init service refuses.
* Using a reset link "ends every session of the account" (`032:7-8`), but a sign-in
  that checked the old password just before can insert its session just after
  (`identity.ts:59` asks only whether the account is active). Another
  administrator's password "is reset only from the server" (`status.md:39`), but a
  link made for an account that is granted administration afterwards stays open
  (`032:409-430`); `LinksSpareAdministrators` is about when links are made.
* On the management pages a change of status closes whatever record is open, and a
  form that is being filled in is reset when the list is read again in a newer
  version.
* `lock_scope` locks the row there is: somebody who joins between that statement
  and the role check holds no lock, and only the row-level policies, which ask again
  in each statement, stand between them and a demotion. `AuthorityLasts` leaves this
  out on purpose.

## Proofs

Every property of a passing run that is not listed under "What stays with TLC" is a
theorem of its module's own specification, for every value of the constants that the
named `ASSUME`s admit. The runs' specifications restrict those (parts side by side,
fairness), so the theorems hold of them.

### GuideLibrary

For any sets of categories (finite), items and guides, any depth limit, either kind
of workspace, and any bounds on the counters.

* **Types** (`TypeCorrect`). `Typed` strengthens `TypeOK` by `GuidesAreFiled`:
  a guide that exists has a category, which publishing copies.
* **Numbering** (`NumberingIsFaithful`). Inductive together with `Typed`.
  Publishing is the only step that adds a release, and `Publishable` says the
  draft is later than the last one published.
* **Readable guides** (`PublicGuidesStayReadable`, and with the next two
  `ReadersKeepAll`). The property speaks of whole chains of categories, the triggers
  look one level up or down. `Readable` is the inductive link: a public category's
  parent is public (`PublicUnderPublic`) and a public guide's release is filed under
  a public category. Then the public categories are a set closed under parents, and
  a chain, the least such set around its category, lies inside.
* **Parents cover children, active filing** (`ParentsAlwaysCover`,
  `ReadersKeepActiveCategories`). The trigger's look up and its look down cover
  each other's cases.
* **The tree** (`TreeAlwaysATree`, `TreeAlwaysSound`). Chains are walks of parent
  functions (`ChainIn`); `ReparentedChains` says what moving one category does to each
  chain, `ReparentedAcyclic` and `ReparentedDepth` that no cycle closes and that
  what is above the new parent plus what hangs below the moved category bounds
  every new chain.
* **References, items** (`ReferencesStayTrue`, `PublicItemsStayReadable`). The
  item trigger consults the reference table, so the second rests on the first.
* **Refinements.** `LibraryImplementsShelf`: under `ShelfInv` what a visitor reads
  of a guide is decided by its publication alone; then publishing is the shelf's
  `Release`, withdrawing, reinstating and moving are `Place`, and every other step,
  the edits of the tree and the catalog among them, stutters.
  `LibraryImplementsDrafts`: for each guide and each expectation a client may send, what
  the handler does with it is what `GuideDraft` does with it, and all else stutters;
  so what is proved of `Editor` is about the library behind it. `RequestsAreServed` is the
  step of it: a `Served` request is the abstract request with the same expectation.
* **Pages** (`RequestsMeanWhatWasRead`). `ScreensInv` says what a page still vouches for
  once the guide has gone on (`Vouched`): versions, releases and events only grow, at the
  page's version the draft still says what it said, at its release readers still have what
  they had, and at its revision nothing was decided since and the section is the same.
  `GoesOn` is what each step does to a guide, in the terms the page is about, so that one
  lemma carries every page through every step.
* **Outbox** (`OutboxIsTrue`).

### Editor and Authoring

For any contents, bounds on the counters, and any requests under way of the nine
kinds; for any documents that are well formed, any catalog and any limits.

* **The tab** (`EditorKept`). `EditorInv` says what is known of the screen
  (`ScreenInv`: its version was delivered, and what counts as saved is what the
  server had at it; its state is one the draft had), of a request sent (`AskedInv`,
  the same for what it took along), of an answer (`ReplyInv`, `AnswerInv`) and of a
  save under way (`SaveInv`). "Had" is stated of the draft alone: a version is not
  above the draft's, and at the draft's own it has the draft's text (`AtVersion`,
  `AtRevision`).
  `Onward` then carries all of it through any step: a version or revision grows, or
  what it stands for is unchanged. Each step is summarised once (`TabCalls`,
  `ScreenMoves`, `DialogMoves`), and the parts of the invariant follow from the
  summaries.
* **Its properties**: `WritingIsKept`, `SavesAreOfDelivered`, `ReleasesFollowTheScreen`.
* **The document** (`AuthoringKept`). The order has every step once (`IsOutline`,
  with lemmas about appending, inserting, swapping and removing); the marks and the
  kept texts agree with the document for each step of it (`Agree`); the canvas
  shows what was typed. `ViewKeeps` is the centre: a step that opens finds its mark
  where it left it. `TypedTextIsSaved` follows.
* **References** (`EditingBreaksNoReference`): if only the order is left to fix in
  what loads bring, that is so after every edit. The premise is a hypothesis of the
  theorem and no `ASSUME`, because the server does save other drafts;
  `OnlyOrderMeansClean` turns the list of issues into `Clean`, which is inductive
  with `AuthoringInv`.

### Roster

For any people, founders (at least one), invitations and requests.

* **Types** (`RosterTyped`). `Typed` adds `LinksMatch`: an acceptance's link is an
  invitation that was sent, to the person and with the role it noted. A commit
  would otherwise mark a row that is none.
* **Locks.** `Exclusive`: two requests never hold the roster lock, one row, or one
  invitation at once, and nobody writes a row another shares. `LocksAreGranted`
  shows each statement gets its lock only where `WaitsFor` finds no holder.
* **Authority** (`AuthorityAlwaysLasts`). The row is written by a commit only
  (`CommitWrites`), which `Exclusive` keeps from a row another request shares.
* **Members** (`MembersAlwaysInvited`). `HeldInvitations`: a locked invitation
  stays unaccepted and undeleted. `RosterRewrites`: a roster change at its commit
  writes a row that is there, so only an acceptance adds one.
* **A manager** (`SomeoneAlwaysManages`), under the premise
  `AcceptancesSpareManagers`. `ChecksHold`: what `check_last_manager` saw is still
  true at the commit, because other roster changes wait and acceptances, by the
  premise, only add managers. The premise holds with one invitation (`managing`);
  `last_manager` is what happens without it.

### ManagementPage

For any records, entries and questions, any page size and any number of changes.

* **Edits** (`EditsAlwaysReplaceWhatTheyShowed`). `CopiesInv`: everything the page
  holds of a record (rows, sheet, the sheet's answer, a form) is a copy, an earlier
  version or the same fields (`CopyOf`), because every write makes a later version or
  changes only the picture (`RowsFollow`). A form that is on the page is over a sheet
  at the version it was filled from (`FormOver`), which is what `NewDetail`, the key
  by id and version, is for; so the version that is sent is the form's own.
* **Lists** (`ListsBecomeCurrent`). `ListInv`: an answer on its way is to the question
  that stands and was read after the last change the page knows of, because whatever
  changes either asks again.
* **Added rows** (`AddedRowsStayShown`), for finitely many records whose parents are
  stored, as a foreign key has it. `PlacedInv`: what a record lies in is stored
  (`RowsInv`); the answer to an add form describes a row that nobody changed meanwhile
  (`SaysWhatIs`); an added row can be seen under the question that stands, the request
  under way seeks it and the settled list has it (`AddedInv`). `Path` is a recursive
  function, read by induction (`PathStays`, `PathSame`); `UnplacedRows` says that placing
  a row that can be seen unfolds nothing, so that dropping the placing hides nothing, and
  `PageIsThere` that the page the server picks for it exists.

### Families

For any guides, managers and number of levels (at least one).

* **Walks.** `Above` is a recursive function, and what it computes needs induction,
  which the library states over an operator. `EveryNumber` states it over a set: with
  a number outside, the sets `0 .. k` of numbers `k` outside would have a least, in the
  library's well-founded order of finite sets. From it follow that walks add up
  (`WalkOn`), stay over (`StaysOver`), and are the same where they avoid the guide that
  is filed (`WalkElsewhere`).
* **One link** (`CheckedLinkIsShallow`). The depth above the broader guide plus what
  hangs below the one filed under it, as the trigger counts them, bounds each walk that
  goes through the new link; that no walk goes round is because the broader guide is not
  below the other.
* **All of them** (`FamiliesStayTrees`). `LinksReady`: a link that is written but not
  committed would still leave families shallow. It is inductive because of `OneChecks`,
  the lock, by which only removals are committed meanwhile (`CommitsLeaveReady`), and
  a removal makes nothing deeper (`FewerIsShallow`).

### Credentials

For any accounts, tokens, sessions, passwords and requests. `CredentialsKept` is the
invariant: `LossesInv` (a request that waits to take an administrator away has read
of an account that is still there, and of several such requests at most one is about
an administrator, so the others it counted remain), `SetupInv` (while the default
login exists it is an administrator who can sign in), `LinksInv` (a link that is open
belongs to an account; a form opened with a link is about that account). From it
follow `SomebodyAlwaysAdministers`, `SetupEndsForGood`, `LinksStayCurrent` and the
action property `NobodyEverTakesOver`.

### RateLimit

For any addresses, accounts and limits, and finitely many requests under way
(`LimitsAlwaysHold`). The wrong answers of an address are those in its counter, those
their requests have still to charge, and those lost (`GuessesOf`); once the counter is
full nobody new gets past the reading, and with those who had they are at most all
requests. What an account has spent of the shared counter, with what it is about to
(`SpentOf`), is within what its own counter says, and one whole limit more while the
shared window has met another of its windows (`Share`). `Counted` is a recursive
function, read by induction; `MoveCounts` says what one request's move does to the
numbers of them at each place.

### RestoreFlow

For any workspaces and identities. The invariant says what each place a command can
stand at means: `SettingUpInv`, `ReceivingInv`, `ResumingInv`, `DiscardingInv`; whose
restore it is (`MineInv`); what the database holds at each checkpoint (`ContentInv`);
where the pictures are, and which directories are whole (`PlaceInv`). It is needed because a crash leaves only
database, file and pictures, and the next command must find in them what the last one
meant. `CheckpointsStayClose`, `ReadsAreSafe`, `PicturesAreComplete`, `AccessIsKnown` and
the refinement `RestoreKeepsItsPromise` follow.

### Deployment

For any builds that obey `ShipsAssumption`, and any attempts, secrets, pictures and
backups (`BackupAssumption`: runs of the two commands are different ones).
`DeploymentKept`: a session past the lock has it alone (`Locked`); its plan is what
its build ships after what is recorded (`Planned`); command and session differ only
by what a lost connection explains (`InStep`); a command that failed with nothing
counted applied nothing (`SaysTrue`); what ran is the beginning of one build's list
(`SchemaInv`), and the serving build knows all of it (`WebInv`); `PictureInv`,
`SecretInv`; and `BackupInv`, where a connected backup holds the lock until its dump
is written, so the schema is still its snapshot's (`Watches`). `SecretsStayWhole`,
`SchemaStaysOneBuilds`, `WebStaysMatched`, `UnchangedStaysTrue`,
`PicturesStayBehindRows` and `BackupsStayWhole` follow.

### What stays with TLC

* Liveness under fairness: `RequestsEnd`, `RetriesSettle`, `CommandsEnd`. This
  prover reasons about neither fairness nor `ENABLED`.
* The five violations.

## Plan

Every property of a passing run but the three of liveness is proved. Left: the reader's
library and search page, and the effects of the access policies.

## Not modelled

Row-level security and the runtime role (predicates without a protocol; the role
check and the policies on people are in `Roster`); rendering, design tokens and
focus; rich text and markdown as conversions; the reader's library; parsing of
settings and logging; the options of the deployment scripts and the pulling of
images; showcase and seed scripts, which are content.
