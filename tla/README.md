# plane-go: TLA+ models and proofs

plane-go is a Go server that speaks Plane's app API over PostgreSQL. This directory holds TLA+ models of the parts
of it in which order, overlap or failure matter, TLC runs that check them on small instances, and TLAPS proofs of
what holds for every size. Paths below are relative to `src/server/internal/`.

## The system

One process. `cmd/server/main.go` opens a connection pool, creates the background dispatcher, and serves requests,
each on a goroutine of its own. A handler is a straight line of SQL statements; each statement is its own
transaction (two handlers of `page` are the exception), most errors answer 500 or are dropped (`_ =`), and nothing
locks. So the unit of interleaving is the statement, and this is the main hazard of the code: what a handler has
read may be stale when it writes, and a handler that fails or is overlapped half way leaves its first statements
behind. The other concurrent part is the dispatcher, plain channels and goroutines.

| Component | State | Operations | What makes it correct | Module |
|---|---|---|---|---|
| dispatcher (`bg`) | two channels, workers, a `sync.Once`, a context | `Submit`, worker loop, `Shutdown` | jobs start at most once and in order, a panic takes no worker down, nothing runs after `Shutdown` returned, `Submit` never blocks, `Shutdown` ends | `Dispatcher`, `FireAndForget` |
| issue numbering (`issue`, `intake`, `issueextra`) | `issues.sequence_id`, `draft_issues` | three ways to create, delete, promote a draft | numbers dense, increasing in time; no draft lost | `IssueNumbers` |
| states and archiving (`state`, `issue/actions.go`) | `states` (default flag), `issues.state_id`, `archived_at` | seed, create, mark-default, delete; issue create, PATCH, delete, archive | one default state, never deleted; no issue in a deleted state; only finished issues archived | `Workflow` |
| intake | `intakes`, `intake_issues` | lazy creation; create, triage, delete of items | one inbox; accepted issues leave triage; nothing in limbo | `Intake` |
| relations (`issue/actions.go`) | two rows of `issue_relations` per relation | add a list, remove one | both sides agree | `Relations` |
| activity log, webhook delivery, recent visits | `issue_activities`, `webhook_logs`, `user_recent_visits` | jobs of the dispatcher | the history accounts for the fields; rows and events in an order that fits the PATCHes; events reach the subscribed hooks; the list is the latest visits | `Deliveries` |
| pages (`page`) | tree of pages, lock, access, archive | CRUD, lock, access, archive, destroy, duplicate (create and duplicate in a transaction) | every page reachable; a subtree archived together; locked pages stay; only owners change access | `Pages` |
| cycles, modules, their archive (`cycle`, `module`, `archive`) | dates, status, names, `cycle_issues`, `module_issues`, `archived_at`, favorites | CRUD, date-check, transfer, archive | cycles that were checked do not overlap; a transfer empties its cycle; only what is over is archived | `Timeboxes` |
| accounts (`auth`, `userextra`) | `users`, `sessions` | sign-up, -in, -out, change-password, deactivate | a deactivated user has no way in; a change of password rotates the session | `Accounts` |
| workspaces, projects, membership (`workspace`, `project`) | members, invitations, roles, switches | create, invite, accept, roles, PATCH, archive | seats only through an invitation or creation; what was created is whole; roles are as last asked | `Membership` (with `Accounts`) |
| assets (`asset`) | `assets` rows, files on the local disk | create, upload, confirm, delete, restore, duplicate | what is marked uploaded is served whole, what is deleted is not served | `Assets` |
| rows that are only created, changed and deleted (labels, states' names, views, webhooks, tokens, exports, themes, saved analytics, estimates, workspace names, profiles, view settings, drafts, issue dates, sub-issues, favorites, comments, links, reactions, subscribers) | a table each | CRUD, get-or-create, bulk dates, promotion | a PATCH changes its own fields alone; no duplicates; dates in order | `Catalog` on `Records` |
| the rest: analytics, search, user profiles, lists, lookups, stubs, wiring | none | reads | | not modelled, see `PROJECT.json` |

Interactions: `issue` and `project` submit jobs to the dispatcher (`Deliveries`, on the promise of `Dispatcher`);
`project.create` seeds the states (`Workflow` starts from every prefix of the seeding); the intake creates issues
with numbers (`IssueNumbers`) and moves them into the default state (`Intake`); PATCH of an issue writes back every
column it has read, which meets the state handlers (`Workflow`) and the triage (`Intake`). Every handler of a
workspace runs behind `auth.Require`, so `Membership` extends `Accounts`: the user in the context may be
deactivated, and a role taken away, while the handler runs. Archiving a cycle, a module or a page removes favorites
that other handlers add (`Timeboxes`, `Pages`). A draft's dates go into the issue it is promoted to (`Catalog`), its
number is `IssueNumbers`'.

## How the models are written

* An action is one SQL statement, or one atomic step of a goroutine (a select, a receive, a close). The variable
  `req` (`pc` in `IssueNumbers`) says which statement a request comes to next and holds its locals.
* A handler's reads that only validate its own input, and answer an error, are part of its `Begin` action: it is the
  last read that the rest of the handler relies on.
* A statement may fail: where the code drops the error the model goes on, where it answers, it returns.
* Variables called history are not in the program. They say which requests met, so that a property can state exactly
  what overlap may break.
* A definition with a suffix that no other definition uses, directly before the one it varies (`TakeNewest` before
  `Take`), is a mutant: the same operation with a plausible bug. `PROJECT.json` pairs each property with a mutant
  that breaks it, so no property holds by the shape of the model.
* The invariant named `...Inv` of a module is its type invariant together with the safety invariants that a reader
  wants to see at once; the parts have names of their own.
* `X.tla` is the component, `MCX.tla` adds the symmetry and constants of a run, `X.cfg` the run, and `X_proofs.tla`
  the theorems. Those of `Dispatcher` and `Deliveries`, what runs in the background, are together in
  `Background_proofs`; those of `IssueNumbers` and `Relations` in `Issues_proofs`; `Accounts` goes with
  `Membership`, `Assets` with `Catalog`. Definitions of modules that share a file of proofs have the component in
  their names (`DispatcherSpec`, `NumbersOK`). Where a product of unrelated handlers would be too large, `MCX` has a
  `theme`: each behaviour has the requests of one theme, and all themes are in one run. `Budget` bounds the requests
  that begin (in `spent`), never the steps they take.

## Modules, runs and what they show

### Dispatcher and FireAndForget (`bg/dispatcher.go`)

`Submit` is two selects, `SubmitCheck` and `SubmitSend`; the second has the send, the closed channel and the default
as disjuncts, and a send on a closed channel panics. A worker takes, runs, recovers, exits. `Shutdown` closes
`d.closed` (`CallShutdown`), then `d.jobs` (`CloseJobs`), waits for the workers or the grace period, cancels the
context. Jobs in `Awaiting` return only once that context is cancelled; nil jobs are refused. `FireAndForget` is
what callers rely on without channels or workers: accepted or refused, started at most once and in the order
accepted, bounded numbers running and waiting, nothing after the stop. It is what `Deliveries` builds on.

* `dispatcher` (5 jobs, one nil, one that waits for its context; 2 workers; buffer 2; 2 callers of `Shutdown`):
  `DispatcherInv` (types, `WorkersSurvive`), `StartedInOrder`, `ReturnedMeansDrained`, and `KeepsPromise`, the
  refinement of `FireAndForget`. Two workers and buffer 2 let jobs run, wait and be dropped at once; the second
  caller waits on the `once`.
* `dispatcher_liveness` (4 jobs, two that wait for their context, 2 workers): `SubmitReturns`, `AcceptedRuns`,
  `ShutdownCompletes`. With as many such jobs as workers the pool can be stuck for good until it is cancelled.
  Fairness: weak, for a request inside `Submit`, for a worker with something to receive, for a job that can return,
  for the goroutine inside `Shutdown` and for its timer. The Go scheduler and timers give that. Nothing obliges a
  handler to call `Submit`, nor anybody to call `Shutdown`.
* `dispatcher_submit_after_shutdown` (a finding): the comment says submits are ignored after `Shutdown`, but a
  `Submit` between its two selects while both channels are closed may panic on the closed channel.

### IssueNumbers (`issue`, `intake`, `issueextra` creating issues)

The number is `max + 1` read in one statement and used in the insert. Three routes share it and differ in what
follows and in what a failing statement does.

* `issue_numbers` (two creates, one intake item, one draft): `NumbersOK` (types), `NumbersDense`,
  `NumbersFollowTime`, `NoDraftLost`. Four overlapping creations on all routes; deletes and failures anywhere.

### Workflow (`state/handlers.go`, `issue/actions.go`, `issue/handlers.go`)

States with their default flag, issues with state and archive flag. Every read that a later statement relies on is a
step of its own: the default flag and the count of issues before a delete, the clear before the set, the state group
before the archive (`bulkArchive` checks all of its issues, then archives one after the other), the PATCH that
writes back what it has read. A state id in a request is only parsed: creations, PATCHes and mark-defaults name any
id of the project that ever was, and `Foreign` ones (the triage state's, another project's, none at all).
`doubtful` records the states and issues that two requests contend for at the same time, the states that are named
after their delete, and for how long that can matter.

* `workflow` (a default and a completed state, seeded in full, in part or not at all; 2 issues, or one and requests
  that name a foreign id; 2 requests at a time): `WorkflowInv` (types and `DefaultsBounded`), `IssuesHaveStates`,
  `GuardsHold` (the action properties `ArchivesOnlyDone` and `DefaultNeverDeleted`). Each says that the handlers
  keep their promise except for what is named. The guards on deletes and archives suffice for requests one after
  another and for all overlaps that do not touch the same state or issue; the exceptions are kinds of overlap a
  reader of the code can look up in `Contended`, and statements that fail. Two requests are enough for a race
  between two handlers, two issues for the bulk loop.

Not all of what a reader may expect holds. A PATCH between the count and the delete of `destroy` leaves an issue in
a deleted state; and without any overlap a creation or a PATCH puts an issue into a deleted state, or into one of
another project, by naming it. `IssuesHaveStates` says that there is no third way.

### Intake (`intake/handlers.go`)

Every handler first calls `ensureIntake`: find, else read the project's name, insert under the unique `(project_id,
name)`. Then it works on the `intake_issues` row and on the issue. Statuses -1, 0 and 2 are one value, since the
code treats them alike. `issue.update`, which may name any state, and `issue.destroy` run beside.

* `intake` (3 requests, one issue, a project name and the empty one that a failed read leaves): `IntakeInv` (types,
  `ItemsInOneInbox`, `TriageListed`), `AcceptedOutOfTriage`, `DeleteSparesAccepted`. Three requests: two that race
  for the intake and a third that uses it, or two triages and a delete of one item. The exceptions are named: a
  rename or failed read in between (`seen`), an issue that a PATCH has put back into triage, for as long as it is
  there (`lost`), a failing statement (`fault`), a status that changes under a delete (`crossed`).

The PATCH is a way around the inbox: `intake-state` hands out the triage state's id, which `issue.update` takes as
any other, so an accepted issue, or one whose item is deleted, can be put into triage without an overlap. The
properties say that nothing else does it. Issues that `issue.create` makes with that id are never in the inbox and
not modelled here.

### Relations (`issue/actions.go`)

A relation is a row on either issue, written by two statements with dropped errors. `Link(e)` is the set of rows of
a relation, `last` the kind of request that finished on it last, `doubtful` the relations on which an add met a
remove, or a statement failed.

* `relations` (2 issues, a pair of inverse types and one without inverse, 2 requests; at most two rows at the
  start): `LinkedIffAdded`. Two requests cover every pair on the same relation from either side; an issue may be
  related to itself and be listed twice over by two requests.

### Deliveries (`issue/handlers.go`, `activity`, `webhookdelivery`, `recentvisit`)

Composes the requests that submit jobs, the bodies of these jobs and the abstract runner: `Pool` is an instance of
`FireAndForget`, so that `KeepsPromise` carries what is checked here over to the channels and goroutines of
`Dispatcher`. The runner may refuse a job at any time, which covers a full queue and every phase of a shutdown. A
PATCH reads the issue (`BeginPatch`), writes all fields (`WriteIssue`) and submits one row per changed field and one
webhook event (`SubmitNext`; `todo` is the set of what is left, `Turn` the order). The jobs are `Record`, one insert
that may fail; `ReadTargets`, `Post`, `LogPost`, with hooks that come and go meanwhile; `Upsert` and `Trim`. `log`
is a set: a row's place in the history is the time of its insert, and the properties speak of which rows are there
while others are not.

* `deliveries` (2 PATCHes with two fields between them, 2 hooks, 3 visits of 3 projects, list of 1 instead of 20, 2
  workers, queue of 2): `DeliveriesInv` (types, `LatestVisitsKept`), `HistoryExplainsIssue`, `InOrder`,
  `EventsReachSubscribers`. One issue, two of its three fields, which the code treats alike. `MCDeliveries` lets
  arrive two PATCHes, or one and a visit, or three visits, and a second hook only with a single PATCH: events share
  nothing but the runner. The exceptions are part of the properties: a PATCH that wrote over a value it had not read
  leaves a change without a row (`Accounted`), a row can be lost after the 204, jobs that run at once may cross. An
  issue deleted between the two statements of a PATCH is left out, as is the row and event of an issue's creation.

### Timeboxes (`cycle`, `module`, `archive`)

Cycles and modules differ in what an update checks and share the rest. Each handler reads its row (`GetCycle` and
`GetModule` pass over archived ones, the archive handlers do not) and writes it in a later statement that does not
look again. `DateCheck` is a request of its own: it compares whole days, and the cycle is created by another
request, or without any check. `TransferCycleIssues` is one statement that fails as a whole when an issue is in both
cycles, and answers "Success" all the same. Archiving is a second statement, removing the favorites a third.

* `timeboxes` (2 cycles, 2 modules with names that differ in case, 2 issues, 2 users, 2 requests; two moments of one
  day for dates, a clock from 0 to 2; 5 rows and requests together): `TimeboxesInv` (types, names of modules
  distinct regardless of case, favorites of archived boxes gone), `ArchivedAreOver`, `TransferDrains`,
  `OverlapsExplained`. A behaviour has cycles or modules, and issues or the clock, because they share no row.
  Exceptions: `doubtful` (an update met an archive), `unsure` (a box written without or past its check), `late` (a
  favorite that no archive request will remove any more).

### Pages (`page`)

The tree is `parent`; the recursive queries of archive and unarchive are `Descendants`. `create` and `duplicate` are
transactions and so one action each after their reads; the others are statements in order, with the errors of
archive, unarchive and destroy dropped. The id of a parent is only parsed, and the foreign key asks for no more than
a row (`Nameable`), so a creation or a PATCH may put a page below a deleted page, below one of another project, and
a PATCH below itself; the `union all` of the recursive query then never ends, which is the step `"runaway"` of a
request that nothing brings back.

* `pages` (3 pages of a project and one of another, 2 users, 2 requests of 3 in all): `PagesInv` (types,
  `SubtreesArchived`, `PagesReachable`: found from a root that its own project lists), `LocksHold`, `AccessByOwner`.
  Three themes: what moves pages, with a chain of three, enough for a grandchild and for a ring, at the start
  visible or with its upper two archived; the same with a page of another project; and who may write a page. A page
  may be out of place only when a request was stale on it, a statement failed, or a creation or PATCH named such a
  parent (all in `doubtful`, through `Explain`); the deletes, archives, unarchives and copies never put one there by
  themselves. `LocksHold` and `AccessByOwner` allow for the PATCH that was read before the lock or the change of
  access. A copy is out of place where its original is: a destroy that could not free the children, an unarchive
  that overlaps it and then a duplicate leave two visible pages below a deleted one. No run reached this until the
  attempt to prove `PagesReachable` pointed to it, hence the archived start and the third part of `Explain` in
  `Insert`.

### Accounts and Membership (`auth`, `userextra`, `workspace`, `project`)

`Accounts` is the life of a user row and its sessions, with sessions that expire; `Membership` extends it with the
handlers behind `Require`. Creating a workspace is two inserts, a project two and the seeding, accepting an
invitation a read and two writes; nothing is in a transaction. The eight switches of a project stand for everything
its PATCH writes back.

* `membership` (2 users, 2 passwords, 4 sessions, 2 workspaces, invitations, projects and switches; 2 requests and 2
  calls): `MembershipInv` (types, `CreatedWhole`), `InvitesMatchSeats`, `AsLastAsked`, `DeactivatedStaysOut`,
  `SessionsCounted`, and `SeatsStay` as an action property. Three themes, with 3 or 4 requests in all: accounts from
  nothing; workspaces and invitations; projects of a workspace that is there. Exceptions: a statement that failed or
  an invitation accepted before its workspace's owner had a seat (`botched`), a call underway while the account is
  deactivated (`overlap`), a PATCH of something stale (`doubtful`), a password changed in a session that was gone
  (`unrotated`).

### Records, Catalog and Assets (single rows, and `asset`)

`Records` holds the statements these handlers share: `Create`, `Insert`, `Patch` (the read), `Store` (the write, of
all columns the handler knows), `Merge` and `Remove` (single statements), `MergeUnnoticed` and `RemoveUnnoticed`
(the same by a handler that drops the error and answers success either way). Each row has a key that its unique
index compares and two further columns; what they stand for is said per table. `Catalog` is, per table, what a
handler looks up first, which columns it writes back and whether it minds that the row is gone meanwhile. `asked` is
each field as last asked for, `doubtful` the fields that were written back over a newer value, or asked for in a
statement that failed without a word. A failure that the answer tells of is `Refused`, and asks for nothing.
`Assets` is independent of them: rows and files, which uploads, copies and deletions write one after the other, with
the process ending at any step (`ServerStops`).

* `catalog` (3 rows, 3 keys of which two differ in case only, 2 values, 2 requests; 2 assets, 2 jobs): `CatalogOK`
  (types, `KeysDistinct`, `DatesInOrder`), `AsLastAsked`, `OverlapsKeep`, `AssetsInv` (types, `UploadsServed`).
  `OverlapsKeep` speaks of steps: a field that no PATCH writes back changes to what was last asked for it and to
  nothing else, so that a failing delete leaves its row but no later write revives a deleted one. A theme per table,
  and one for the assets, 3 requests in all (4 for estimates and assets). Two rows and a free one let a PATCH, a
  rename and an insert meet; two PATCHes of a row and a third request that is a single statement cover every order
  of a read, a foreign write and a write.

## Proofs

All theorems are for every value of the constants under the modules' `ASSUME`s, which TLC evaluates in the runs.
Each proves an inductive invariant `IInv`, one lemma per action or group of actions, then the property. TLC has
checked each `IInv` on its run before it was proved.

* `Background_proofs`, for `Dispatcher`: `DispatcherTypes`, `PoolStaysSound` (`DispatcherInv`), `StartsInOrder`,
  `WorkersOutliveJobs`, `ShutdownDrains`. The order of the queue alone is not inductive: that an enqueued job is new
  to `accepted` needs `AcceptedIsPast`, that drained means nothing is running needs `Located` (a job marked as
  running sits at a worker) and `ReturnIsLate`. `ImplementsFireAndForget` (`KeepsPromise`) is a step simulation:
  every step of the pool is a step of `FireAndForget` or stutters. It needs `InPlace`, that a job has the fate of
  the place it is in and a worker of its own; that a worker taking a job leaves room in the promise's bound is a
  count of the busy workers.
* `Background_proofs`, for `Deliveries` (with the queue of `FireAndForget`): `VisitsAreKept` (`DeliveriesInv`),
  `HistoryIsExplained`, `ArrivesInOrder`, `EventsArrive`. `Balanced` counts, per field and value, the PATCHes that
  put the value in and those that took it out: the two differ by what was there first and what is there now, however
  the writes overlap. `OrderOK` says that of two PATCHes of which one was answered before the other began, no job of
  the second stands before one of the first in the queue, nor has started while one of the first waits. `EventOK`
  bounds the hooks an event still has to visit; for the visits, `Upsert` and `Trim` are lemmas on sequences without
  repetition.
* `Issues_proofs`, for `IssueNumbers`: `NumbersTypes`, `NoGaps`, `FollowsTime`, `DraftsSurvive` (`NoDraftLost`). The
  invariant says that the numbers in use are exactly `1..top` and that no request holds one above `top + 1`; an
  insert then either repeats a number or extends the range by one. A draft is consumed by a request whose issue is
  already there.
* `Issues_proofs`, for `Relations`: `RelationsTypes`, `LinkedAsAsked`. The link of a row is an equivalence class
  (`LinksDisjoint`, from the table of inverses). `SameKind` says that the requests on a relation that is not
  doubtful all add or all remove, `HalfDone` that one past its first statement still finds the row it wrote; so the
  second statement leaves both rows as the request wants them.
* `Intake_proofs`: `InboxStaysWhole` (`IntakeInv`), `AcceptedLeaveTriage`, `AcceptedAreSpared` (the action
  property). An issue that is not yet as it should be has a request at work on it that will set it right: one on its
  way to move it (`Moving`), one that still has to insert its row in the inbox (`Making`). Such a request stays on
  its way, because nobody else serves it; a second creation of the same issue is excluded (`OneCreator`), and an
  issue about to be deleted was found not accepted and still is not, unless its status was changed in between
  (`Spared`).
* `Pages_proofs`: `PagesStayReachable` (`PagesInv`), `LocksAreKept`, `OwnersDecide` (the action property). `Fresh`
  says what a request that no other has met knows of its page, statement by statement; every page out of place is
  doubtful (`Explained`), be it by its own request's choice of a parent. `Descendants` is defined by recursion over
  the depth. Its induction is done by minimal counterexample, on the well-founded ordering of finite sets by
  inclusion: the generations exist, and their last is the least set with the page that is closed under children. Of
  the pages above one that could not be reached, the one with the most descendants would itself have none above that
  is not below it, so it would be below itself, which is one of the exceptions.
* `Workflow_proofs`: `DefaultsAreBounded`, `StatesAreKept`, `GuardsAreHeld` (the two action properties). What is
  doubtful is known only when requests contend, so the invariant says of each request what its earlier statements
  have made sure of: `Cleared` (no other default before the set), `Spared` and `Emptied` (not the default, no live
  issue before the delete), `Carried` (the state about to be written exists), `Checked` (what is about to be
  archived was found archivable), each unless it is doubtful.
* `Membership_proofs` (with `Accounts`): `TypeCorrect`, `Whole` (`MembershipInv`), `SeatsMatch`, `SeatsAreKept`,
  `LastAskedHolds`, `StaysOut`, `SessionsBounded`. That a deactivated account stays out needs that nobody is on the
  way to a session or password of it (`LeftAlone`, down to the statement at which each call is); the bound on the
  sessions counts those that calls are about to renew (`RoomFor`, by cardinalities of finite sets). A creation
  underway stands in for what is not there yet (`AllWhole`), and is the only one (`OneCreator`); a PATCH that no
  write has met still holds the row as it is (`Fresh`).
* `Timeboxes_proofs`: `NamesAndFavorites` (`TimeboxesInv`), `OnlyOverIsArchived`, `TransfersDrain`,
  `OverlapsAreExplained`. The invariant carries each check over to the write that relies on it: `NameFree` and
  `DaysFree` (a request that no write has met since its look-up has a free name, free days), `OpenOver` and
  `WritersDoubted` for the archive, `DrainsOK` for the transfer.
* `Catalog_proofs`: for `Catalog`, `NamesAndDates` (`CatalogOK`), `FieldsAreAsAsked`, `SafeFromOverlaps`; for
  `Assets`, `UploadsAreServed`. A request between its read and its write is going to write, of each field it was not
  asked for, the value that is there or one that is on record as old (`Fresh`, in `ReqOK`); names and dates it has
  checked still pass unless its row is in `slipped`. One set of lemmas on the statements of `Records` serves all
  tables: each shows that a statement keeps the invariant and is a step that `OverlapsKeep` allows (`SafeStep`),
  with `UnnoticedKeeps` for one that fails and is not noticed. In `Assets` a job works alone on an asset that is not
  excused (`Alone`), and its step says what the file holds (`JobOK`).

The assumptions are on names only: values that stand for "none" are not among the real ones (`RecordSets`,
`NoneIsNoKind`, `NoAssetIsNone`, `BoxSets`, `MembershipSets`, `AccountSets`, `PageSets`), the jobs of a PATCH have
different names (`JobsApart`), the table of inverse relations is one, there is some value, a worker, a place in the
list of visits. `Keys` of sessions are finite in number, so that sessions can be counted, and so are pages, since
there are no more of them than were ever created.

Every safety invariant and action property of the runs is the statement of a theorem. Only model-checked is
liveness (`SubmitReturns`, `AcceptedRuns`, `ShutdownCompletes`), which is out of the prover's reach, as it rests on
fairness and so on `ENABLED`. What a run refutes (`SubmitsIgnored`) has no theorem.

## Disagreements between code and words

The finding in `PROJECT.json`, with its run: the panic of a late `Submit`. Disagreements that the models contain and
the properties allow for by name: two overlapping creations share an issue number, so that the lookup by number is
ambiguous; two overlapping promotions of a draft make two issues; a PATCH between count and delete leaves an issue
in a deleted state. Seen while reading: `main` defers `Shutdown` behind `log.Fatal`, which skips deferred calls, so
the drain `STATUS.md` describes never happens; `webhook/handlers.go:384` says nothing writes `webhook_logs`, but
`webhookdelivery` does; the header of `archive/handlers.go` says that list and retrieve do not yet exclude archived
rows, but `GetCycle` and `ListCycles` do.

## Plan

1. The models: done, for every component that changes state.
2. The proofs: done, for every property but liveness.
3. Open: abstract specifications for more components than the dispatcher, such as an inbox whose items are filed and
   triaged in one step each, with `Intake` shown to implement it for requests that do not overlap.

## Not modelled

Serializers, filters, ordering and pagination of lists; analytics, search, user profiles and issue lookups (read
only); stubs and the instance endpoints (constant answers); configuration and wiring; permissions, where they are
only a read of a role before the handler begins and no property speaks of them; the checks of URLs, file types and
sizes; generated structs and scans. `PROJECT.json` gives the reason for each.

The database is taken to execute each statement atomically, and ids drawn at random never collide. The process ends
inside `Assets` only, where a file outlives it; elsewhere an end of the process is a request that takes no further
step, which every safety property covers. Sub-issues may form a ring (`issue/actions.go:118`); no handler follows
the tree for more than one level, so no property is at stake.
