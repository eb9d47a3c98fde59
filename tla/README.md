# Verification of IPCheckr

IPCheckr is a classroom application: teachers hand out IP addressing exercises
(subnetting, "SUBNET", and network identification, "IDNET"), every student gets
an assignment of their own, works on it in an *attempt* that is locked when the
browser loses focus, and submits it once. Beside that it starts a GNS3 network
simulator for a user, and its web client has a build that runs without a
server, the demo. This directory holds TLA+ models of the parts where the order
of events matters, the TLC configurations that check them, and TLAPS proofs.

```
tlc -workers 2 -config AttemptOverlap.cfg MCAttemptApi.tla      # any run
tlapm AttemptApi_proofs.tla                                     # any *_proofs module
```

`PROJECT.json` lists the components, the runs, for every definition the source
lines it models, a mutation of the model that makes each property fail, the
hazards, the findings and the theorems.

## 1. The system

| Component | State | Operations | Interaction |
|---|---|---|---|
| Assignment tables (`ApiDbContext`, `Models/`) | groups, assignments, answer keys, attempts, submit rows | queries, atomic saves, cascading deletes | shared by all handlers; no transactions, no concurrency tokens |
| Attempt endpoints (`AssignmentSubmitControllers/`, `ReopenStudentAssignmentAttemptController`) | attempts, submit rows, `CompletedAt` of the group | create-or-get, get-current, save draft, lock, reopen (by attempt, by assignment), submit | called by the student's page and the teacher's page; publish an event after the save |
| Group endpoints (`AssignmentGroupControllers/`) | groups and assignments | create, edit, delete, archive, unarchive, list, details | two-step creation; list and details complete a group as a side effect |
| Status and window (`AssignmentEvaluationUtils`) | none | `ResolveStatus`, local-time conversion, scoring | used by both groups of endpoints |
| Generators and answer keys (`CreateAssignmentGroup.cs`) | none | IP plans, address blocks, answer keys | called by create and edit |
| GNS3 sessions (`Gns3Controllers/`, `Gns3SessionCleanupService`, `GNS3/launcher`) | session rows; units, environment files and ports on the host | start, stop, extend, force-stop, cleanup every 30 s | TCP commands to the launcher, with retries |
| Student page (`StudentAssignmentSubmission.tsx`) | draft, optimistic lock, save queue, cached attempt | autosave, lock on every way out, submit, poll, events | HTTP calls that race each other |
| Attempt events (`Services/Realtime`, `Hubs`) | connections | publish | best effort, after the save |
| Users and classes (`UserControllers/`, `ClassControllers/`, class pages) | users, members and teachers of classes | create, edit, delete; a class is edited by sending its whole new list | two pages send lists they were shown |
| Caching of the web client (`api/`, pages, `ReactQueryProvider`) | cached answers by key | fetch, poll, invalidate, prefetch; forms filled from an answer | every page shows what another writes |
| Session and routes of the web client (`AuthContext`, `axiosInstance`, `router/`, `components/routing/`) | token, shown user, location, expiry timer | login, validate, logout, redirect | answers arrive for earlier tokens |
| Demo backend (`demo/`) | one record in IndexedDB | a handler for each endpoint | all tabs share the record |
| Templates, settings | their tables | create, edit, delete | single rows |
| Authentication and LDAP | signing key, tokens | login, validate | decide who may call what |
| Dashboards, log stream | log subscribers | read, fan out | read only |
| Updater | version of the images | check, update | host script |

What is hard in it: a handler of the API is a sequence of awaited queries that
ends in one or two saves, with nothing between the handlers to order them. A
decision is made on a row as it was loaded and written, column by column, some
awaits later; "is there one already?" is answered long before the row is
inserted; the end of a group is decided on counts; the API may stop between two
saves. Across the network to the launcher the same holds for seconds, and the
call may break on the way there or back. In the browser, answers come back in
another order than they were asked for, a page acts on what it shows rather
than on what is stored, and events may be lost.

What makes the components correct:

* attempts: one per assignment, a life of *active, locked, active, ...,
  submitted* in which drafts are saved only while active and submitted is
  final; the submitted mark and the submit row agree;
* submissions: one per assignment, and a group ends early exactly when every
  student has submitted;
* groups: dates in order, one assignment per student, nothing left of removed
  assignments;
* GNS3: rows and instances agree, a user is led to the own instance, what is
  over is ended;
* student page: it is left only locked, and at rest shows what is stored, with
  the last draft saved;
* classes: a removal takes out the chosen students and nobody else;
* client: a page at rest shows what its user has been told is done, and the
  user of the token it sends;
* demo: its record stays consistent, and what is done stays done.

Where the code has a gap, a property states the rule together with the
circumstances under which the code breaks it ("unless the row was stale",
"unless handlers met"). Those exceptions are the catalogue of the gaps: each is
needed (without it TLC finds the behaviour), and outside of them the rule holds.

## 2. Modules

| Module | Models |
|---|---|
| `ClassroomTables` | the rows of one group, the shared queries, the clock, what a save leaves in a column (`Write`) |
| `AttemptApi` | the attempt endpoints: requests in flight (`reqs`), one action per awaited query or save |
| `AttemptLifecycle` | abstract: the life of an attempt as its student and teacher are promised it |
| `AttemptRefinement` | the mapping from `AttemptApi` to `AttemptLifecycle`, and the properties stated over it |
| `GroupApi` | the group endpoints (`jobs`) composed with `AttemptApi` on the same tables |
| `Gns3Sessions` | session rows, the launcher's connections, units and environment files |
| `StudentPage` | the page of a student and its cached attempt, against the stored attempt |
| `Endpoints` | the facts each call of the client writes or shows, by its transfer objects |
| `ClientQueries` | every query of the pages (key, polls, what it shows) and every mutation (what it writes, invalidates and sends back) |
| `ClientCache` | the query cache of a browser: one query against a write and a later edit |
| `ClassRosters` | two class pages that remove and add students, and `EditClass`, `AddUserToClasses` |
| `DemoBackend` | the handlers of the demo and their one record |
| `ClientSession` | token, shown user and location of one tab |
| `MCAttemptApi`, `MCGroupApi`, `MCServerParts`, `MCStudentPage`, `MCClientCache`, `MCClassRosters`, `MCBrowser` | the instances TLC checks |
| `AttemptApi_proofs` (with `AttemptRefinement`), `GroupApi_proofs`, `StudentPage_proofs`, `ClientCache_proofs`, `ClassRosters_proofs`, `DemoBackend_proofs`, `ClientSession_proofs`, `Gns3Sessions_proofs` | theorems |

### The data layer

`ClassroomTables` states the two facts that shape everything else. (1) No
handler opens a transaction and no entity has a concurrency token: an awaited
query reads one committed state, `SaveChangesAsync` commits one write, anything
may happen in between. (2) Entity Framework writes the columns whose value
differs from the loaded one: `Write(stored, loaded, assigned)` is `stored` when
the handler assigned what it had loaded. An update or delete of a row that is
gone, or an insert that violates a foreign key, makes the whole save throw.

SUBNET and IDNET groups have tables of their own and duplicated handlers, and
every query on attempts filters by the type, so one table stands for either.
Ids are never reused; removed assignments leave their attempts behind (attempts
have no foreign key to them) while submit rows cascade.

### Attempt endpoints

A request slot holds what its handler has read so far: the assignment, the
attempt (`att`, `row`), the answer of `HasSubmit`, the ids and the deadline it
loaded. `pc` names the await it runs next. The first action of a handler is its
first query and the checks that follow it (`CreateOrGetAttempt`,
`GetCurrentAttempt`, `SaveDraft`, `LockAttempt`, `ReopenAttempt`,
`ReopenStudentAttempt`, `Submit`); every later action is one more await. A
request refused at its first query changes nothing and is not represented.
`Fail` is an await that throws or the API stopping: whatever was not saved is
lost. The saves are operators on rows (`SavedRow`, `LockedRow`, `ReopenedRow`,
`RevivedRow`, `SubmittedRow`).

Abstracted: who calls (the owner or a teacher of the class: others are refused
before anything is written), the lock token (a GUID only the owner is told),
`AttemptNumber`, activity times, lock reason and the published events, none of
which steers a handler. Times are ticks; `StartedAt` is a counter because only
its order is used.

### Group endpoints

A job holds the group row as it was `loaded` and as the handler `assigned` it;
`SavedGroup` writes the difference. Creation is two saves (`CreateGroupSave`,
`CreateAssignmentsSave`): a failure between them leaves a group without
assignments, and in between the group can be edited. An edit compares the
dates of the row in its hands, reads the assignments, and saves dates and
roster at once. Listing archives overdue groups, then reads assignments and
submits and completes the group when as many distinct students have submitted
as there are assignments; details do the latter. The model follows one group,
`owner` gives the student of every assignment id.

### GNS3 sessions

`works` holds what each caller, and the cleanup service (`Cleaner`), has read
and decided; `conns` the connections the launcher handles, each a shell script
of several commands; `units` the state of a user's systemd unit and the port
its server was started with; `envs` the port in its environment file. A handler
decides on rows, calls the launcher, and saves afterwards; a call whose
connection breaks is sent again, up to `Retries` times, while an empty answer is
a failure at once. The answer is read without a timeout, so a launcher host
that vanishes leaves the call hanging (`Hung`). `start` allocates a port nobody
listens on *yet*: two connections may choose the same, one unit then fails and
is restarted by systemd for ever. Units do not start with the host. A client
that leaves after the launch leaves an instance without a row, which neither a
stop (it returns early without a RUNNING row) nor the cleanup looks for.

`trust` is a history variable, per user: *astray* once handlers of the user met,
a failure concerned the user, or two servers were given one port; *mending*
when an undisturbed stop begins; *agrees* again when it has saved and no RUNNING
row is left. A fault is any of: a connection that breaks before or after the
script, the client leaving, a restart of the API or of the host.

### Student page

The page keeps the form, an optimistic lock and one place in a save queue; the
cached attempt is filled by polls, event refetches, mounts and the answers of
its own mutations. Server handlers are two steps here, read and save. What the
model shows the page to do: the answer of a lock can be overwritten by an older
get; a save refused by a lock is swallowed; an event that arrives during the
first load is lost; a submit sent before the attempt is known carries no attempt
id and skips the lock test; the automatic submit at the deadline may overlap
one by hand and is never retried; a reconnected hub does not subscribe again. A
navigation away from an editable attempt sends a lock and waits for its answer,
but once the optimistic lock is rendered the blocker lets a second navigation
through (`Held`). The answer of a submit navigates too, past the blocker of its
own visit; if the page has been opened again meanwhile, the blocker of the new
visit knows nothing of that submit and sends its lock first (`SubmitAnswerHeld`).
A page that is left while the save timer runs drops the queued draft (`Orphan`).
`behind` is a history variable: the attempt has changed with no event on its way,
or a call or invalidation was lost, and nothing has been read since. `missed` is
another: a new status was replaced by the one rendered last before it was
rendered itself, so that no effect saw it change. `overruled` a third: the cache
was last given the submitted attempt that a lock had found, after another lock had
undone it. Timers have no clock: one that is set may fire.

Three properties carry an exception. `QuietPageKnows`: a
lock decided before a submit and saved after it undoes the submitted status, and
with `overruled` the page goes on showing it; the submit row is there.
`SettledDraftSaved` is about behaviours in which no save is lost, because one that
fails is not repeated; any other call may be. `OptimismEnds`: with `missed`, the form stays locked over an active
attempt.

### Client caching

`Endpoints` reduces the transfer objects of `dtos/api.ts` to the sets of facts
their fields are about, so that an operation *has to do* with a query exactly
when one shows what the other writes. `ClientQueries` lists the `useQuery` and
`useMutation` calls by page. `ClientCache` runs react-query's rules (an answer
ages after a minute, a mount fetches what is missing, aged or invalid,
invalidation fetches only what is mounted and cancels a fetch only if there is
an older answer, one retry unless the query says `retry: false`) for one query, one write of the same user, and
possibly a later edit that sends a form back. The pairs that the client leaves
unrefreshed are named in the module (`Unrefreshed`, `NotShared`): among them
the template editor and the list of templates, the deletion of a class and the
lists of classes, settings and the navigation bar, sessions started or stopped
by a teacher and their history. `overtaken` marks a first load that an
invalidation let go on although it had read before the write.

### Class rosters

A removal sends the list of those who stay, taken from what the page shows: the
cached answer for the class and the search, or, while that loads, the answer
shown before (`placeholderData`). The server loads the members and saves the
difference, all or nothing: if a row to delete is gone, or one to insert is there
already, nothing is saved (`Fits`). The reasons for which a removal may take out,
or bring back, others than the chosen are operators of the module: a search, a
borrowed list, or a change since the list was read.

### Browser

`DemoBackend`: a handler reads the whole record, computes, and writes the whole
record back; two handlers, in one page (bulk deletes of both types run in
parallel) or in two tabs, undo each other. Reading is writing too: opening a tab
and listing groups write the record. The dashboard of students does not look at
the token: it counts for the first demo user of the role (`DashboardStudent`), so
that the second demo student is shown the first one's numbers there, and the
own ones everywhere else. Nothing in the repository says otherwise. `made` bounds
the calls; a plan names the calls that may be made.

`ClientSession`: the token lies in the storage of the tab, the user in the state
of React; nothing compares them. `late` says that what is shown came with an
answer for a token other than the one of the moment, `strayed` that such an
answer has come since the document was loaded. React may batch updates; a click
is rendered at once. A refusal (401) of any earlier call removes the token of
the moment and loads `/login`.

## 3. Runs

Every bound is a constant of a `.cfg` file or a named scenario of an `MC`
module. Checking for deadlock is off everywhere because these systems do come
to rest: the window is over, all handlers have returned, the user leaves it at
that. Symmetry is used only where no liveness is checked.

| Run | Properties | Shows |
|---|---|---|
| `attempt_overlap` | `TypeOK`, `SubmittedMeansRow`, `ReviveIsStale`, `AttemptsBoundedByOverlap`, `LifecycleUnlessStale` | all attempt endpoints, two requests at a time, across the deadline: every step of an attempt outside its lifecycle is the save of a request whose row is stale |
| `serial_lifecycle` | `Lifecycle` | with one request at a time all endpoints, failures included, implement `AttemptLifecycle` (`Lifecycle == Life!Spec`) |
| `completion` | `CompletedMeansAllSubmitted`, `SubmitsBoundedByOverlap`, `LastSubmitterCloses` | three students: an early end leaves no student behind (unless somebody submitted twice), and without failures some last submitter closes the group |
| `roster_overlap` | `GroupTypeOK`, `SubmitsMatchAttempts`, `RosterUnlessStale`, `EarlyEndUnlessStale` | roster edits, deletes and listings race each other and submits: no orphaned or missing rows; a second assignment for a student, or an early end that leaves somebody behind, comes from a roster read before it changed |
| `listing_repairs` | `ListingRepairs` | when the last submitter dies between its two saves, a listing completes the group unless it is archived, and so again when it is brought back |
| `server_parts` | `WindowUnlessStale`; `Gns3TypeOK`, `AgreeUnlessOverlap`, `OwnInstance`, `ExpiredEnd` | only a stale save puts StartDate after Deadline; rows and instances agree, nobody is led to another's instance, and what is over is ended, but for the named exceptions |
| `page_races` | `TypeOK`, `QuietPageKnows`, `SettledDraftSaved`, `OptimismEnds`, `LeavesLocked`, `ReopenedReachesPage` | the student page at rest shows what is stored with the last draft saved, is left only locked, and learns of a reopening |
| `client_cache` | `TypeOK`, `OwnWriteShown`, `OwnWriteKept`, `PolledShown` | for every query and every mutation that writes what it shows: a page at rest shows what its user was told is done, an edit does not undo it, a polled page shows what others did |
| `class_rosters` | `TypeOK`, `RestShowsOwnChanges`, `OnlyChosenLeave` | removals and additions on two pages, other users beside |
| `browser` | `TypeOK`, `Consistent`, `ViewsAgree`, `OwnChangesUnlessOverlap`; `SessionTypeOK`, `RestShowsTokenUser`, `Lands`, `ComesToRest` | the demo's record stays consistent though changes are lost; a tab comes to rest showing the user of its token |
| `submitted_reopened` | `SubmittedNotReopened` | violated, see below |
| `search_removal` | `RemovesOnlyTheChosen` | violated, see below |

Two runs end in a violation; each is a disagreement between the code and a text
in it (`findings` of `PROJECT.json`):

| Run | The code | The statement |
|---|---|---|
| `submitted_reopened` | a reopen whose row is stale makes a submitted attempt active | "Submitted attempts cannot be reopened." (`ReopenAssignmentAttemptController.cs:30`) |
| `search_removal` | removing one student while a search is typed removes everybody whom the search does not match | "You are about to remove this student from the class." (`i18n.ts:1558`) |

### Bounds

* Attempts: two requests (and three students where counts decide). A decision is
  made on loaded rows and undone by one other save, so two slots show every
  race of the code; the theorems on `AttemptApi` lift the number of requests.
  `MaxIncidents` and `MaxReopens` bound locks and reopens, `MaxTime` the ticks
  around the deadline. Answers matter only up to equality.
* Groups: two jobs, two assignments, and one request beside them in
  `roster_overlap`, whose jobs may fail at any await; one job and two requests
  in `listing_repairs`.
* `server_parts`: in each behaviour only one part moves, so that the parts add
  up instead of multiplying. *group*: two jobs of any kind. *meeting*: two
  callers, two users, no faults, no clock. *failing*: one caller and the
  cleanup, one user, one fault. *expiring*: start, extend and cleanup with a
  clock of two ticks. Two ports, two sessions, one retry. Larger instances
  (two users, two callers and a fault; one user and two faults) were
  explored once and showed nothing new.
* `page_races`: nine scenarios (drafting, leaving, returning, the deadline, a
  submit while departing, a submit answered on the next visit, a dropped hub
  connection, lost calls, typing while gets and locks are lost), each with what
  it needs; two contents of the form, one reopening, two openings of the page.
  `leaves` bounds the visits that end in a navigation of the student; it is one
  except when the submit is answered on the next visit (`Resuming`), where `hasty`
  keeps the scenario to that: the student submits, and leaves the first time,
  only before the first page shows the attempt.
* `client_cache`: all pairs of a query and a mutation that writes what it shows,
  one later edit, one failed fetch, which is tried again unless the query says
  `retry: false`.
* `class_rosters`: two students, two classes, two calls, up to two changes by
  other users, in four scenarios.
* `browser`: the demo in five plans with two calls at a time, four or five in
  all; the session with a teacher and a student, two logins, two moves, six
  typed locations.

### Fairness

* `AttemptApi`, `GroupApi`: weak fairness of `Proceed(r)`: Kestrel runs a handler
  it has started until it returns or throws. Arrivals, ticks and failures are
  not fair. `ListingRepairs` also assumes that a teacher opens the list of
  groups again and again (strong fairness of starting a listing of the groups
  that are not archived, because the slot may be busy with another listing);
  that is an assumption on people, and the repair does not happen without it.
* `Gns3Sessions`: the cleanup runs every 30 s and its steps are taken, and the
  launcher gets to stop the unit it is told to stop; faults are finitely many.
  Other requests, binding and ticks are not fair. It is stated for its part
  only, so that it excludes no behaviour of the others.
* `StudentPage`: React renders, an open page polls (the timer of react-query), the
  hub delivers an event that is not lost, and a fetch is served and answered.
  `ClientCache`: a page that polls does so, and fetches are served and answered.
  What users do is not fair.
* `ClientSession`: the tab renders and redirects, its timer fires, tokens expire,
  calls are answered.

## 4. Proofs

All theorems hold for every value of the constants that satisfies the named
assumptions of the module (`TablesAssumption`, `ApiAssumption`, `GroupAssumption`,
`PageAssumption`, `CacheAssumption`, `RostersAssumption`, `DemoAssumption`, `SessionAssumption`,
`Gns3Assumption`).

`AttemptApi_proofs`, for any finite set of requests, any assignments and answers:

* `TypeCorrect`: `Spec => []TypeOK`. Type correctness is not inductive alone:
  a save indexes `attempts` by the `att` of a request and copies columns of its
  `row`. The invariant (`TypeInv`) adds, for every request in flight, that its
  attempt exists (attempts are never deleted) and that whoever is about to save
  one holds a row of it.
* `SubmittedMeansRowAlways`, by `MarkInv`: no submit row refers to an attempt
  that is yet to be inserted (so that a new attempt starts without one), and the
  saves other than Submit's keep the mark and never write the status SUBMITTED
  (`RowSaveKeepsMark`), however stale the row is that they were decided on;
  Submit writes mark and row at once.

* `SubmitsBounded`, `AttemptsBounded`: the number of submit rows (attempts) of
  an assignment is at most the number of requests. Once there is a row, the
  rows together with the requests that are past the check and about to insert
  one are no more than the requests (`SubmitBound`, `AttemptBound`): the first
  row appears when at most all requests are past the check, nobody joins them
  afterwards (`SaversShrink`, `CreatorsShrink`), and each that inserts leaves.
* `EarlyEndLeavesNobody`, by `CompletionInv`: the assignments do not change here,
  a submit row stays and is that of an assignment (`RefersRightly`), and the
  last submitter compares numbers; without duplicates, as many submit rows as
  assignments means one for each (`EveryoneCounted`).

On the properties of `AttemptRefinement`, in the same module and under the same
assumptions:

* `RevivalIsStale`, `LifecycleUnlessStaleHolds`, by `DecidedInv`: the row that a
  request is going to save from has a status its handler accepts, it is the row
  of an attempt of the request's assignment, and a request that is about to
  revive has `has` FALSE although there is a submit row. So the save of a request
  whose row is current is a step of `AttemptLifecycle`, every other step but a
  stale save is a stutter or the creation of an attempt: one case per action.
* `SerialRequestsLiveLifecycle`: `Spec => Lifecycle`, the refinement itself, when
  there is one request slot (`\A q, r \in Requests : q = r`): handlers run one
  after another, and any may die at any await. `SerialInv` adds that the row and
  the answer of the one request are current, and that it never revives. `SerialSubmittedIsFinal` derives from it what the
  run `submitted_reopened` refutes for two slots. The hypothesis is the point:
  it says which of the two is to blame, and the run that the code does not have it.

`GroupApi_proofs`, for any number of requests and group handlers, students,
assignments and ids, by `GroupInv`:

* The assignments come and go here, so the invariant of `AttemptApi_proofs` is not
  enough. `RowsInv` says that whatever an attempt or a submit row refers to has
  been handed out (`Known`), and a submit row belongs to the assignment of its
  attempt; ids are never handed out again, so that an insert finds nothing
  that refers to it (`StepRosterMoves`, `KnownStays`). `RequestsInv` and `JobsInv` say
  the same of what handlers hold, that a last submitter past its count has
  `ids` it knows, and that a creation has no rival before its first save.
* `GroupTypeCorrect`, `SubmitsMatchAttemptsAlways` follow from it alone.
* `WindowUnlessStaleHolds`, `RosterUnlessStaleHolds`, `EarlyEndUnlessStaleHolds` go
  job by job: a save whose row (`SavedGroupIsRow`) or list of assignments is
  current writes what its handler has checked; the others write neither.

`ClientCache_proofs`, for any table of queries, mutations and edits whose dialogs
are filled from a query of their page:

* `CacheTypeCorrect`.
* `OwnWriteShownAlways` under `Invalidates`: every pair that is not listed in
  `Unrefreshed` has the mutation invalidate the key of the query. `OwnWriteKeptAlways`
  under `EditsInvalidated`, the same of the query an edit is filled from, but for
  `NotShared`. The hypotheses speak of the tables alone, and the tables of
  `ClientQueries` keep them. They are hypotheses of the theorems and no
  assumptions of the module because a slip in a table is to show as a
  behaviour that breaks the property, which is what the run looks for; the
  theorems say that nothing else can break it: no order of fetches, retries,
  ageing, unmounting or writes of others.
* The invariant (`FreshInv`): once the user was told that the write is done, an
  answer without it is marked invalid, or is being fetched again, or `overtaken`
  (`ToldIsFresh`); `FilledAfter` follows it into the dialog of the edit.

`ClassRosters_proofs`:

* `RostersTypeCorrect`, `OnlyChosenLeaveAlways`, `BorrowedWhileLoadingAlways`: what
  a removal takes out beyond the chosen students has one of the named reasons,
  for any number of classes, students, calls and other users. The argument
  follows the list from the cache through the page into the call: as long as
  nothing has changed since the list was read, it is the list of members.
* `RestShowsOwnChangesAlways`, by `Refreshing`: a valid answer, or one under way,
  misses a change of the page's user only while the call that saved it is
  unanswered; the answer invalidates it, and what is shown is invalid only
  while it is being fetched.

`DemoBackend_proofs`:

* `DemoTypeCorrect`, `ConsistentAlways`, `OwnChangesAlways`: every operator from
  record to record keeps identifiers unique, submissions on variants of their
  own student, and the completion of a group equal to the submission of all its
  variants; because a handler writes a record that it computed from one record,
  consistency survives any number of lost updates.
* `ViewsAgreeAlways`: the list of groups counts submissions, the details count
  students that have one, and so do, each in its way, the pages of users and
  classes, the dashboard of teachers and, for `DashboardStudent` only, the
  dashboard of students. A consistent record has one variant per student and
  group and one submission per variant, so the two are the same number
  (`RowsAreSubmissions`, a bijection).

`ClientSession_proofs`:

* `SessionTypeCorrect`, `RestShowsTokenUserAlways`, `LandsAlways`, by `SessionInv`:
  a token without a known user is being validated; nobody logs in while there
  is a token; the user is the token's unless `late`; with a token, calls are
  under way from pages only.

`Gns3Sessions_proofs`, for any users, callers, ports, sessions, faults and retries:

* `Gns3TypeCorrect`: a handler indexes the rows by what it has to do, so the
  invariant (`TypeInv`) follows what each has left and has done (`Handled`); the
  number of rows is bounded because a start keeps a place for its row (`Places`).
* `AgreeUnlessOverlapAlways`, `OwnInstanceAlways`, by `Gns3Inv`. A connection that
  somebody listens to is that of the call it awaits (`Heard`). For a user whose
  `trust` is not *astray* (`Settled`) there is at most one handler, with at most
  one connection (`Alone`), and rows, unit, environment file and connection are
  in one of the phases of a stop (`StopUnderWay`), of a start (`StartUnderWay`)
  or at rest (`AtRest`). The steps of other handlers and users leave all that
  alone (`Frame`, `WorkFrame`). A stop that begins *astray* knows nothing of the
  unit; when it has succeeded for the user's rows the unit is off, and if no
  RUNNING row is left, `trust` is regained. Ports: a server claims
  the port it was started with, that of its environment file, and, before it is
  launched, the one that was allocated; `Exclusive` says that the claims of a
  user who agrees are nobody else's. Only an allocation adds a claim
  (`ClaimsStay`), and one that takes a claimed port puts both users *astray*.

`StudentPage_proofs`, for any scenario: any set of acts, contents, openings of the
page and reopenings, with or without broken connections, any kinds of calls lost. What a
step does to the calls under way (`CallsMove`), to the cache (`DataMoves`) and to the
component (`PageMoves`) is established once; the parts of the invariant (`PageInv`)
then go case by case over these few outcomes:

* `PageTypeCorrect`: `TypeOK` bounds the submit rows by two for each visit of the
  page. A visit has at most one submit by hand under way and one of the deadline
  timer, which fires once; as long as there is no row, the submits that may
  still add one are at most two for each visit so far, and once there is one,
  nobody gets past the check any more (`SubmitsInv`, `SubmitMoves`: a step maps the
  submits under way into those that are left, so their number can be followed).
* `QuietPageKnowsAlways`, by `KnowsInv`: a cached status that is wrong, or an answer
  on its way that says such a thing, is accompanied by a get, an
  event, the answer of a submit, or `behind`; or it is the submission of an
  `overruled` answer, which every further answer ends. It takes `WhereInv` (one get of the page at a
  time, nobody waits for anything else once the page is left) and `RowsInv` (whatever
  was read says nothing of an attempt or a submission that does not exist).
* `SettledDraftSavedAlways`, by `DraftInv`: as long as the rows in the form are not the
  draft of an active attempt, the autosave effect is due, or a save of just these
  rows is queued (with the timer set or a save under way that will set it) or
  under way, or an answer is to come that is not the cached one and will make the
  effect run. After a lost get or lock `behind`
  holds until the attempt is read again. `SeenInv`: at rest the closures know what is cached.
* `OptimismEndsAlways`, by `OptimismInv`: while an active attempt is locked
  optimistically the lock is under way, or the render that ends it is due, or
  `missed`.
* `LeavesLockedAlways`: the ways in which a page is no longer open (`NotOpenMoves`) are
  a close, an unblocked navigation, the answer of the lock it waited for, and the
  answer of a submit.

The proofs corrected three of these properties: a step of an induction failed, and
TLC then found the behaviour in a scenario larger than those of the run (two
locks around a submit, a lock that finds the attempt submitted, a lost save of a
page that goes on). The exceptions given with the model of the page name them.

Only model-checked: liveness (`LastSubmitterCloses`, `ListingRepairs`,
`ExpiredEnd`, `ReopenedReachesPage`, `PolledShown`, `ComesToRest`), which is out of the
prover's reach. Every invariant and every action property of a passing run, and
the refinement, is a theorem.

## 5. What is not modelled

* Plan generators and answer keys: arithmetic on 32-bit addresses and random
  numbers without state; no interleaving reaches it.
* Scoring and the conversion to local time: string comparison, and a calendar;
  the window itself is modelled on a monotone clock. That an hour occurs twice
  when summer time ends is listed as a hazard without a property.
* Administration of users (names, passwords, teachers), templates and settings:
  single rows; their effect on what the client shows is in `ClientQueries`.
* Authentication and LDAP beyond issuing, expiry and refusal of a token:
  cryptography and calls to a directory.
* Events to the teacher pages, which only refetch; dashboards and the log stream,
  which only read.
* The updater: a client of a host script that pulls images.
* Rendering, forms and texts of the web client.
* Of the modelled parts: GNS3 certificates, its rate limit, and deletion of a
  user with a session; rows and scores in the demo; `/unauthorized` and
  `/forbidden` pages and the tokens of the demo build in the session; the
  selection that outlives a search in the class pages.

Hazards that no property covers are listed with their reasons in
`PROJECT.json`: mostly behaviour that the models do have but that nothing in
the repository promises to be otherwise (a completed group keeps `CompletedAt`
when a student is added, the window is tested only when a submit starts, an
extension overlaps the cleanup), and a few that need more than one model (the
query cache that outlives a logout).
