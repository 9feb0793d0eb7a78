# Verification of the MikroTik VPN Monitor

TLA+ models of the MikroTik VPN Monitor, checked with TLC, and theorems about
them, checked with TLAPS. The monitor receives CONNECT and DISCONNECT events and
periodic snapshots from RouterOS routers, and projects them onto a table of VPN
sessions that dashboards and alerts query.

- [1. The system](#1-the-system)
- [2. Modules](#2-modules)
- [3. Correspondence with the code](#3-correspondence-with-the-code)
- [4. Runs](#4-runs)
- [5. Where the documentation and the code disagree](#5-where-the-documentation-and-the-code-disagree)
- [6. Theorems](#6-theorems)
- [7. Not modelled](#7-not-modelled)
- [8. Plan](#8-plan)
- [9. Running it](#9-running-it)

## 1. The system

    RouterOS                        one service process (uvicorn)              SQLite
    profile hooks -> event-sender -----> POST /router/events                   routers
                                           authenticate_router  --+            sources
    scheduler -> snapshot-source           process_event          | Session -> vpn_sessions
              -> snapshot-sender ------> POST /router/snapshot    | per        vpn_events
                                           authenticate_router    | request
                                           process_snapshot     --+            (WAL, one
    dashboard, Grafana ----------------> GET /api/...                           writer)
    administrator ---------------------> scripts/*.py, alembic

### Components

| Component | State it keeps | Operations | What makes it correct |
|---|---|---|---|
| Event ingestion (`app/services/events.py`) | `vpn_events`, `vpn_sessions` | `process_event`: resolve the source, detect a duplicate or a conflict, store the event, `_apply_connect` or `_apply_disconnect` | an event has its effect once, however often it is delivered; an answered event is stored; an identifier is not reused for other content |
| Snapshot reconciliation (`app/services/snapshots.py`) | `vpn_sessions`, `sources.last_snapshot_at`, `routers.last_snapshot_at`, `routers.last_boot_id` | `process_snapshot`: stale tests, reboot, match or create each item, close what is missing, advance the marks | after an accepted snapshot the active sessions of the source are the observed ones; an old snapshot changes nothing; no session newer than the observation is ended; nothing of an earlier boot survives |
| Persistence (`app/models.py`, `app/database.py`) | the tables, their constraints, SQLite's write lock, one unit of work per request | load, flush, commit, rollback | rows are never torn between two requests that loaded them; a closed session stays closed |
| HTTP ingestion (`app/api/ingestion.py`, `app/schemas.py`, `app/timeutils.py`) | the requests being handled | validate, call the service, answer | the answer says what was committed |
| Router authentication (`app/security.py`) | `router_credentials.last_used_at`, `routers.last_seen_at` | `authenticate_router` | a revoked credential is refused; nothing older than the request decides about it |
| Provisioning (`app/services/routers.py`, `scripts/`) | `routers`, `sources`, `source_services`, `router_credentials` | register, add a source, rotate a token | a source name means one source, a rotation revokes what was active and locks nobody out |
| Query API (`app/services/queries.py`, `app/api/query.py`) | none | list, count, page | a history read in pages skips nothing; the figures of a summary differ by no more than was committed between their reads |
| Logon alerts (`app/api/alerts.py`) | none (the poller's interval) | look back over `received_at` | every CONNECT is seen by some poll |
| RouterOS scripts (`routeros/`) | the router's sessions, its clock, pending messages | hooks, scheduler, up to three attempts one second apart | with periodic snapshots the projection eventually agrees with the router |
| Schema migrations (`alembic/`) | the schema and its revision | upgrade at service start | a start that was cut off can be repeated |
| Service start and deployment (`app/main.py`, `deploy/`, `scripts/install_linux.sh`) | none | supervision and restart | a restart loses only unanswered requests |

### How the parts interact, and what is hard about it

- Handlers are plain functions, which FastAPI runs on a thread pool: events and
  snapshots of one router overlap, and a resend overlaps the attempt it repeats.
- `authenticate_router` and the handler share one Session (`get_db` is one
  dependency), and commits do not expire objects. The `Router` the snapshot
  service tests and updates is the object the authentication loaded.
- Through pysqlite a SELECT outside a transaction sees the latest commit, and the
  first INSERT or UPDATE takes SQLite's only write lock, which is kept until the
  commit. A request that waits more than 5 s for it fails. So everything a snapshot
  reads before its first flush may be out of date when it writes.
- `autoflush=False`: objects edited in a request are invisible to the WHERE
  clauses of the same request until a flush; queries that return such a row yield
  the edited object. A flush writes only the columns that differ from the values
  loaded, whatever other requests have committed to them meanwhile.
- Messages are lost, repeated and reordered; instants come from the router's clock
  in whole seconds, and RouterOS reuses session identifiers after a reboot.
- A process that ends loses its open transaction and nothing else.

- An event's `received_at` is taken before its transaction waits, and becomes visible
  after; alert polls look back over it.
- SQLite executes a migration's statements one by one: an upgrade that is cut off
  leaves some of them and no revision.
- Answers of the query API are put together from several reads, or read page by page,
  while requests commit.

`PROJECT.json` lists these hazards at the lines where they bite, with the properties
that cover them, or why none does.

## 2. Modules

| Module | Models |
|---|---|
| `SessionRows` | what a session row is and how it is selected and edited: the WHERE clauses, `_close_session`, `_refresh_session`, the new rows, the columns an UPDATE writes. Constants and their assumptions. No state. |
| `SessionStore` | the committed tables, the write lock with the tables its holder sees, and for each worker the statement it is at, its local variables and its unit of work; receiving, answering and aborting a request. |
| `EventIngestion` | `process_event`: the duplicate lookup, then insert, effect and commit. |
| `SnapshotReconciliation` | `process_snapshot`, statement by statement. |
| `Ingestion` | the composition: any number of workers over one database; their properties and the inductive invariant. |
| `SessionLifecycle` | the abstract specification of `vpn_sessions`: rows open, are refreshed, closed and amended. `Ingestion` implements it for any number of workers. |
| `SerialInvariant` | what a request has done so far at each statement, when requests do not overlap: the inductive invariant `SInv` of section 6, and how far a snapshot has come towards its effect. |
| `RequestEffects` | what a whole event or snapshot makes of the sessions, as operators on tables. No state. |
| `AtomicRequests` | the abstract specification of the API: each request changes the tables in one step, by one of its `RequestEffects`, or not at all. `Ingestion` implements it for one worker. |
| `System` | a router's PPP sessions, hooks, scheduler and lossy delivery (`routeros/*.rsc`) over `AtomicRequests`, with requests that others overlap handled by `Ingestion`, statement by statement. |
| `LogonAlerts` | the stamp, wait and commit of CONNECT events against the polls of the alert feed. |
| `SchemaMigration` | the systemd unit, releases and upgrades over DDL that commits statement by statement. |
| `Provisioning` | registration, sources, rotations and `authenticate_router`, any number at once. |
| `Deployment` | `Provisioning` on the schema and service of `SchemaMigration`. |
| `Queries` | pages, filtered listings, joined counts and summaries beside sessions that open and close. |
| `MCIngestion`, `MCSystem`, `MCLogonAlerts`, `MCDeployment`, `MCQueries` | small instances for TLC. |
| `IngestionProofs`, `LifecycleProofs`, `SerialProofs`, `SystemProofs`, `LogonAlertsProofs`, `DeploymentProofs`, `QueriesProofs` | the theorems. |
| `EffectsProofs` | facts about `RequestEffects` that they use. |

Some definitions are deliberate mistakes ("A mistake: ...", or next to the operator
they would replace): each is a plausible bug in one operator of the model, which
TLC must catch by the property it is meant for.

## 3. Correspondence with the code

| State | Code |
|---|---|
| `vpnSessions` | committed `vpn_sessions`, keyed by `id`; a row that does not exist is `None` |
| `vpnEvents` | committed `vpn_events`, as the set of event payloads |
| `sourceSnapshotAt`, `routerSnapshotAt`, `routerBootId` | `sources.last_snapshot_at`, `routers.last_snapshot_at`, `routers.last_boot_id` |
| `lock`, `work` | the worker whose connection holds SQLite's write lock, and `vpn_sessions` in its transaction |
| `pc`, `job` | a thread's place in the handler, and its local variables: the payload, the `Router` columns as loaded by the authentication, the items left, the rows matched, the answer |
| `dirty` | the Session's identity map as far as it is edited: per row the columns as loaded (`old`) and as assigned (`new`) |

| Action | Code |
|---|---|
| `Receive` | the request reaches a thread; `authenticate_router` loads the `Router` |
| `Authenticate` | `authenticate_router` waits for the write lock and commits its stamps; the handler starts |
| `LookupEvent` | `_resolve_source` and the SELECT for the event identifier, with the answers that end here |
| `StoreEvent` | the INSERT of the event with its flush, `_apply_connect` or `_apply_disconnect`, the commit; or the `IntegrityError` branch |
| `ResolveSnapshot` | `_resolve_source` and the two stale tests |
| `CloseForReboot`, `FlushReboot` | `_close_sessions_for_reboot`; the `db.flush()` after it, if it closed any |
| `FindByRouterSessionId`, `FindEventFallback` | the two matches of an item, each with `_refresh_session` of the row it found |
| `CreateReconciled` | `_create_reconciled_session`, whose flush writes everything pending |
| `CloseMissing` | the sessions the snapshot does not list |
| `CommitSnapshot` | the marks and the commit |
| `Respond` | the answer leaves |
| `Abort` | the lock was not granted in 5 s, an exception, or the end of the process: the Session is closed and its transaction forgotten |

`System`:

| State and actions | Code |
|---|---|
| `phase`, `began`, `endpoint` | the router's PPP sessions, with user, address and interface |
| `now`, `skew` | time, and how far the router's clock is ahead until it is set right (`SetClock`) |
| `hooks`, `reports` | messages in the `:retry` of a sender script, and since when |
| `ComesUp`, `GoesDown` | the profile's `on-up` and `on-down`, which start `event-sender` |
| `StartScript`, `PrintActive` | the scheduler's script: it reads the clock, later prints `/ppp active` and sends |
| `Deliver`, `LoseAnswer`, `GiveUp` | an attempt that no other overlaps and that is answered; one handled whose answer is lost; the failure of the last |
| `Handler`, `slow` | an instance of `Ingestion` with one worker, and the message it handles, which stays with its script: the fetch may fail first, and the resend then overlaps this attempt (`snapshot-sender.rsc:97-100`) |
| `TakeUpEvent`, `TakeUpSnapshot` | such an attempt reaches a thread |
| `Handle` | one of its statements; between them other attempts are handled (`Meanwhile`) |
| `Answered`, `Fails` | its answer leaves, for a script that waits or no longer does; or it leaves nothing |

`LogonAlerts`:

| State and actions | Code |
|---|---|
| `received` | `vpn_events.received_at` |
| `attempts` | events stamped by `process_event` and not yet committed |
| `Stamp`, `Commit`, `Abort`, `Resend` | the row is built; its transaction commits, or not; the event was stored before |
| `StartPoll`, `AnswerPoll`, `LosePoll` | `list_logon_alerts` fixes its cutoff, then selects; or Grafana does not get the answer |

`Deployment`:

| State and actions | Code |
|---|---|
| `schema`, `stamp` | the tables and columns there are; `alembic_version` |
| `release`, `loaded`, `service` | the installed code, the code the API runs, the unit's state |
| `Start`, `Execute`, `Record`, `Finish` | `ExecStartPre`: the upgrade's plan, a statement, the revision; then `ExecStart` |
| `CutOff`, `Down`, `Install`, `ByHand` | `TimeoutStartSec` or a crash; the end of the API; an update; `alembic upgrade head` |
| `CheckName`/`Register`, `CheckSource`/`AddSource`, `FindCredentials`/`Rotate`, `PrintSecret` | the read, the commit and the output of each script |
| `LoadRouter`, `Match`, `Stamp` | `authenticate_router` |

`Queries`:

| State and actions | Code |
|---|---|
| `sessions`, `events` | the columns of the tables that the queries read |
| `Write`, `StoreEvent` | commits of the ingestion services, one row at a time |
| `StartWalk`, `NextPage` | `GET /query/sessions/history` with growing `offset`, until a page is short |
| `StartSummary`, `NextFigure` | the scalars of `get_summary`, in their order |
| `ListSessions`, `RouterItem`, `SourceItem`, `UserItem`, `ListUsers` | the SELECTs of `queries.py` |

### Where steps end

A step is a statement that reads or writes the database, together with the
computation up to the next one; other requests can act between two steps. In the
event service everything from the INSERT to the commit is one step: the INSERT
takes the write lock, so nothing else is written, and nothing of this transaction
is seen until it commits. A crash inside it leaves what `Abort` before it leaves.
`_find_by_router_session_id` is one step per item, as is the fallback, because
until its first flush a snapshot holds no lock.

### Abstractions

- Instants are integers (whole seconds). `duration_seconds` is cut off at zero as
  in the code. `datetime`'s range is left out: `OverflowError` on a huge uptime is a
  cause of `Abort`.
- Users, services, identifiers and texts are members of small sets. `Empty` is the
  empty string, which the code treats as absent in some places and not in others.
- A snapshot's sessions are a set. Since the next item is any of those left, each
  order of the list is covered, including the order that matters when two items
  could match one row. Nothing is lost by a set: the schema refuses a snapshot
  that repeats a RouterOS identifier.
- Columns nothing depends on are left out: `local_address`, display names and the
  row stamps; so are the `enabled` flags of routers, which nothing in the code clears.
- The authentication's stamps, `last_seen_at` and `last_used_at`, are left out, since
  ingestion does not read them. Their commit is kept: no handler starts while another
  request holds the write lock, but it may have loaded its `Router` before.
- The database of one router. Requests for different routers touch different rows
  and meet only at the lock, where they are one more reason to wait or to abort.
- A table with no free `SessionId` leaves a handler that wants to insert with
  `Abort` only. This bound is in the constants and not in the code.
- `System` handles a request that no other overlaps as `AtomicRequests` says, which
  `serial` shows to be right, and one that others overlap by the statements of
  `Ingestion`. While a request writes, it holds the lock and nothing else commits, so of
  two that overlap the one that commits first might as well be handled in one step at
  that moment: one slow request among requests in one step is every overlap of two. One
  request is slow at a time, so three or more requests of which each overlaps the others
  before any commits are not covered. `System` has one source and one boot.
- `Deployment` numbers what is only ever compared: secrets, and identifiers. A table
  and its indexes are one statement.
- `Queries` leaves out the columns an answer only copies, and durations.

### Fairness

Two specifications are fair; all other properties are safety properties, which hold
however the thread pool schedules and however long a request waits.

- `System`: `WF_system(Progress)`. Time passes, the scheduler starts the script every
  interval (`start-time=startup`, `interval=1m`), a running script prints and sends,
  attempts are made, and a request that has begun is handled and answered (a handler is
  finite, and waits at most 5 s for the lock). A single weak fairness condition on their
  disjunction is enough, because lost answers, given-up messages and slow requests are
  bounded (`MaxFaults`): it says only that not everything stops. From `Horizon` on the
  scheduler goes on with that instant standing for all later ones.
- `Deployment`: weak fairness of the unit, which systemd restarts
  (`Restart=on-failure`, `RestartSec=5s`) and whose upgrade does not hang, and of the
  upgrades by hand, which end. Nothing makes scripts, requests or updates happen.

## 4. Runs

Payloads are not used up: every event and snapshot of a run's sets may be received
at any time and any number of times, by any worker, so lost, repeated, delayed and
swapped messages are all among the behaviours.

| Run | Config | Shows |
|---|---|---|
| `concurrent` | `IngestionRace.cfg` | what holds whatever two overlapping requests do |
| `serial` | `IngestionSerial.cfg` | what reconciliation promises when requests do not overlap |
| `system` | `System.cfg` | that periodic snapshots repair what events lose and overlapping requests do |
| `alerts` | `LogonAlerts.cfg` | when a poll of the alert feed sees every logon |
| `deployment` | `Deployment.cfg` | that upgrades fail closed and rotation holds |
| `queries` | `Queries.cfg` | what a reader may make of answers read in pieces |
| `resent_snapshot`, `reused_event_id`, `unaddressed_twins`, `close_race`, `boot_rollback`, `delayed_snapshot` | of the same name | one documented statement each that the code does not keep (section 5) |

**`concurrent`** has two workers, one user, three rows, a CONNECT at 2, the late
DISCONNECT of an earlier session at 1, and snapshots before the CONNECT, with the
session, and without it after a reboot. One session is thereby refreshed, missed,
disconnected and ended by a reboot in every order, and from two requests at a time.

- `ClosedIsComplete`: state, end, reason and duration of a row agree, although two
  requests that loaded it may both write them.
- `NeverReopened`: the late refresh of a request that loaded a session ACTIVE does
  not take it back from CLOSED.
- `SnapshotClosesOnlyOlder`: no snapshot, however late, ends a session that
  connected after it was observed.
- `OneSessionPerConnect`: repeated delivery of a CONNECT opens one session, even if
  two copies pass the duplicate lookup together.
- `AnsweredEventIsStored`: no answer on which a router stops resending is given for
  an event that was rolled back.
- `ImplementsLifecycle`: the committed rows behave as `SessionLifecycle`.
- `IInv`, `TypeOK`: the inductive invariant of section 6 and the types.

Two workers suffice for these: each is a statement about one row and the pending
edits of one request against one other commit. Three rows leave room for a second
session after the first ended and for one more insert by the other request. Rows
and workers are interchangeable, hence the symmetry.

**`serial`** has one worker, two enabled sources and a disabled one, a service that
is not allowed, two boots, a user connected twice whom addresses tell apart, an
identifier with two contents, and snapshots in every order of three instants. One
worker is the case of a router whose messages do not overlap; order and repetition
stay free, and a request may abort anywhere.

- `AcceptedSnapshotIsExact`: after an accepted snapshot the active sessions of the
  source up to its observation are its items, one for one. It asks of items of one
  user that an address, a caller or an interface tells them apart; section 5 has
  the run without that.
- `OneActivePerRouterSession`: a RouterOS session has one active row.
- `NoRowOutlivesItsBoot`: no active row of any source is marked with another boot
  than the router's last.
- `RouterMarkIsNewest`: the router's mark is the newest of its sources' marks.
- `SInv`: the inductive invariant of section 6.
- `ClosedIsFinal`: nothing about a closed session changes.
- `StaleSnapshotChangesNothing`: a commit of a snapshot that is not newer than its
  source's mark changes no session.
- `OlderBootCannotRollBack`: the boot on record only gives way to that of a snapshot
  newer than every other of the router.
- `HandledAtomically`: the handlers implement `AtomicRequests`: the statements of a
  snapshot, with the flushes between them and any abort, come to one of the outcomes
  that module states as a set, with the same rows, marks and boot.

None of these survives the overlap of two requests, which TLC shows with `Worker = {w1,
w2}`. Section 5 has the runs for `ClosedIsFinal`, `StaleSnapshotChangesNothing` and
`OlderBootCannotRollBack`. The other ones fail as follows:

- `OneActivePerRouterSession`: two overlapping snapshots each insert a row for a session
  that neither has found.
- `NoRowOutlivesItsBoot`: an older boot, written over a newer one, leaves the rows of the
  newer with another boot than the router's last.
- `RouterMarkIsNewest`: the older of two snapshots writes its instant over the newer's.
- `AcceptedSnapshotIsExact`: another request commits before a snapshot is answered.
- `SInv` and `HandledAtomically` fall with them.

What does hold is `concurrent` and, in the long run, `Repair`.

Four rows let a user's two sessions exist beside another user's and one closed
row.

**`system`** has two PPP sessions, in three scenarios (one user who reconnects on the
same interface and address; one user twice; one user whose interface and address another
gets next), sessions until second 1, messages up to a second old, a clock that may be a
second ahead until it is set right, one fault, and seconds up to 4, enough for every
message and skew to be over before the last snapshots. The fault is a lost answer, a
message given up, that clock change or, when a user reconnects (`Overlapped`), a slow
request: an event or a snapshot that others overlap. Its own message may be sent again
and handled while it is between two statements, and so may any other; it may abort, and
its answer may be lost. Six rows leave it keys for all that can be inserted.

Rows are numbered as they are inserted (`KeyOrder <- MCKeyOrder`; the keys are random,
and no other run orders them), and the `VIEW` leaves out what no step or property reads
again, the list of which is in `MCSystem`.

- `Repair`: `<>[]Agrees`. Whatever was lost, repeated, delayed, overtaken or handled at
  the same time, the active rows end up as the router's sessions, one for one and with
  their users. This covers a DISCONNECT that closes the wrong session, a CONNECT after
  its DISCONNECT, a second row for a reconciled session, a reopened one (section 5), a
  snapshot that closed what its own resend inserted, and a clock set back.
- `IdentifiedEndIsReal`: a row that carries a session's identifier is ended as missing
  only when that session is down; an event may be handled beside any snapshot. Two things
  are excluded. One is a snapshot during whose handling another request commits
  (`apart`): the later to commit has passed the stale test before. When that is its own
  resend, it ends an identified row of a session that both list, which is what
  `resent_snapshot` shows; when the other is newer, one of a session that it does not
  list. Without `apart` TLC refutes the property in this run. The other is a clock set back by more than a second: a
  listing is dated by the clock, so after a longer jump one that was printed before a
  session came up may be dated after the one that identified it. With `MaxSkew = 2` and
  `Horizon = 5` TLC refutes it without that clause.

**`alerts`** has two events, a lookback of 3, polls answered at most 2 apart, at most
1 between stamp and commit, and 8 instants: several polls after an event has left the
lookback. In the code the lookback is 5 minutes unless the caller says otherwise, the
wait is the 5 s of the busy timeout and the handling, and the period is Grafana's.

- `NoConnectMissed`: what a poll could have found has been answered by it or an
  earlier one. It needs `Lookback >= Period + MaxWait`, the module's assumption.
- `AlertFiresOnce`: what has left the feed does not enter it again.

**`deployment`** has the unit and one upgrade by hand, two releases, two problems (cut
off upgrades, crashes, updates, upgrades by hand), two scripts at a time, one request,
one router, three source keys, two source names and four secrets: two rotations overlap and
a third secret may follow.

- `ServesKnownSchema`: the API only runs on a schema with all its code needs.
- `EventuallyServes`: it gets to run, unless an upgrade was cut off in the middle of a
  revision or the database is ahead of the release. In the first case every later
  upgrade fails at CREATE TABLE, and the database has to be repaired by hand.
- `UniqueSourceNames`, `NoLockout`, `RotationRevokes`: overlapping scripts.
- `RevokedStaysOut`, `RevocationIsFinal`: a request that began before a rotation may
  be let in and stamp the row; one that begins after it is not, and the stamp does not
  bring the credential back.

**`queries`** has two routers whose sources share a name and one without sources, two
users, three rows, two instants, pages of one row, and histories of everything, of the
closed sessions, and of one user since an instant. Sessions open anywhere in the order,
because snapshots date connections by uptime and identifiers are random.

- `WalkMissesNothing`: a history read page by page lists all that its query matched at
  the start. It is stated for histories other than `state=ACTIVE`: there a session
  that ends between two pages moves the others up past the offset.
- `SummaryHoldsTogether`: each figure is its own read, so figures do differ: a session
  opened between two reads makes `active_users` greater than `active_sessions`
  (`queries.py:54-59`). They differ by no more than what was committed: the users
  exceed the sessions by at most the sessions opened since the summary began, the active
  sessions do not exceed the recent and the older ones, and a recent CONNECT is no newer
  than the last event. All three depend on the order of the reads.
- `CountsMatchListings`: the counts beside routers, sources and users are those of the
  lists the API gives for them.
- `HistoryOnlyGrows`: a user's number of sessions and last connection never go down.

All instances are explored completely, the larger ones in one to three minutes.

Deadlock is checked in every run.

## 5. Where the documentation and the code disagree

Each of these runs ends in a counterexample.

1. **A resent snapshot is handled twice** (`resent_snapshot`).
   `docs/snapshot-reconciliation.md:107` and `routeros/README.md:77` call a
   retransmission stale or idempotent. The stale test is made before the write lock
   is taken and not repeated, so a copy that arrives during the first one's handling
   passes. It finds no row for the session, waits for the lock at its insert, inserts
   a second row, and closes the first, which it has not matched, as RECONCILIATION.
   The sender resends one second after a failed attempt, while the handler may wait
   up to 5 s for the lock. The next snapshot leaves one row again (`Repair`), but the
   session has a false end in its history.
2. **An identifier reused during the first request is called a duplicate**
   (`reused_event_id`). `docs/router-ingestion.md:180` promises 409 for reuse with
   different content. The unique constraint stops the second insert, but the
   `IntegrityError` branch answers "duplicate" without comparing.
3. **Two sessions of a user that no address tells apart are projected to one**
   (`unaddressed_twins`). `docs/snapshot-reconciliation.md:148-154` says that an
   observed session with no active projection gets one. With autoflush off the second
   item's query still finds the row the first was just matched with; the identifier is
   overwritten and no second row is created. One worker is enough.
4. **The end of a closed session is rewritten** (`close_race`).
   `docs/persistence-model.md:152-168` has CLOSED as the last state and one cause for
   each reason. A snapshot that loaded the session before a DISCONNECT committed
   closes it again, with its own instant and reason. `ClosedIsComplete` still holds:
   the row is consistent, but its end is not the event's.
5. **An older snapshot sets the boot back** (`boot_rollback`).
   `docs/snapshot-reconciliation.md:220` rules it out. The test and the mark use the
   `Router` as the authentication loaded it, before a snapshot of another source
   committed a newer one. `last_snapshot_at` goes back in the same way, although
   `docs/persistence-model.md:86` calls it the newest accepted timestamp across all
   sources: with two workers TLC refutes `RouterMarkIsNewest` as well.
6. **A delayed snapshot reopens an ended session** (`delayed_snapshot`).
   `docs/snapshot-reconciliation.md:124` says that delayed snapshots do not reverse newer
   state. The stale test knows the source's snapshots and not its events: one observed
   before a DISCONNECT and handled after it finds no active row and creates one. The
   next snapshot ends it (`Repair`).

## 6. Theorems

For any sets of workers, rows, payloads, users, identifiers, events, scripts and
secrets, and for all instants:

| Module | Theorem | Statement |
|---|---|---|
| `IngestionProofs` | `TypeCorrect` | `Spec => []TypeOK` |
| | `Invariance` | `Spec => []IInv` |
| | `ClosedCompleteness` | `Spec => []ClosedIsComplete` |
| | `TemporalProtection` | `Spec => []SnapshotClosesOnlyOlder` |
| | `ClosedForGood` | `Spec => NeverReopened` |
| | `NoEventLost` | `Spec => []AnsweredEventIsStored` |
| | `AtMostOnce` | `Spec => []OneSessionPerConnect` |
| `LifecycleProofs` | `Implementation` | `Spec => ImplementsLifecycle` |
| `SerialProofs`, each assuming `OneAtATime` | `SerialInvariance` | `Spec => [](IInv /\ SInv)` |
| | `SnapshotExactness` | `Spec => []AcceptedSnapshotIsExact` |
| | `OneRowPerSession` | `Spec => []OneActivePerRouterSession` |
| | `BootGenerations` | `Spec => []NoRowOutlivesItsBoot` |
| | `NewestMark` | `Spec => []RouterMarkIsNewest` |
| | `ClosedHistory` | `Spec => ClosedIsFinal` |
| | `StaleIsIgnored` | `Spec => StaleSnapshotChangesNothing` |
| | `NoBootRollBack` | `Spec => OlderBootCannotRollBack` |
| | `RequestsAreAtomic` | `Spec => HandledAtomically` |
| `SystemProofs` | `RealEnds` | `SystemSpec => []IdentifiedEndIsReal` |
| `LogonAlertsProofs` | `AlertInvariance` | `Spec => []AInv` |
| | `EveryLogonIsReported` | `Spec => []NoConnectMissed` |
| | `AlertsFireOnce` | `Spec => AlertFiresOnce` |
| `DeploymentProofs` | `DeploymentInvariance` | `Spec => []DInv` |
| | `FailsClosed` | `Spec => []ServesKnownSchema` |
| | `SourceNamesAreUnique` | `Spec => []UniqueSourceNames` |
| | `RotationKeepsACredential` | `Spec => []NoLockout` |
| | `RotationIsThorough` | `Spec => []RotationRevokes` |
| | `RevocationIsImmediate` | `Spec => []RevokedStaysOut` |
| | `NeverRestored` | `Spec => RevocationIsFinal` |
| `QueriesProofs` | `QueriesInvariance` | `Spec => []QInv` |
| | `CompleteWalk` | `Spec => []WalkMissesNothing` |
| | `CoherentSummary` | `Spec => []SummaryHoldsTogether` |
| | `CountsAgree` | `Spec => []CountsMatchListings` |
| | `GrowingHistory` | `Spec => HistoryOnlyGrows` |

Each inductive invariant was model-checked before it was proved: `IInv`, `SInv`, `AInv`
and `DInv` are invariants of runs, `EachUnderWay`, `SysInv` and `QInv` held on the
instances of `serial`, `system` and `queries`.

### Ingestion

**Assumptions.** `ScopeAssumption` (the enabled sources are sources, each with a set
of services), `NoneAssumption` (NULL is not a value), `PayloadAssumption` (what the
schema accepts, a finite number of items in a snapshot), `ObjectAssumption` (an object
is not NULL) and `WorkerAssumption` (NULL is not a worker).

**Argument.** The obstacle is the unit of work. A commit writes those columns of a
row that differ from what was loaded, onto whatever the row holds by then, so two
requests that edit a row can mix their columns. `ClosedIsComplete` alone does not
exclude that. `IInv` adds why it does not happen:

- an edited object was loaded ACTIVE, so its end, reason and duration were NULL.
  If the object is closed, all of them and the state differ and are all written; if
  it is not, none is, and the row keeps the end it has (`ObjectsCoherent`,
  `MergedRowCoherent`);
- nothing ever writes `connected_at`, so the duration computed from the loaded object
  is right for the row as it is now;
- the table a transaction sees continues the committed one: rows stay and stay CLOSED
  (`Continues`), which makes `NeverReopened` a fact about every commit; and with no
  transaction open the two are equal;
- the payload in a handler is one of its own kind (`RequestTyped`).

Every action has its lemma (`...Step`), most of them by way of two on the unit of
work: `EditCoherent` for steps that edit objects in memory and `FlushedCoherent` for
steps that write them. `NoEventLost` follows from the types and from the outcomes of
each step (`StepOutcome`): an answer that settles an event is given either with its
commit or after a stored one was found, and events are never removed.

`AtMostOnce` compares two cardinalities that grow together. `OnceInv` replaces them by
an injection from the rows of event origin into the stored CONNECTs of their user and
service. A commit that stores a CONNECT extends it by the new pair, a snapshot's rows
are of reconciliation origin and leave it alone (`OnlyReconciles`, which also speaks of
the rows a transaction has not committed), and an injection into a finite set bounds
the cardinality.

**Refinement.** The mapping is the identity on the committed table. A step that does
not commit is a stutter. One that does turns every row into the row `Flushed` makes of
it; that this is a move of `SessionLifecycle` follows from `Continues` and from
`ObjectKept`: an edit neither unsets an identifier nor makes an end the work of an event,
so what a late snapshot writes over a closed session is an `Amends`, and no more.

### Requests one at a time

**Assumptions.** Those of ingestion, and `OneAtATime`: there is at most one worker. It
is the hypothesis of each theorem of `SerialProofs` and is needed: the runs
`resent_snapshot`, `close_race` and `boot_rollback` refute three of the properties for
two workers, and TLC the others as well (section 4). A router whose sender waits for an
answer before it sends again, in a service that answers within the sender's timeout, is
in this case; the senders of the repository do not guarantee it.

**Argument.** `SInv` says what a snapshot has done at each statement. Two tables have to
be kept apart: `View`, on which the SELECTs run, and `Rows`, the same with the edited
objects in place, which is what will be written.

- With no other request, what was loaded is what is there (`Pending`,
  `RouterIsCurrent`), and a snapshot that got past the tests is not stale (`NotStale`).
- After the reboot nothing the snapshot covers is active (`Rebooted`), so no row of an
  earlier boot is left for the items to refresh.
- While items are matched, an object differs from its row only as one of the sessions
  the snapshot lists; it takes the identifier of an item, and only if it had none
  (`Edited`), and the row is left to `CloseMissing` or is in `matched` with an
  identifier of the snapshot (`Matched`). For items that can be told apart the
  converse holds: each item done has a row.
- The tables keep what the marks say (`TablesKeep`): an identifier or a boot was given
  by a snapshot no older than the session. That is why an accepted snapshot, newer than
  the mark, covers every row that carries one, and the reason behind
  `OneActivePerRouterSession` and `NoRowOutlivesItsBoot`.
- Closed rows are not written (`HistoryKept`).

**Refinement.** The mapping is the identity on the tables, and the step of the abstract
specification is the commit; everything before it stutters, as does an abort.
`EachUnderWay` is the invariant of the items: the flushed rows, the objects and the
matched rows (`Progress`) are one of the `AfterItems` of the items done so far, and
before the commit the rows are one of the outcomes with what is missing closed.
`AfterItems` is a recursive function on the set of items, defined for a whole snapshot.
`EffectsProofs` shows that it exists and unfolds for finite sets (`AfterItemsUnfold`),
and that it depends on nothing but the items done: two unfoldings that differ would
differ on a smallest set, and strict inclusion is well-founded on finite sets
(`SmallestMember`). No induction schema is needed.

### The router and the API

**Assumptions.** Those on payloads and NULL, `OwnAssumption` (the script's source and
service are the router's, its sessions have users, addresses and interfaces),
`ClockAssumption` (the bounds of the instance), `OrderAssumption` (RouterOS
identifiers are numbers), `SlowAssumption` (NULL is not a worker) and
`RequestAssumption` (an event is no snapshot: they are requests of different paths). They
leave the sessions, times, delays, faults and slow requests free.

**Argument.** `IdentifiedEndIsReal` is about a row and the router's session, and between
them are listings under way, dated by a clock that is not monotonic. `SysInv` has four
parts, the last two as long as no snapshot was overlapped (`apart`). `Sends`: a listing
names sessions that have come up. `Dates`: of two listings of which one lacks a session that is up and listed by the other, the one that lacks it was
printed earlier and is not dated later. It needs the bound on the clock, because a
script reads the clock before it prints (`snapshot-sender.rsc:34-40`), and the bound
is one second because scripts start in different seconds: set back by one, the clock
gives a later listing at worst the date of the one before. `Rows`: once a row
carries the identifier of a session that is up, every listing under way without it is
stale, since the listing that gave the identifier advanced the mark. So the only
accepted snapshots that can end the row are printed after the session went down.
`Alone`: the slow request is an event and has nothing pending before its one step that
writes (`SlowEventStored`), which does to whatever rows there are by then what an event
handled in one step does.

### Alerts

**Assumptions.** `TimeAssumption` and `LookbackAssumption`. **Argument.** Nothing bounds
how far the clock is past a stamp when its event is stored but `MaxWait`, so what the
last poll has not found was stamped at most that long before it (`LateIsRecent`).
The next poll begins within `Period` of the last, hence within the lookback of each of
those. What has left the feed is older than the last cutoff (`GoneIsOld`), and cutoffs
only grow, so it never returns.

### Deployment

**Assumptions.** `UnitAssumption`, `TroubleAssumption`, `IdleAssumption` and
`NoneAssumption` (NULL is not a name). **Argument.** The schema: an upgrade at statement
`next` of a revision has executed those before it, and others only add
(`UpgradesKeepPlace`), so a revision is recorded only when all it creates is there
(`StampIsTrue`), and the unit, which starts the API after its own upgrade, starts it on
such a schema (`UnitIsStarting`). Provisioning: what a rotation is about to revoke was
issued before and is its router's (`ScriptsFoundRight`), so the credential it adds is
none of them and stays, and a request never knows a credential as newer than it is
(`RequestsAreBehind`), so its late stamp changes nothing that counts.

### Queries

**Assumptions.** `QueriesAssumption` (a source is of a router and its name is unique
there, the unique constraint of `models.py:63`; instants, identifiers and users are
ordered as integers) and `NullAssumption` (NULL is not a value).

**Argument.** A walk asks for the rows past an offset, while rows are inserted anywhere
in the order. `QInv` says that what the walk has yet to list has rank at least the
offset (`WalkInv`): a page lists the ranks from the offset to the next one, rows are
never removed from a filter other than `state=ACTIVE`, so ranks only grow, and a short
page leaves no rank past it. For the summary it bounds each figure already read by the
ones still to come (`SummaryInv`): the sessions counted active at the start are, when the
recent ones are counted, among these and the older ones, of which there can only be
more; a session stored at the start is counted active or closed for good, so when the
users are counted, what is active beyond that count was opened since; and a CONNECT
counted as recent is still there for the last event. `CountsAgree`
takes the listed sessions apart by router, source and user; that the users' counts add
up (`UsersAddUp`) is a sum over a finite set, shown by a smallest counterexample.

### What is only model-checked

`Repair` and `EventuallyServes`: liveness under fairness is out of TLAPS's reach, as is
ENABLED. Every other property of a passing run is a theorem above. The library's
induction theorems take an operator as a parameter, which the provers cannot
instantiate; what recurses or counts here (`AfterItems`, sums and maxima over a table,
cardinalities) gets by with a smallest counterexample or an injection. The modules
declare no RECURSIVE operators.

## 7. Not modelled

| What | Why |
|---|---|
| parsing, field lengths, status codes, wording | no state depends on them beyond the answers that are modelled |
| `datetime`'s range | an overflow is one cause of `Abort` |
| power loss with `synchronous=NORMAL` | may take back commits that were answered; the crashes modelled are those of the process |
| three or more requests that mutually overlap, in `System` | one slow request covers every overlap of two; `concurrent` has two workers, and its theorems any number |
| profile filters of the snapshot script, a second source or boot in `System` | the filter only makes the listed sessions fewer; several sources and boots are in `serial` |
| identifiers reused after a reboot without `boot_id` | the documentation does not say what should happen |
| `last_seen_at`, `last_used_at` | stamps nothing reads but the listings; overlapping requests may set them back |
| registration under a name that is being registered | allowed by the model as by the schema, and no property depends on names |
| downgrades, offline SQL | nothing in the repository runs them |
| nginx, configuration, the health endpoint, the installer's file handling, the key of the query API | they change no state of the system |

## 8. Plan

Done: the ingestion core and its two abstract specifications, `System` with overlapping
requests and its liveness, `LogonAlerts`, `Provisioning`, `SchemaMigration`, `Deployment` and `Queries`,
and the theorems of section 6: every safety and action property of a passing run is one,
and so are both refinements. Left:

1. A second source in `System`: snapshots of two services of one router share the
   router's mark. `SysInv` already speaks of the own source only.
2. A second boot in `System`, once the intended treatment of reused identifiers is known.

## 9. Running it

    tlc -workers 2 -config IngestionRace.cfg MCIngestion.tla
    tlc -workers 2 -config IngestionSerial.cfg MCIngestion.tla
    tlc -workers 2 -config System.cfg MCSystem.tla
    tlc -workers 2 -config LogonAlerts.cfg MCLogonAlerts.tla
    tlc -workers 2 -config Deployment.cfg MCDeployment.tla
    tlc -workers 2 -config Queries.cfg MCQueries.tla
    tlc -workers 2 -config ResentSnapshot.cfg MCIngestion.tla    # a counterexample
    for m in Ingestion Lifecycle Effects Serial System LogonAlerts Deployment Queries
    do tlapm ${m}Proofs.tla; done    # SerialProofs takes some minutes
