# ConfDock: TLA+ models and proofs

ConfDock is a self-hosted service that keeps configuration files as immutable
revisions and serves one of them per project through stable URLs. It is a Rust
service (axum, sqlx, SQLite in WAL mode), a core library for source-preserving
edits (also compiled to WASM) and a React page. This directory holds TLA+ models
of the parts whose correctness depends on the order of events, and of the
algorithms on sources that every edit and every difference rests on, the TLC runs
that check them on small instances, and proofs for every instance where they exist.

## Inventory

| Part | State | Operations | What is hard |
| --- | --- | --- | --- |
| Projects and revisions (`storage.rs`, `routes/projects.rs`) | tables `projects`, `config_revisions` | create, get, list, save, publish, rename, delete, list/get/diff revisions | stale pointers of pages, lost answers, cascades |
| Stable URLs (`storage.rs`, `routes/tokens.rs`, `routes/public.rs`) | table `access_tokens` | create, list, edit, revoke, purge, fetch | a fetch is two statements; forms edit what they listed earlier; expiry |
| Pool and transactions (`storage.rs`, `state.rs`) | 8 connections, open transactions, diff permit | raw BEGIN / COMMIT / ROLLBACK, `execute(pool)` | cancellation at an await, busy timeout, failed statements, crashes |
| Public address (`routes/settings.rs`, `state.rs`) | `instance_settings` and a copy behind an RwLock | read, update, use in a new link, restart | two places to change, cancelled between them or while the first is under way |
| Sessions (`auth.rs`, `routes/session.rs`) | `admins`, `sessions`, back-off, Argon2 permits | sign-in, sign-out, change password, CLI password, authenticate, cleanup | state read before an await and used after it |
| Editor page (`web/src/state/useProject.ts`) | project, working bytes, flags, mutation gate | load, edit, save, publish, rename, delete, route change | late and reordered answers, render before effect |
| History panel, stable URL dialog (`web/src/components`) | lists, serial numbers, busy token | list, page, detail, diff, token edits | as the editor page |
| Startup (`main.rs`, `state.rs`, `auth.rs`) | migrations, public address, administrator | open, migrate, bootstrap, `admin init`, `admin set-password`, listen | several processes on one database, kills between two statements |
| Configuration (`config.rs`) | file, environment, command line | pick each setting, refuse | four sources, one exception |
| Source-preserving edits (`confdock-core`), WASM bridge, text encoding (`bytes.ts`) | none | find a span, replace it, decode and encode | mark, line endings, blanks, escapes, repeated keys |
| Line diff (`diff.rs`) and its decoder (`httpApi.ts`) | none | count, script, hunks, check | boundaries, limits |
| Assets, DTOs, other screens, scripts | none, or files | encode, show, package | sequential |

The parts meet in few places. Pages and subscribers send HTTP requests; every
handler works on the pool; links are built from the copy of the public address
under its read guard; every management request passes `authenticate`; the page
remembers a pair of revision pointers and sends it with each write.

Per part, what makes it correct:

* projects: a page never overwrites a draft or a served version it has not seen;
  history is one line; subscribers only move forward; nothing is half written;
* stable URLs: a fetch answers with a version that was served while it ran; a
  revoked token stays revoked; nothing outlives its project;
* pool: a request is all or nothing, a save or publish that was answered is
  durable, and every request ends, whoever was cancelled;
* public address: memory and SQLite agree, links use the address in force, unless
  an update was cancelled on the way;
* sessions: a change of password revokes the others, a session never comes back;
* editor: late answers never reach another project, never take pointers back,
  and only the answer of an accepted save replaces what is being edited;
* startup: whatever was interrupted, what serves has the whole schema, an
  administrator and the stored address, and the service comes up again;
* configuration: the strongest source wins, and no text that is not a setting;
* edits: one value changes and nothing else, an edit can be undone to the byte,
  and a source that can be saved stays so unless it grows too large or nests too deep;
* differences: the page accepts every one of them, and they lead from the one
  revision to the other;
* history panel: one stretch of the history with nothing missing or twice,
  whatever moment each page is of; details and difference of the selection.

## Modules

| Module | Models | Remarks |
| --- | --- | --- |
| `PublishedLog` | what a project promises | abstract: an append-only log and a served position |
| `RevisionStore` | projects, revisions, pages | one action per handler; implements `PublishedLog` |
| `SubscriptionTokens` | tokens, forms, fetches, clock | extends `RevisionStore`, takes its actions as they are |
| `TxPool` | statements, connections, permits | the handlers of one project opened up |
| `PublicUrl` | settings row, RwLock, link creation | |
| `Sessions` | password, sessions, throttle, permits | |
| `ProjectEditor` | the page and its calls | the service seen from outside |
| `RevisionHistory` | the history panel, its calls, the listing they page through | revisions are their numbers, see below |
| `SourceText` | bytes, mark, lines, spans, JSON pointers | operators |
| `IniSource`, `JsonSource`, `MihomoSource` | the adapters of the line format, sing-box and Mihomo | operators; extend `SourceText` |
| `LineDiff` | lines, limits, hunks; the decoder of the page | operators |
| `SourceEdits` | the editor's way from one revision to the next | extends the five above |
| `Configuration` | which source gives a setting, which starts are refused | operators |
| `Startup` | processes on one database | extends `Configuration` |
| `MC*` | symmetry sets, drafts and commands for TLC | |
| `*_proofs` | | the theorems about the module of that name, see Proofs |

**RevisionStore.** `project` and `revision` are the two tables, `minted` the
UUIDs drawn so far, `view[pg]` the pointers a page last received. A handler that
opens `BEGIN IMMEDIATE` is one action; that this is right is the business of
`TxPool`. Where the code answers, the page may or may not receive the answer
(`Answer`). Requests the code refuses change nothing, so they are stuttering
steps. Names, target ids, file names and validation results that no decision
depends on are left out, the time stamps too.

**SubscriptionTokens.** A fetch reads the clock (`FetchBegin`), selects bytes
through the join (`FetchSelect`) and stamps `last_used_at` (`FetchStamp`, or
`FetchFail` when SQLite is busy). A form remembers the name and expiry it showed;
`UpdateToken` compares both, as the PATCH does. `floor` and `delivered` exist
for the properties only.

**TxPool.** `conn[c]` is the transaction open on a pooled connection and the
database as it sees it, `committed` the database. A request walks through the
statements of its handler. `Cancel` drops it anywhere: its connection goes back
with whatever transaction is open, because the service sends `BEGIN` itself and
sqlx does not know of it. A `COMMIT` that fails ends the same way. `Recycle` is
sqlx closing an old idle connection. `acked` remembers what was answered with
success. Deadlock freedom comes with the liveness property: a request that waits
for a connection, a lock or a permit always ends.

**PublicUrl.** `queue` is the fair queue of tokio's RwLock. A request that is
cancelled gives its guard back at once. If it is an update that awaits its `UPDATE`,
the statement may already be with the thread sqlx runs the connection on, which
nothing stops: the request becomes `late`, and `LateStore` lands its address at any
later time, behind the back of a link that holds a read guard, between the `UPDATE`
and the assignment of another update, or after both. `left` is a transaction that a
dropped request of another handler left on a connection of the pool (`TxPool`);
an `UPDATE` on that connection joins it (`StoreJoins`) and is answered with success
without ever being durable. `abandoned` says that the last `UPDATE` was one of these:
of a request that is gone and never assigns, or joined. Nothing else takes memory and
SQLite apart. One process serves, and the commands of the CLI never change an
address that is stored.

**Sessions.** A hash is the password it was made of, and verifying is comparing.
`survivors` and `held` are for the properties. The SELECT and UPDATE of
`authenticate`, the read of the hash, the wait for a permit, Argon2 and the
transaction are steps of their own. `orphans` counts Argon2 tasks whose request
is gone. A password of a request is chosen when it first matters (`ReadHash`),
that of a change when it is written (`Commit`).

**ProjectEditor.** `fresh` stands for the generation counters and the `live`
flag: it is cleared when the effect of a route runs. `Render` and `Effect` are
two steps because answers may be delivered in between. `Elsewhere` is every
other page.

**RevisionHistory.** A revision stands for its number: history has no gaps and
one line (`LinearHistory`, proved of `RevisionStore`), which makes `ParentOf` and
the cursor arithmetic of the service right. The three serials of the panel become
`active`, the call that owns each (None after a mere increment): comparing a
remembered serial with the current one asks whether the call is still the owner.
`diffRequestKey` is `view.key`. A call is sent, served in one snapshot (`Serve`)
or lost or garbled (`Fail`), and delivered whenever, so that `Elsewhere` may save,
publish and delete between any two of these. `Decodes` is what the decoder of a
page demands: the model has it refuse a page of the service when it would, and
`GivesUpOnlyWhenGarbled` says that it never needs to. The panel that is unmounted
receives nothing more and is not modelled; the two ways the panel is refreshed
(a new `refreshKey`, Retry) are one action.

**SourceText and the adapters.** A source is a sequence of letters: the three
bytes of the mark, CR, LF, a few ASCII letters, and words that the code compares
as a whole (`mp` is `mixed-port`, `null` a literal). Spans are half open and count
from 0 as in the code; positions in a text count from 1. The scanners of the code
walk a cursor over the source; the operators say which line belongs to which
section, where a value begins and ends, and where a string ends. serde_json and
yaml-rust2 are external: `IsJson` is as strict as the scanner over these letters and has
serde_json's recursion limit (`MaxDepth`, 128 in the code),
and `IsYaml` with its helpers reads block mappings with scalars of one line, their
comments and quoted keys. An edit that is refused is `<<>>`. Loon and Shadowrocket
have the options of Surge and are not repeated. `JsonSource` is recursive as JSON
is, so no theorem can use it.

**LineDiff.** Which edit script the crate `similar` finds depends on its deadline:
Myers within two seconds, a coarser one after that. `Scripts` is therefore every
common subsequence of the two lists of lines, and the properties hold for each of
them. Rows, hunks, counts and limits (bytes, lines, rows) are those of
`build_revision_diff`; a letter stands for one byte;
`DecodesDiff` is what the page demands before it shows anything. The content hash
is the source itself.

**SourceEdits.** One project of one target. `StructuredEdit` is a field edit of
the page through the adapter, `RawEdit` the text editor with the mark and the line
endings it puts back, `Save` an accepted save (`Savable`: within
`max_config_bytes` and valid), `Elsewhere` a save of another client after which
the page loads the project again. What becomes of a stale page is the business of
`RevisionStore` and `ProjectEditor`. `Readings` is how a reader of the source
would find its values, by the same rules without spans.

**Configuration, Startup.** A source of settings is a function of the names it
gives. One process is the service under systemd or Docker, the others are what
operators type: `serve`, `admin init`, `admin set-password`. `List` and `Migrate`
are sqlx's migrator, which is external: it reads the applied migrations once and
applies the others one transaction at a time, and its lock does nothing on SQLite.
`Fault` is a kill or a failing statement, anywhere. `created` remembers that a
process reported the administrator as its own creation. `config check`, which
opens nothing, and the permissions of the files are left out.

In each module the definitions under "Mistakes" are not part of the
specification. Each is the form a plausible bug would give to one definition;
putting it in that place makes TLC find a property violated, which is how we
know that the property can fail.

## Runs

| Run | Instance | Shows |
| --- | --- | --- |
| `RevisionStore.cfg` | 2 projects, 5 revisions, 2 pages, 2 sources, 2 names | `TypeOK`, `PointersOwned`, `LinearHistory`, `ServedCheckImplied`, `ServedAdvances`, refinement of `PublishedLog` |
| `SubscriptionTokens.cfg` | 1 project, 3 revisions, 2 pages, 1 token, 1 subscriber, clock 0..1 | tokens stay owned, fetches are linearizable and monotone, revocation is final |
| `TxPool.cfg` | 2 connections, 2 requests, 2 revisions | all or nothing, durable answers, snapshot diffs, one diff task, every request ends |
| `TxPoolAbandoned.cfg` | the same | **violated**: stable URLs serve only what was committed |
| `PublicUrl.cfg` | 2 addresses, 3 requests | memory and SQLite agree, and links use the stored address, unless the last `UPDATE` was of a cancelled request or joined a transaction left open; links always use the copy; every request ends |
| `PublicUrlAbandoned.cfg` | 2 requests | **violated**: memory and SQLite always agree |
| `Sessions.cfg` | 2 passwords, 2 sessions, 2 requests, 1 permit | changes revoke the others, admission by the right password, sessions only decline, every request ends |
| `SessionsHashWork.cfg` | 3 requests, 2 permits | **violated**: at most two Argon2 operations at once |
| `ProjectEditor.cfg` | 2 projects, 2 calls, 2 sources, 2 revisions | route isolation, pointers, publishes, edits |
| `SourceEdits.cfg` | 21 drafts of 4 targets, 1 field edit, 2 revisions; 30 letters a source, 50 two of them, 2 levels of nesting; 9 lines, 5 rows, 1 line of context | edits are local, can be undone and keep a source savable, with the exceptions the properties name; differences are accepted, rebuild the new revision and keep their limits |
| `Startup.cfg` | the service, 1 operator with 15 commands, 2 launches, 1 fault, 3 migrations, 2 databases | one creator, nothing half started serves, the strongest source wins, the service comes up |
| `RevisionHistory.cfg` | 3 revisions, pages of one, 3 calls | the list is one stretch, details match the selection, spinners end, the panel gives up only on garbled answers |

Why the bounds are enough. Two pages are what a stale pointer takes, and five
revisions let one project be saved three times past a deletion of the other.
One token and one subscriber suffice for a fetch against every writer, as tokens
do not interact. Two requests on two connections let one abandon a transaction
while the other waits for the lock, or gets that very connection. Three requests
let a reader, a writer and a cancelled waiter queue for the RwLock. Two sessions
are needed for crossing password changes; with one permit two requests compete
for it as three do for the two of the code. Two calls put one late answer beside
a newer one. Three calls let a page, a detail and a difference be late at once,
and pages of one revision make a list of three pages of different moments.

The drafts of `SourceEdits.cfg` are chosen one per case of the code: with a mark
and without, LF, CRLF and no last newline, an empty value, blanks and comments
around one, a repeated key and section, a section of another spelling, a JSON key
with a slash, an escape or a duplicate, a port with a comment glued to it, behind a
quoted key, out of range, or indented. One context line and five rows make
differences of two hunks, adjacent ones and too large ones of such sources. The longest draft has 30
letters, so an edit can outgrow the limit of a source, and two drafts that of a
difference; objects may hold objects but no deeper ones, so an array put into the inner
one nests too deep. Each of these cases occurs in the run: without its exception the
property it belongs to is violated. One
operator beside the service is what it takes for two processes to race at each
statement; two launches let it come back; three migrations let one process be two
behind another, or be killed in the middle.

`RevisionStore.cfg`, `SubscriptionTokens.cfg`, `SourceEdits.cfg` and `Startup.cfg`
switch deadlock checking off: a store whose identifiers, bounded in the model, are
used up may have nothing left to do, nor has an editor without edits left, or a
service that is up once the operator has used up the launches.

**Fairness.** Liveness is stated where the runtime justifies it: tokio polls
every handler that can go on (weak fairness per request), and its semaphore and
RwLock hand out permits in the order of the requests (strong fairness of
`TakePermit` and `TakeSlot`; an explicit queue in `PublicUrl`). A process that starts
goes on until it waits for a person, and systemd (`Restart=on-failure`,
`deploy/systemd/confdock.service`) or Docker (`unless-stopped`,
`deploy/docker/compose.yaml`) starts a service that has ended again: weak fairness of
each `Step` and of `Supervise`. A person at a prompt may never answer. Nothing is
assumed of clients, cancellations, crashes or the clock. The editor has no
liveness property: a fetch of the browser may hang for ever.

## Findings

1. `TxPoolAbandoned`: `begin_immediate` sends a raw `BEGIN` on a pooled
   connection. A handler that is dropped before `finish_transaction` leaves it
   open, and the next request on that connection reads what it wrote, although
   ADR-005 promises the old served bytes until Publish succeeds. `TxPool` shows
   as well what still holds: nothing uncommitted becomes durable, no answered save
   or publish is lost, and every request ends. Autocommit statements (a deletion, a
   settings update, a session) that run on that connection join the transaction and
   are lost with it although they were answered; `PublicUrl` has this for the
   settings update, and it is not modelled for the others.
2. `PublicUrlAbandoned`: a settings update that is cancelled once its `UPDATE` was
   sent and before the assignment leaves service-info behind SQLite until the next
   update or start. In the trace the `UPDATE` has ended; it may as well land after
   the guard is free, over the address of a later update, which `PublicUrl.cfg` has.
3. `SessionsHashWork`: the Argon2 permit is a local of the handler and the work
   a blocking task, so cancelled requests let more than two operations run. The
   diff path moves its permit into the task and does not have this
   (`OneDiffAtATime`).

Other behaviours the models have, which contradict no sentence clearly enough, or
which no property states:

* `save()` (`useProject.ts:247`) replaces the working bytes when its answer
  arrives, and with them what was typed since it was sent; Publish does not
  (`EditsOutliveAnswers` has the exception).
* Two sessions that change the password at once may both end up revoked, and two
  renames answered in the other order leave the older name on the page.
* The comment at `state.rs:33-34` relies on a migration lock of SQLx between
  processes; for SQLite that lock does nothing. A process that has listed the
  migrations before another applied one fails with `StartError::Migration`.
  `ServiceComesUp` shows that being started again is enough.
* `CONFDOCK_DATABASE_URL` wins over `--data-dir` (`config.rs:162`), while
  `docs/reference/cli.md` gives the command line the highest priority;
  `StrongestSource` has the exception.
* The port scanner of Mihomo takes `7#x` for a decimal and a comment, where YAML
  reads a string; validation refuses that source, an edit repairs it. A port
  written `+7893` is accepted and cannot be edited afterwards. A value of the line
  format that is replaced by one with `#` or `;` cannot be edited again.
  `EditUndone` names both.
* `SingBoxAdapter::apply_edit` parses a replacement by itself (`json.rs:113`) and never
  the result, while serde_json reads a source as a whole (`json.rs:38`) and gives up at
  128 levels. A nested replacement deep in a source is accepted, and the result can
  neither be saved nor be edited, so that only the text editor undoes it. Nor does an
  edit look at the size limit of the service. `EditKeepsValid` and `EditUndone` name
  both where they apply.
* A member of a JSON object that itself is repeated can be edited as long as the
  whole path is unique. A section header with a comment behind it is not a header.

## Proofs

Every safety property of the passing runs is a theorem, for every value of the
constants, except those of `SourceEdits`; every liveness property stays with TLC.
Each `*_proofs` module states an inductive invariant (`IInv`, or `TokenIInv`), shows
that it holds initially and survives every action, one lemma per action or per shape
of a step, and derives the theorems from it. Hardly any property is inductive as
it stands; what had to be added says why the code is right.

**RevisionStore.** `TypeCorrect`, `PointersAlwaysOwned`, `HistoryAlwaysLinear`,
`ServedAlwaysAdvances`, `ServedCheckAlwaysImplied`, `StoreImplementsLog`.

* `PointersOwned` is lost if a new revision takes the id of a stored one, so
  `RowsMinted` (every stored row has a minted id) is part of the induction; `TypeOK`
  needs `PointersOwned` to know that a parent or a number is read from a row;
  `LinearHistory` needs that the current revision exists and has the highest number.
  The steps are grouped by what they do to the tables (`CreateShape`, `SaveShape`,
  `DeleteShape`, `QuietShape`); `StepShapes` says that every step has one.
* `ServedCheckAlwaysImplied`: a client that sends back a pair of pointers the
  service once answered never receives `publish.conflict`: `publish_project_inner`
  compares the current pointer first, and the served pointer cannot have moved
  without arriving at it. The second check only meets pairs that no answer ever
  held, as the made-up identifier of the test in `tests/api.rs`. It rests on
  `ViewsMinted`: a page cannot know the identifier of a revision still to come.
* `StoreImplementsLog` is the refinement of `PublishedLog` (which has no fairness).
  The length of the log is the number of the current revision, and the log holds
  the bytes of each number, so `NumbersDense` (no number up to the current one is
  missing) is needed to know that saving appends and changes nothing before the end;
  `ViewsOwned` (what a page remembers of a live project leads to revisions of it)
  to know that the page believes in a log that once was. A publish that finds nothing
  to move maps to a read, and a rename to a stutter. `ended` maps to the deleted
  projects, which are told from the others by their minted ids: without
  `IdAssumption` a revision id could end a project that never began.

**SubscriptionTokens.** `TokensAlwaysOwned`, `FetchesAlwaysLinearizable`,
`FetchesAlwaysMonotone`, `RevocationsAlwaysFinal`. Every step of `TokenNext` is a step
of `Next` for the tables of `RevisionStore` (`StepIsStoreStep`), so all of its theorems
carry over. `FetchFine` chains delivered, floor, selected and served number of a fetch;
`TokensIssued` keeps a token that is yet to be issued from having been delivered through.

**TxPool.** `AlwaysAllOrNothing`, `AnswersAlwaysDurable`, `DiffsAlwaysReadOneSnapshot`,
`AlwaysOneDiffAtATime`, for every number of connections and requests. What a `COMMIT`
stores depends on whose transaction it is: `ReqFine` says what the connection of a
request contains at each statement, `ConnsOwned` that nobody else holds it,
`OneWriter` that SQLite has one writer. A transaction that a dropped request left
behind is never committed, because `begin_immediate` fails on it, and `ReqFine` says
that of every request that goes past `begin`. `TasksHavePermit` follows the diff
permit into the blocking task. `AnswersAlwaysDurable` is about saves and publishes,
which run in a transaction of their own or not at all; it says nothing of autocommit
writes, which may join an abandoned transaction and be rolled back after their answer.

**PublicUrl.** `AlwaysInSyncUnlessAbandoned`, `LinksAlwaysUseCurrentUrl`.
`GuardsExclude` is the RwLock, shown from the model's queue rather than assumed;
`ReadersHaveCopy` says what a link has read, and `StoredByWriter` that what an update
is about to assign is what SQLite holds. The `UPDATE` of a request that is gone obeys
no guard, so `StoredByWriter` holds only while `abandoned` is false; `AssignCopy` needs
it, and the next `UPDATE` of a live request makes it true again because the writer is
alone. The theorems keep the exception in their statement: the copy is not what SQLite
holds after such an `UPDATE`, whoever holds the guard.

**Sessions.** `ChangeAlwaysRevokesOthers`, `AlwaysAdmittedByPassword`,
`SessionsAlwaysOnlyDecline`. `HeldSinceRead` is what a request that waits for a
permit and for Argon2 knows: the hash it read was the administrator's at a moment of
its own; `Routed` which statements it may come to and that it has a session.

**ProjectEditor.** `PageAlwaysShowsItsRoute`, `PointersAlwaysNeverGoBack`,
`AlwaysPublishesWhatWasShown`, `EditsAlwaysOutliveAnswers`. An answer is about some
moment of the past (`Past`), and the service only goes on from there. `Awaited` says of
each call of this generation that it is of the mounted route, that loads meet an empty
page (`OneLoad`) and that a save or publish owns the gate while the pointers it sent
stay on the page; `PublishNamesItsBytes` ties the bytes a publish was asked for to the
revision whose id it sends.

**Startup.** `CreatorIsAlwaysRight`, `AlwaysServesWhole`, `AlwaysStrongestSource`.
`Knows` is what a process remembers of a database that others write to, and stays true:
the schema only gains migrations, the address is stored once, an administrator is
created once and never removed. `OneCreator` holds because the INSERT decides by the
row itself (`ON CONFLICT DO NOTHING`), whoever read "no administrator" before.

**RevisionHistory.** `ListAlwaysOneStretch`, `DetailsAlwaysOfSelection`,
`SpinnersAlwaysHaveCalls`, `AlwaysGivesUpOnlyWhenGarbled`. `PageFine` says that an
answered page is a stretch of the history as it was, beginning below its cursor;
`OwnerFine` what the panel keeps for the call that owns its list, so that the page
fits when it comes; `Known` that the served revision has not gone back between two
pages, without which two badges could appear; the first conjuncts of `ListFine` that
every cursor seen or asked for lies at or above the end of the list, so that the next
one is new. No page of the service is ever `undecodable`.

**Assumptions.** They concern constants only, are named in the modules that declare
them, and TLC evaluates them on every run.

| Assumption | Says | Because |
| --- | --- | --- |
| `SentinelAssumption`, `TokenAssumption`, `UrlAssumption`, and the None of the others | NULL, a missing row or an empty variable differ from every value; the public address of a first start is an address | types of Rust and TypeScript; `ensure_public_url` |
| `IdAssumption` | ids of projects are not ids of revisions | both are drawn by `Uuid::new_v4`, which the model lets draw nothing twice |
| `PoolAssumption`, `SessionsAssumption`, `EditorAssumption`, `HistoryAssumption` | counts are numbers, there is a permit for Argon2, a page of the history holds a revision at least; the empty editor is no source | constants of the code; they cannot be zero |
| `StartupAssumption`, `ConfigurationAssumption` | what is typed is one of the three commands; `--listen` is an address; there is a default for each setting, and it is valid | clap parses `--listen`; `config.rs` |

A bound of a model (`MaxRev`, `MaxTime`, `MaxOrphans`, `MaxLaunches`, `MaxFaults`) is a
constant too, so the theorems hold for every bound; so do those about a code limit for
every limit.

**Only model-checked.** Liveness (`EveryRequestEnds` of three modules,
`ServiceComesUp`), which needs fairness and ENABLED. The six properties of
`SourceEdits`: they are about what scanners and the JSON grammar compute for a source,
`JsonSource` is recursive as JSON is, and proving them for every source takes an
induction over the source; TLC checks them for the drafts of the run. The
disagreements under Findings, which are runs that fail.

Two things came up while proving. The refinement did not hold for every choice of the
constants until ids of projects and of revisions were kept apart, as the service keeps
them. And the deeper parts of `RevisionHistory` hold only because revisions are
immutable and the served pointer never goes back, which is `ServedAlwaysAdvances` of
`RevisionStore`; in `RevisionHistory` it is built into `Elsewhere`.

## Not modelled, and the plan

Next, in this order:

1. Proofs: lemmas about `LineDiff` (the counts and rows of a difference from its
   script) and about `Configuration` as statements of their own; that what
   `RevisionHistory` and `ProjectEditor` let others do to a project are steps
   `RevisionStore` has.
2. `TxPool`: creation with its three statements; deletion, tokens and sessions as
   statements that join an abandoned transaction; `save()` and the text typed meanwhile.

Left out for good: detection and schemas of targets, the wording of diagnostics,
JSON numbers beyond integers, YAML beyond block mappings, what a setting accepts as
text, encodings of answers, static assets, packaging and CI, which are sequential
and stateless or belong to libraries; the backup scripts work on a stopped
container. The screens other than the editor send one request and show its answer.
`ServedUrlDialog` orders its answers with a serial per list, a generation per render
and one busy token, which are the mechanisms of `RevisionHistory` and of the gate of
`ProjectEditor` once more; its requests are the actions of `SubscriptionTokens`, whose
`form` is the dialog's: an edit is refused when the settings changed since it opened.
