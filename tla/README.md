# The skills hub in TLA+

Models, model-checking runs and machine-checked proofs about agentenv-skills-hub: a registry of
signed skill artifacts behind an HTTP API (`crates/hub-api`), with its metadata in Postgres
(`crates/hub-index`) and its artifacts on a file system, an S3 endpoint or an OCI registry
(`crates/hub-storage`). `PROJECT.json` ties every definition to source lines, every property to a
run, and every hazard to the properties that cover it.

## 1. Inventory

| component | state | operations | talks to |
|---|---|---|---|
| `PgHubRepository` (`hub-index/src/postgres.rs`) | tables `skills`, `skill_versions`; a pool of connections | `insert_version` (one transaction of 4-5 statements), `yank_version`, `unyank_version`, two index queries, lookup by name | Postgres through `sqlx` |
| `HubService` (`hub-core/src/service.rs`) | none of its own, `allow_unsigned` | `publish`, `yank` | repository, artifact store, trust verifier, webhook queue |
| write handlers (`hub-api/src/handlers.rs`) | one future per request | `publish_version`, `yank_version`, `unyank_version` | `HubService`; `unyank_version` calls the repository directly |
| read handlers (same file) | one future per request | index, lists, search, download, `.sig` download | repository, artifact store |
| authorisation (`hub-core/src/auth.rs`, `auth_from_headers`) | none | `can_publish`, `can_yank`, `can_read`, `can_manage_webhooks` | |
| validation (`hub-core/src/validation.rs`) | none | namespace, name, version, digest, path, url | |
| trust (`RuntimeTrustVerifier`, `hub-attestation`) | none | Ed25519 over manifest and digest; shape of a Sigstore bundle | |
| artifact stores (`RuntimeArtifactStore`, `hub-storage`) | none; the store itself belongs to somebody else | `fetch_verified`, `verify_artifact` | file system, HTTP |
| webhook queue (`RuntimeWebhookQueue`) | a vector in memory | `enqueue`; nothing reads it | |
| webhook delivery (`hub-webhooks`) | none | rendering, signing, `retry_delay`; nothing calls it | |
| search (`hub-search`, `filtered_search_index`) | table `skill_embeddings`, which nothing writes | lexical ranking with filter and limit, vector search | Postgres |
| migrations and process start (`hub-index/src/migrations.rs`, `0001_init.sql`, `main.rs`, `AppState::from_env`) | the schema, the advisory lock | `run_migrations`, then the configuration and the listener | Postgres |

A publish goes through all of them: headers become an `AuthContext`; the role, the request and
the unsigned gate are checked; the artifact is fetched and hashed (first await); the signature is
verified; the repository runs its transaction (several awaits); an event is appended to the queue;
the response is 201 with the stored record. A yank is the same without artifact and signature. A
download looks the version up by name, then fetches the artifact again and compares the digest
before a byte is sent.

What makes it hard:

* *Interleaving.* `insert_version` reads, then writes. Any number of publishers, yanks and
  unyanks run at once, over a bounded pool, in READ COMMITTED.
* *Failure between statements.* Any statement may fail; an error return answers the caller while
  the ROLLBACK is only queued, with lock and connection still held. A COMMIT may take effect and
  its acknowledgement be lost.
* *Statements that come late.* A COMMIT or UPDATE that was sent is not called back when its connection
  breaks, its caller leaves or its process dies. Postgres goes on with it, now or when the lock it
  waits for is free, perhaps after the caller got a 500 and after others have acted on the version.
* *Cancellation.* The web framework drops a handler's future when its client disconnects, at
  whatever await it has reached.
* *Crash.* The process dies: its sessions linger in Postgres until they are aborted, the queue of
  events is gone, the tables stay.
* *A store nobody here controls.* The artifact checked at publication may be another one, or
  missing, when it is served; it may change between the two requests of an OCI fetch or while a file is
  read; and it may accept a connection and never answer.
* *Several processes.* Each of them runs the migrations when it starts, beside others that start and
  others that already write to the tables the script locks.

What makes each component correct:

* repository: its transactions behave as one-step operations; a version once stored is final but
  for its yank mark; callers are told the truth; the tables agree; every call ends.
* service: only authorised, valid publications that something vouches for, and whose artifact was in the
  store, become rows; 201 survives a restart; the queue has exactly one event per success; nothing is
  written for a client that was refused, and nothing new is begun for one that has left or got a 500.
* catalog: what is served was published, in public, with the digest that was listed, and its signature
  fits.
* artifact stores: a fetch is one read at one moment, whatever happens between its requests.
* search: the answer is the best matches, all of them unless limited, a place for each.
* start: the schema is created whole and once, a process that serves has it, and every start and every
  write ends.
* validation: an accepted path does not lead out of the skill.

## 2. Modules

| module | what it is |
|---|---|
| `Registry` | what the tables promise: `Publish` and `Mark` in one step each |
| `AtomicCalls` | what a call promises its caller: it takes effect at one moment between call and answer, and the answer says what that moment found; only a failure leaves open whether the moment has been, is to come, or never comes |
| `PgRepository` | `PgHubRepository` at the grain of SQL statements; implements `Registry` and `AtomicCalls` |
| `Auth` | `AuthContext`, `can_publish`, `can_yank`, the headers they are built from |
| `Validation` | the paths of a manifest, and what accepting one is for |
| `Digest` | digest strings and their verification, used by `HubService`, `Catalog` and `ArtifactStore` |
| `HubService` | the write handlers, `HubService`, trust verifier and queue over an instance of `PgRepository`; implements `AtomicCalls` for its clients |
| `ArtifactStore` | `RuntimeArtifactStore` and its file, S3 and OCI stores, request by request, over contents that change |
| `Listing` | the queries over the two tables: index, similar search, lookup by name |
| `Catalog` | index, similar search, artifact and signature downloads over `Registry` and a changing store |
| `Search` | the order of lists, `lexical_rank` and `filtered_search_index` over the states of `Registry` |
| `Startup` | concurrent process starts and their migrations, beside writers, at the grain of table locks |
| `MCRegistry`, `MCPgRepository`, `MCHubService`, `MCCatalog`, `MCArtifactStore` | instances for TLC (`Startup` needs none; `MCRegistry` checks `Search` too) |
| `RegistryProofs`, `AtomicCallsProofs`, `SearchProofs`, `PgRepositoryProofs`, `HubServiceProofs`, `CatalogProofs`, `ArtifactStoreProofs`, `StartupProofs` | theorems and proofs |

`HubService` uses `PgRepository` through `Repo == INSTANCE PgRepository WITH Calls <- RepoCalls`,
`Catalog` uses `Registry` the same way. The chain is meant to be read downwards: `UsesRepository`
says that the service behaves, for the repository, as a caller `PgRepository` allows, and
`ImplementsRegistry` says that `PgRepository` behaves as `Registry`; so `Catalog` and `Search` may use
`Registry` for the tables. Both links are proved, and their composition too (`ServiceIsRegistry`).
`Registry` speaks of the tables only; `AtomicCalls` adds the callers, and both `CallsAreAtomic` (a call of
the repository) and `RequestsAreAtomic` (a request to the service) are refinements of it. `HubService` and `Catalog` read the artifact store in
one step; `ArtifactStore` shows why they may (see below).

### PgRepository and the code

A task is one call. `stage[t]` is the statement it will run next, or has sent:

| stage | code (`postgres.rs`) | action |
|---|---|---|
| acquire | 49 `pool.begin()`, or the pool access of 175 and 204 | `Acquire` |
| upsert | 50-67 `INSERT INTO skills .. ON CONFLICT DO UPDATE` | `UpsertSkill` |
| select | 69-86 the existing version, if any | `SelectVersion`, `Settle` |
| insert | 88-128 `INSERT .. ON CONFLICT DO NOTHING` and the re-read | `InsertVersion`, `Settle` |
| latest | 130-136 `UPDATE skills SET latest_version` | `UpdateLatest` |
| commit | 84, 126, 138 | `Commit`, `CommitUnacknowledged` |
| rollback | the drop of `tx`, the end of a dead session | `Rollback` |
| execute | 164-178, 195-207 | `Execute`, `ExecuteUnacknowledged` |

`Install` (all effects of a COMMIT) and `Update` (the one statement of yank and unyank) change the
tables; uncommitted writes are in `tx[t]`. `lock[k]` is the row lock of a skill: the upsert locks
the row it inserts or updates, and the unique index makes a second inserter wait, until the
transaction ends. `IndexEntryFree` is the same wait at the unique index of `skill_versions`; that
it is never needed follows from `OneWriterPerSkill`. `pool` is who holds a connection.

`Fail` is a failing statement, a pool that gives no connection, a connection that breaks, or a dropped
future: the caller has its failure (or is gone), and the transaction is dropped. `Crash` ends the process
and every session's caller with it. Neither decides what becomes of a statement that was sent (`Sendable`: the
upsert, which may wait for a row lock, COMMIT, and the UPDATEs of yank and unyank). Such a task keeps its
stage, without anybody who waits for it (`Awaited`), and any number of steps of others later Postgres
runs the statement (`Commit`, `Execute`; after an `UpsertSkill` comes the ROLLBACK) or it turns out
never to have arrived or fails (`Vanish`). A failed call gives its connection back when its session is through,
or loses it at once (`Leave`); a dead process has none. The locks of a transaction go with its session.
`CommitUnacknowledged` and `ExecuteUnacknowledged` are the cases where effect and failure do coincide.

Left out because nothing tells them apart: `description`, `created_at`, `updated_at`, the uuid of
a skill row (its key stands for it). The uuid of a version row is the call that draws it. A manifest,
url, media type, signatures: one `payload`.

*Atomicity.* `CallsAreAtomic` maps every call to an atomic one. The moment of an insert that installs its
row is the COMMIT; that of an insert that meets a row is the SELECT, and of one that is refused too; that of
a mark is its one statement. A record that was met is returned only after another COMMIT, so between the two
the call has found its answer and not given it: `Met` is what it has found. A yank of that version may commit
in between, and the caller is then shown the mark of the earlier moment; the property says that this moment
still lies within its call.

For ok, conflict and not found, the moment lies between call and answer. A failure promises less, since the
code can promise no more: the moment has been, or will be, or never comes. `due` is the set of calls whose
moment may still come (`Due`: every call on its way, except one that has met a row and has nothing but the end of its transaction
to wait for). What is left of the promise is not nothing: whenever it comes it is one moment, with the whole effect, on the call's own
version, and a call that is no longer due stays so (`EffectsOnce`).

### HubService and the code

A task is one request. `phase[t]` is where its handler is: `verifying` at the await of
`verify_artifact`, `storing` at the await of the repository, then `replied`, or `gone` when the
client has left. `Receive` is everything before the first await (path name, headers,
authorisation, validation, unsigned gate, in the order the code has), `Verify` the artifact and
trust checks up to the repository call, `RepoStep` a step of the repository (or of Postgres, for a request that
is not served any more), `Finish` everything after its answer: the enqueue has no await that can suspend, so
event and response are one step. `Cancel` drops the future: in `storing` it becomes the abandoned call of
`PgRepository`, and what was sent stays sent. `Restart` empties the queue and crashes the repository;
whatever was served or had been answered before is `archived`, so that the queue can be compared with the
replies of the present process.

`enqueue` fails when the lock of the queue is poisoned (`state.rs` 217). That takes a panic while it is held,
i.e. in the one `push` done under it, which does so only when the vector cannot grow; this is left out.

`RowsArePublishable` says what vouches for a row (`VouchedFor`). A publish with a signature has it checked against
its own manifest and digest. One that shows a sigstore bundle only passes as well, and of the bundle the hub looks at
the shape: for such a row nothing here binds manifest or digest to a signer. That is what the code does and
no text in the repository says otherwise, so the property states it as it is.

`seen` is a history variable, read by no action: the publishes whose url has held contents of their digest
since they were received. It is kept by comparing contents (`Holds`), independently of `ArtifactVerified`, so that
`ArtifactsWereThere` says something about the check: no row without its artifact, which may be gone by the time of the row.

`RequestsAreAtomic` is the same promise to a client as that of the repository to its caller. `Known` is
what the handler will say (what the repository has found, or has answered and the handler has
not passed on yet); `Told` the response, by the meaning of its status: 201 and 204 are ok, 409 a conflict,
404 not found, 500 a failure. A request that is dropped, by its client or by a restart, ends `abandoned`.
After a 500, a disconnection or a restart a COMMIT or UPDATE may still take effect, and `OnlyOwedChanges` says
that nothing else may: a version changes only for a request with the right to, answered by nothing but a 500, and no
statement is begun for a request that is not served.

Signatures are ideal: a signature is the key pair, manifest and digest that were signed. A
digest names contents and has a spelling (lower- or upper-case), since the code
compares spellings in one place and contents in another; `Malformed` is what `validate_digest` refuses.
A path is the sequence of what stands between its slashes; `PathAccepted` is `validate_skill_path` with
the components `std::path` makes of it, `StaysInside` what a reader who follows the path observes. For
names, namespaces, versions and urls `WellFormed` is the set of strings that pass `validation.rs`.

`verifying` has no fair action: the HTTP clients of the stores are built without a timeout, so a request
may wait for its store for ever. `EveryRequestEnds` says that this is the only way not to end, and that
such a request holds neither connection nor transaction.

### Catalog and the code

`Index` is `compatibility_index` and `compatibility_index_for_namespace`, by the namespaces it is asked
for; `SimilarHits` are those of `PgVectorSearch`, whose only condition is `yanked_at IS NULL`;
`FirstNamespace` is the `ORDER BY namespace LIMIT 1` of `public_version_by_name`; `Lookup` and `Fetch` are
the two awaits of `db_artifact_response`. A client takes a hit (`Choose`) and later asks for its
artifact and, in a request of its own, for its signature (`LookupSignature`, before or after the
artifact); publishers, yanks and the owner of the store move in between. A signature is the key pair
and the digest it signs; that a stored one signs its own row is `RowsArePublishable` of `HubService`.

### Search and the code

A text is a sequence of integers (letters positive, their upper case negative, a blank 0), so that
lowering, trimming, prefix, infix and the order of strings are modelled by what they do. `Score` and
`Outranks` are the tiers and the tie-breaks of `lexical_rank`; `Answer` is `filtered_search_index`, which
ranks the entries (a stable sort: `Precedes` decides equals by their place), looks every result up in the
index again by name and version, and cuts at the limit; without terms it only cuts the list.
`Indexes` is every order in which an index may arrive: the queries and the sort leave entries with the
same name and version of two namespaces in either order. The properties are invariants of
`Registry`: in every state the tables can reach, for every query, scope and limit of the instance.

Where two namespaces share a name and version, a search of all namespaces shows the first of their
entries twice and the other never, since the lookup finds the first (`Found`). Nothing in the repository says
otherwise. `SearchFindsTheBest` covers these indexes too, with what is true of them: every place is due to a match
of its own and shows an entry of that name and version; where no other has them, the match itself.
What is better is said without scores (`AsGood`): the very name asked for, a name that begins with the query,
one that has it within, a description. Which version of a skill comes first is not part of it: the ranking
orders versions as they are written, 1.10.0 before 1.9.0, and no text says which one a limit should keep.

### ArtifactStore and the code

`Start` is `parse_artifact_pointer`, the dispatch by scheme and the checks each store makes before it
asks for anything; `ReadManifest` the first request of the OCI store with `first_layer_digest`, which
compares digests as they are written; `ReadBytes` the arrival of the bytes with
`verify_sha256_digest`; `Unavailable` any failure of a request. `ChangeStore` is the owner of the
files, objects, tags and blobs, at any moment. `seen[f]` is what the place a fetch reads from has held
since it asked; a file that changes meanwhile may also be read as a mixture, `Torn`, which hashes to
nothing else.

`VerifiedWasThere` and `MismatchIsReal` together say that a fetch is one read at one moment: success means
that the bytes of the digest were at their place at a moment of the fetch, a mismatch that something else
was. This is the step `Verify` of `HubService` and `Fetch` of `Catalog`; other failures are their
`Unreachable` and `Unavailable`. Fetches share nothing but the store, so one fetch is enough in the run.

### Startup and the code

| stage of a start | code | action |
|---|---|---|
| idle | `PgPool::connect`, `pool.begin()` | `Begin` |
| locking | `pg_advisory_xact_lock` | `Lock` |
| look | a statement of `0001_init.sql`: the table lock of an index, then IF NOT EXISTS | `Look` |
| create | the entries in the system catalogs, which are unique | `Create` |
| commit | `tx.commit()` | `Commit`, `CommitUnacknowledged` |
| configure | the stores' configuration, the listener | `Serve`, `Exit` |
| abort | the ROLLBACK, or the end of a dead session | `Abort` |

A writer is a publish (`Upsert`, `Insert`, `Close`) or a yank or unyank (`Mark`) of a process that
serves, reduced to its table locks. CREATE INDEX takes its table in SHARE mode before it looks whether
the index exists and keeps it until COMMIT; writers take ROW EXCLUSIVE. `Script` keeps the statements
that differ in what they lock: the extension, the two tables, an index on each in the order of the file.
Those left out create tables and an index that no writer touches, or a second index on a table that is
locked by then. `DeadlockVictim` is Postgres's deadlock detector, which aborts either session. A lock is
granted whenever no conflicting one is held; Postgres also lets a request wait behind an earlier
conflicting request. The model has therefore more behaviours than Postgres: what holds in it holds
there, and the deadlock found needs no overtaking.

## 3. Runs

| run | instance | shows |
|---|---|---|
| `registry` | 3 skills of 2 namespaces, 2 versions, 3 ids, 6 queries, 4 limits | `TablesAgree`, `PublicationsAreFinal` of the abstract registry; `SearchFindsTheBest`, `ExactNameFirst` in each of its states |
| `repo_safety` | 3 calls of 7 kinds, 2 skills, 2 versions, 2 connections | `NoRowAppears`, `OneWriterPerSkill`, `OkMeansStored`, `ConflictIsReal`, `RowsHaveOneSource`, `TablesAgree`, `CallsAreAtomic` |
| `repo_refines` | 3 calls of 3 kinds on one version, 2 connections, fair | `ImplementsRegistry`, `PublicationsAreFinal`, `EveryCallEnds` |
| `hub_requests` | 2 requests out of 4 admitted and 29 refused ones, a changing store | `RowsArePublishable`, `ArtifactsWereThere`, `OnlyOwedChanges`, `UsesRepository`, `RequestsAreAtomic` |
| `hub_acks` | 2 contending requests of 4 kinds, a changing store, fair | `AckIsDurable`, `QueueMatchesReplies`, `EventsFollowRows`, `EveryRequestEnds` |
| `catalog` | 2 namespaces with one name and 2 versions, a client, a changing store | `ServedBytesWerePublished`, `EntriesStayTrue`, `UnambiguousEntryIsServed` |
| `artifact_store` | a fetch from each store, 2 contents, 2 manifests | `VerifiedWasThere`, `MismatchIsReal` |
| `startup` | 3 starts and 1 writer, fair | `SchemaIsWhole`, `ServingHasSchema`, `StartsDoNotCollide`, `OneMigration`, `EveryStartEnds`, `EveryWriteEnds` |
| `hub_lost_event` | 2 admitted requests | violation of `InsertedIsAnnounced` |
| `hub_digest_case` | 2 admitted requests | violation of `ConflictMeansOtherDigest` |
| `catalog_same_name` | as `catalog`, 1 version | violation of `ListedDigestIsServed` |
| `startup_deadlock` | 2 starts, 1 writer | violation of `NoDeadlock` |

The type invariant of a module is checked with its first run. `CHECK_DEADLOCK FALSE` is used in
`registry` only, whose ids run out on purpose; elsewhere a finished instance stutters in
`Finished`, and any other state without a step is an error (in `Catalog` and `ArtifactStore` the owner
of the store can always move).

*Bounds.* Three calls are what the interesting cases need: two publishers of one version and a
third that overtakes, yanks or waits; with two connections and three calls the pool is full while
one more waits, and a holder of the row lock and a waiter for it can fill it. Two digests
distinguish agreement from conflict; two versions of one skill move `latest_version`; a second
skill shows that locks are per skill. `repo_refines` has no symmetry, for its liveness, and no second version:
two publishers with different digests and a yank are what contends.

In `hub_requests` one request exists for every way to be refused: by its headers (no subject, a subject,
scopes or roles that are not text or do not parse, a scope missing, a reader, a publisher of another namespace), by
validation (another name than the path's, an ill-formed namespace, name, version and url, a malformed digest, an
unsafe path of each kind: upward, rooted, empty, with a drive, with a backslash), by the gate (no
signature and no bundle) and by trust (half a signature, with a bundle or without, one of another digest, one of another manifest, a
malformed bundle alone and beside a good signature). Those that pass are a publish that shows a bundle only, a
signed one of the same contents with the digest in the other spelling, a yank and an unyank; two tasks take any two
of all these, also the same one twice. Two contending requests are enough for what `hub_acks` asks: each property relates two requests, or
one to the queue and the tables; a publish whose COMMIT comes late meets its retry, a publisher of other contents, a yank or an unyank. In `Catalog` two namespaces are the smallest case in
which a name is ambiguous, and two ids suffice since a third version adds no case. In `MCRegistry` a
name is in two namespaces, a longer one has it within and comes before it in the alphabet, a description
contains the longer one, a query is the beginning of one name and within the other, and the two versions
are ordered differently by number and by digits. Three starts are one that holds the advisory lock, one
that waits and one that finds the schema made, dead or alive in any combination; one writer suffices,
since writers do not wait for each other at table locks. What the bounds leave out (more calls, requests,
skills, connections, clients, starts, writers) is covered by the proofs as far as safety goes.

*Symmetry* (of tasks, ids, clients, skills) is used in the runs of invariants and not where liveness or the
refinement of `Registry` is checked, with exceptions whose properties treat the permuted values alike:
`registry` permutes the ids, and `repo_safety` and `hub_requests`, which also check `CallsAreAtomic`,
`OnlyOwedChanges`, `UsesRepository` and `RequestsAreAtomic`, the tasks. These
properties are about steps only: of `AtomicCalls` or `PgRepository`, and of what their variables are mapped to, a
permutation of the tasks makes nothing but a permuted step.

*Fairness.* `PgRepository!FairSpec` asks weak fairness of the steps a call makes when nothing
fails: the runtime polls every future whose statement has been answered, and Postgres runs every
statement it was sent (or it vanishes), also the ROLLBACK that a dropped transaction queues and the abort of the
session of a dead process. `HubService!FairSpec` asks that of the repository's steps and of `Finish`, and nothing of
the artifact store. `Startup!FairSpec` asks that Postgres runs statements whose locks are granted,
rolls back what was given up and breaks deadlocks. Nothing is assumed about failures, cancellations,
crashes and the beginning of starts and requests. Weak fairness suffices for waiting calls since every
instance has finitely many calls: in a real run a lock is handed on first come, first served.

## 4. What disagrees with the code's tests and messages

* `InsertedIsAnnounced`: `publish` commits, then enqueues. A client that disconnects, or a connection
  that fails, while COMMIT is on its way leaves a stored version without event. The test
  `publish_validates_artifact_and_trust_inserts_version_and_enqueues_webhook` expects one event per
  inserted version. What does hold is `QueueMatchesReplies`: one event per success that was answered.
* `ConflictMeansOtherDigest`: digests are accepted in upper-case and verified in lower case, but compared
  as strings with the stored one. The same bytes published again in the other spelling are refused
  with "already exists with another digest".
* `ListedDigestIsServed` with two namespaces: the download route has no namespace, so an entry of the
  index can lead to the bytes of another namespace's skill of that name and version. Where only one
  namespace has the name and version (`UnambiguousEntryIsServed`) it holds, for the signature too, also
  under yanks and changes of the store.
* `NoDeadlock`: the script of the migrations locks `skill_versions` before `skills`, also when every index
  exists; a publish writes `skills` before `skill_versions`. A start beside a process that publishes can
  therefore deadlock with it, and Postgres aborts one: the start exits or the publish is answered with 500.
  The tests `.await.unwrap()` both. What does hold is that both end (`EveryStartEnds`, `EveryWriteEnds`)
  and that the schema is whole.

## 5. What is proved

Every safety invariant and action property of the passing runs is a theorem, for every value of the
constants; so are the four implementations, `UsesRepository`, `ImplementsRegistry`, `CallsAreAtomic` and
`RequestsAreAtomic`.

`RegistryProofs`: type correctness, `TablesAgree` and `PublicationsAreFinal`. The argument is
direct: the first two are inductive. The step lemmas
(`TypeStep`, `FinalStep`, `AgreementStep`) are used again by `CatalogProofs`.

`SearchProofs`: `SearchFindsTheBest` and `ExactNameFirst` for every query, scope, limit and order of the index.
No sorted sequence is needed, and no induction. First, `Published` is finite in every state (`PublishedIsFinite`:
a publication adds one key), so an index is a sequence of hits, one for each listed key. Next, `Before` is
irreflexive and transitive, hence so are `Alphabetical` and `Outranks`, and whatever does not precede is
preceded: `Precedes` is a total order of the places of an index. In a finite set with such an order, the
places 1 + (the number of those before) are a bijection onto 1..n that keeps the order (a place is
at most n; two elements have two places; and an injection between finite sets of one size is onto).
So `LexicalRank` shows every match once and in order, and the cut keeps the first ones. `Found` replaces a result by
an entry of its name and version, which is the result itself where no other entry has them. That a
name with a higher score is `AsGood` is read off `Score`: a text begins with itself, and has within it what it begins with.

`AtomicCallsProofs`: what `AtomicCalls` is worth. From it alone follow `Registry` for the tables
(`CallsKeepTables`), that answers are true for good and that an answered call does nothing any more unless the answer
was a failure (`AnswersHold`), and `EffectsOnce`: a call changes no version
but its own, and that at most once, be it before its answer or after a failure. A mark that was set, its
acknowledgement lost, and lifted by somebody is therefore not set again. The invariant says of every call that what it
has found or was told is true of its row and leaves it nothing to do (`Truth`), which stays so since rows stay
(`FinalStep` of `RegistryProofs`), and that it does not know more than its answer (`Fits`). What is assumed
of the constants (`Constants`) is proved for the repository and for the service, which inherit the results:
`CallsTakeEffectOnce`, `RequestsTakeEffectOnce`, `ClientsCanRely`.

`PgRepositoryProofs`: every safety property of `PgRepository`, its refinement of `Registry`
and finality, for every number of calls, skills, versions, digests and connections. None of the
properties is inductive by itself; `IInv` adds, for every call (`TaskInv`):

* `CallFits`: a call in the middle of `insert_version` is an insert, one in `execute` a mark;
* `LockHeld`: exactly the calls in a transaction past the upsert hold the lock of their skill, and nothing
  else does. This is the heart: two calls past the upsert of one skill are the same call;
* `TxFits`: what is in `tx[t]` agrees with the stage and with the committed tables. The skill row it
  will install is the committed one or, if there is none, a new one, and the version it will install has
  no committed row. It stays true while others commit, because they do so to other skills;
* `Answered`: what the caller was told matches the stage. A call that is rolled back was never told ok, and one
  that may still take effect was told nothing, or a failure.

`Install` is the only action that changes `skills` or adds a version; with `TxFits` its effect
is `Registry!Publish` or nothing at all, and a `Mark` is `Update`. That gives `Refinement`, and
`Finality` follows from the same case split.

`AtomicRefinement` needs more of the answers than `Registry` does: which step is the moment of a call, and
that it has at most one. Every step is assigned its action of `AtomicCalls` by stage and outcome: `Install` an
`Insert`, or a `Return` if the call had met a row; `Settle` a `Meet` or a `Refuse`; `Execute` a `Mark` or a
`Miss`, each with or without a caller to tell; `Fail` a `Spoil`, which keeps the call due if its statement is on its
way; `Vanish` a `GiveUp`; a crash a `Die`, after which the calls with a statement on its way are still due; the
statements in between stutter. `Answered` says that a call that has an answer other than a failure is in no stage that
could act again, `CallFits` that an idle task has called nothing.

`HubServiceProofs`: the invariant is that of `PgRepositoryProofs`, taken over by INSTANCE, with the
service's own types and, for every request (`RequestInv`):

* `Passed`: whoever has reached the repository was admitted, has made the call of its request and, for a
  publish, was trusted. With `RowsHaveOneSource` of the repository this gives `RowsArePublishable`; that its
  paths stay inside is the lemma `AcceptedStaysInside` about `Validation`, for paths of every length;
* `NoneForgotten`: a call that waits for its answer belongs to a request that is being served. What else may still
  change the tables has been told a failure (`Answered` of the repository), so its client a 500 or nothing (`ReplyFits`):
  that is `OnlyOwedChanges`;
* `ReplyFits`: the response is what the repository answered. With `OkMeansStored` this gives `AckIsDurable`;
* `QueueInv`: for each event, as many occurrences in the queue as requests of this process that were
  answered with success. An enqueue adds one to both, a restart empties both.

`OnlyWithArtifact` has an invariant of its own, `ArtifactInv`: whoever has called the repository for a publish
is in `seen`, and while a request is being verified it is in `seen` as soon as its url holds its contents
(`Provided`). `VerifiedHolds` links the check to the history: what verifies under the digest is the contents the digest was made of.

`EventsFollowRows` follows from `QueueInv`: an event in the queue has been announced by a request that
succeeded, and `OkMeansStored` says that its version is stored. In which order two events stand is left open.

`UsesRepository` is a case split: every step of the service is a step of the repository or leaves it alone.
`ServiceIsRegistry` composes it with `Refinement` of the repository. `ServiceIsAtomic` takes the moments from
`AtomicRefinement`, over the same instance, step by step (`StepOfCaller`): what a repository step does
to its call it does to the request; `Finish` returns what is known, `Cancel` spoils the request and leaves what it
had sent without a caller, still due; a restart kills all. `ReplyFits` adds that a response that is not a 201 carries no record.
`RepoKeeps` and `RepoFrame` say what a repository step does to the tasks it is not about.

`CatalogProofs`: for every client (`ClientInv`), what its entry, the record it found, its bytes and its
signature have to do with rows of the tables. Each part stays true because rows stay (`RowsStay`, from
`PublicationsAreFinal` of `Registry`). In `UnambiguousEntryIsServed` the rows they speak of are in
one namespace, hence one row.

`ArtifactStoreProofs`: `VerifiedWasThere` and `MismatchIsReal` with the record of what was seen
(`SeenIsFinite`). A torn read presupposes that two things were at the place; two contents have two
digests, so one of them is not the expected one.

`StartupProofs`: for every start (`StartInv`): only the holder of the advisory lock has locked or created
anything (`HolderOnly`), what precedes its statement in the script exists (`InScript`), what it found
missing is missing until it creates it (`StillMissing`), and a process past the migrations has the schema
(`Migrated`). So `Commit` installs what was missing, all of it.
`DeadlocksAreFound` is about who waits for whom (`KeptBy`: table locks, the advisory lock, uncommitted entries
of the system catalogs): a start keeps others waiting only as the holder of the advisory lock, and this holder
waits for nothing but table locks of writers. Hence any set of sessions that wait for each other
contains a start and a writer that do so directly, which is all that `DeadlockVictim` looks for: the liveness
of `startup` does not rest on deadlocks the model would miss.

*Assumptions.* Those the modules state, and TLC evaluates: calls are inserts and marks
(`CallsAssumption`), namespaces and names are ordered, versions have three numbers below 100, which is how far
the model writes them out (`SkillsAssumption`, `VersionsAssumption`), what a search is asked and shows are texts
(`PayloadsAssumption`, `RequestsAssumption` of `Search`), NULL is no value (`NoneAssumption`, `NoneIsNoRow`, `TablesAssumption`,
`RepoAssumption`, `DefaultsAssumption`), the pool has a positive size (`PoolAssumption`), requests have
their shape (`RequestsAssumption`), paths are non-empty sequences of strings (`PathsAssumption`),
namespaces are ordered (`NamespacesAssumption`), pointers have their shape, manifests are sets of digests
and a torn content is none of the contents (`PointersAssumption`, `ManifestsAssumption`, `TornAssumption`),
starts and writers differ (`SessionsAssumption`).

*Only model-checked:* liveness (`EveryCallEnds`, `EveryRequestEnds`, `EveryStartEnds`, `EveryWriteEnds`),
which the prover cannot express under fairness.

## 6. Not modelled

* The syntax of artifact urls (a pointer is what the stores look at) and HTTP below a request and its
  answer; which names, namespaces and versions `validation.rs` accepts, as opposed to that they must be
  accepted: these are predicates of one string, and no property here tells two accepted strings apart.
  Of paths, a drive letter in a later component is accepted, as in the code (on the systems it is built
  for it is an ordinary file name).
* The layout of a Sigstore bundle (well-formed or not is what the hub looks at) and cryptography: signatures
  and digests are ideal.
* The order by vector distance, which is Postgres's, over a table nothing writes; the Qdrant and Milvus
  configurations, which have no operation.
* A poisoned lock of the webhook queue (see HubService); `latest_version` has no reader in the code, so the model only
  keeps it a stored version (`TablesAgree`).
* `hub-webhooks`, `can_read` and `can_manage_webhooks`, which nothing calls.
* Fixture mode, health, metrics and routes: static answers without state.
* Postgres's queue of waiting lock requests (see Startup), and table locks in `PgRepository`, where all
  sessions are writers and take modes that do not conflict.

## 7. Plan

Done: the modules of section 2 and their proofs. What remains worth adding:

1. `ArtifactStore` against an abstract one-read store by refinement, in place of its two invariants, and
   the liveness of a fetch under a store that answers.
2. `hub-webhooks` once the hub drains the queue: delivery, `retry_delay` at its cap, duplicates.
3. `skill_embeddings` once something writes it: a version and its embedding are two writes.
