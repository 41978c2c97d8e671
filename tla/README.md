# postproject in TLA+

Postproject keeps the knowledge of a production (assets, representations, files, evidence about
them, provenance, jobs) in one SQLite file that several processes share. This directory models
the parts of it that decide something: the store and its transactions, the journal of revisions
and those who follow it, the jobs and the process that runs them, what is known about content and
what follows from it, the C ABI's transactions, what a client is answered while others commit, and
the search for media on disks that change.
The modules are written from the code, not from its documentation; where the two disagree this
file says so.

## 1. The system

| Component | Source | State it keeps | Operations | Model |
|---|---|---|---|---|
| Job store | `storage-sqlite/transaction.rs`, `core/job.rs`, `009_jobs.sql` | rows of `jobs`, claims with a lease | request, claim (takeover), renew, release, fail, complete, cancel | `JobStore`, `JobLedger` |
| Transactions, revisions | `storage-sqlite/transaction.rs` | staged events, journal of revisions | begin, commit, rollback, drop | in every store module |
| Revision waiters | `storage-sqlite/revision_wait.rs` | signal with generation, `PRAGMA data_version` remembered | wait, cancel, close | `RevisionWait` |
| Media roots | `transaction.rs`, `lib.rs` | table and one memory of it per handle | add, enable, remove | `MediaRoots` |
| Catalogue | `transaction.rs`, `001`, `012` | assets, representations, resources, locators, two derived tables | import, add, confirm, retire; keyset pages | `Catalogue` |
| Metadata, identifiers | `transaction.rs`, `metadata_codec.rs`, `core/metadata.rs` | values with positions, identifiers | add, replace, remove, clear; pages of assertions; encode, decode | `Attachments`, `MetadataValues`, `NoteAnswers` |
| Evidence | `transaction.rs`, `artifact.rs`, `dependency_*.rs` | fingerprints, markers, dependency sets, activities with snapshots | record, replace, create activity, evaluate; bounded traversals, stale artifacts | `Evidence`, `ArtifactKnowledge`, `Lineage` |
| Production file | `lib.rs`, `migrations.rs` | schema version, history of migrations, identity | create, open, migrate | `ProductionFile` |
| Revision feed, observers | `lib.rs`, `_production.py` | a cursor per consumer | pages, filtered pages, changed objects, observer thread | `RevisionFeed`, `Subscription`, `RevisionEvents` |
| C ABI, transactions | `ffi/lib.rs` | production mutex, `transaction_open` flag, staged mutations per handle | begin, stage, complete, commit, rollback, release | `FfiTransactions`, `FfiStaging` |
| Queries and their answers | `lib.rs`, `ffi/*.rs`, `_production.py` | none: result sets, once made, do not change | twelve queries, conversion for the ABI, reconstruction in Python | `ClientCalls` and the modules it extends |
| Executor, `job run` | `media/executor.rs`, `cli/main.rs` | output directory, temporary files, job rows | list, claim, render, heartbeat, rename, complete, clean up | `JobRunner` |
| Inventory, its cache | `media/inventory.rs` | cache file and its temporary file | scan, delete cache | `MediaFiles`, `Inventory` |
| Resolver | `media/resolver.rs`, `core/resolution.rs` | none: reads catalogue, then disk | resolve, confirm | `Resolver` |

How they interact:

- There is one writer at a time: a `SqliteTransaction` takes `BEGIN IMMEDIATE`, stages rows and
  events, and `COMMIT` publishes all the events of the transaction as one revision with the next
  sequence number.
- A waiter learns of a commit of its own process by a signal (mutex, generation, condition
  variable) and of one of another process only by polling `PRAGMA data_version`.
- The C ABI keeps staged mutations outside the database and replays them under the production's
  mutex; a flag outside that mutex admits one open transaction at a time.
- `job run` works on two stores without a common transaction, the job table and a directory, and
  orders its steps so that each can be undone when the next one fails.
- Observers turn the journal into callbacks and remember how far they came.
- A query runs its statements one after the other, most of them without a read transaction; its
  answer is converted as a whole for the C ABI and taken apart by the binding after the mutex is
  free.
- Evidence is computed by hosts outside the transaction that records it; the state of an artifact
  is computed from recorded evidence whenever somebody asks.
- Inventory and resolver compare the catalogue with disks that others write, in many steps, with a
  cache file two scans may share.

What is hard: waits that race with commits, cancellation and close; leases judged by a clock that
was read before a lock was granted; steps that fail half way under a savepoint; a commit that is
refused; processes that die between two durable steps; caches of state that another process changes;
bounded traversals of shared and cyclic graphs; pages, and statements of one query, read while
others commit; values that pass four representations; files that move while they are searched.
PROJECT.json lists these hazards at the lines where they bite.

## 2. Modules, state and actions

Every module declares its state as variables named after the code's, has an action for each
operation (or for each step of an operation that others can come between), and states its
properties at the end. An operator called `X_Something` with a comment "Variant" is `X` with a
plausible bug; no specification uses it. It is what the property of the same part must catch.

**`JobStore`** — `db` is the committed file (tables and journal), `writer` the connection whose
transaction is open, `work` the file as it sees it, `pending` its staged events, `issued` the claim
tokens drawn so far, `clock` the time. `Request`, `Claim`, `Renew`, `Release`,
`Fail`, `Complete`, `Cancel` are the methods of `SqliteTransaction`; `Commit` and `Abandon`
(rollback, drop, refused `COMMIT`, crash) end a transaction. A caller passes the time it read
earlier, so `now` is any instant up to the clock. What a job refers to is assumed to be there.
`JobLedger` is the promise to a client: one job's legal histories; `ImplementsLedger` shows that
the published feed is one.

**`RevisionWait`** — each waiter's program counter runs through `wait_for_revisions`: look at the
signal, read the data version, read the journal, take the mutex, check again, sleep. Commits of the
same process are split into lock, commit and notify; close and cancel into flag and notification.
`Expire` lets a deadline pass at any time.

**`MediaRoots`** — the table, each handle's `cache`, and the staged changes of the open
transaction. Identifiers are random in the code and never reused here.

**`Catalogue`** (extends `MediaRoots`) — rows of the catalogue, the derived tables as the triggers
of `012_query_support.sql` leave them after every statement, the staged events, a caller that walks
keyset pages while transactions commit. A failing representation leaves what it had staged, as in
the code. Ghosts `tainted` and `spoiled` remember that a caller committed after a failed call.

**`Attachments`** (extends `MediaRoots`) — metadata values with their row numbers and positions and
external identifiers, each operation with the failures in its middle, and a consumer that reloads
the objects an event names.

**`Evidence`** — one action is one committed transaction, since writers are serialized and a failed
one leaves nothing. A fingerprint belongs to a domain (algorithm and version): a representation has
one aggregate per domain but a single marker for recomputation, and a `Value` stands for all that is
recorded of a resource in whatever domains. `caller` is a host between loading member fingerprints
and recording the aggregate of a domain. `RecordDependencySet` records a set that was extracted from
any contents the source has had (`past`). `acts` keeps what an activity captured. Ghosts: `renewed`
are the domains recorded since a resource changed, `described` the contents a set was extracted
from, `belated` the sources that had changed when their set was recorded, `overlapped` that
something was observed while a host computed, `witness` what there was for an activity to capture.
`ArtifactKnowledge` extends it and computes the state of an artifact without bounds and by the
code's bounded traversal with its memo. `Lineage` extends that with the bounded breadth-first
queries of ancestors, descendants, dependencies and dependents, and with the pages of
`stale_artifacts`: pure operators over the reachable states, compared there with the closures and
the evaluation they are bounded forms of.

**`ProductionFile`** — the file from `O_EXCL` creation through its migrations, one transaction each,
to the stored identity, with processes of several builds, refused calls and crashes.

**`RevisionFeed`** — the journal, pages of it, filtered pages with their `through` sequence, pages
of changed objects, and the observer thread of the Python binding: read, deliver, advance, store,
stop, crash, restart. `Subscription` is the abstract promise it implements: every revision once, in
order, except what a crash makes it repeat.

**`FfiTransactions`** — handles, the production mutex, the flag, the number of stored revisions;
commit is the replay, which may be refused, stored, or panic before its `COMMIT`. **`FfiStaging`**
composes with it what the handles hold: every staging call of the ABI as a mutation that needs
facts, must not find others, makes some and drops some; the replay as the fold of these over the
file's facts; and `CompleteJob`, which takes an output and its activity out of the list and puts one
completion in. The property compares the list with the host's calls in the host's order.

**`ClientCalls`** (extends `RevisionFeed` and the modules of the answers) — a client of the Python
binding asks one question. `call` is its progress: each statement of the query reads the commits
there are (`ReadTable`), the answer is converted for the ABI as a whole or refused (`Answered`), the
binding rebuilds its values and releases the result set (`Taken`); `OtherCommits` may happen before
any of these. A reader changes nothing that another reader sees, so a behaviour has either one such
client or the observers of `RevisionFeed`. What others commit follows a plan (`History`) of at most
four revisions per question. The answers are functions of the events committed so far:

- `Projection` — what the ABI can carry: identities without a type, flags beside optional numbers,
  codes for enumerations, no text with a NUL.
- `RevisionEvents` — the 26 types of events as they are stored in generic columns, decoded,
  projected onto the one struct of the ABI and rebuilt as payload objects; filters by type.
- `Answers`, `MediaAnswers`, `WorkAnswers`, `NoteAnswers` — per query its rows, their join, the
  ABI's record, the binding's value: assets, media roots, representations with structure, resources,
  fingerprints and locators; activities with their edges' snapshots, jobs, dependency sets;
  identifiers, metadata, revisions.
- `MetadataValues` — a value as a tree: what `ctypes` makes of a number that its C type cannot hold
  (`Cut`), the constructors with their limits and normal forms (`Decimal` drops trailing zeros,
  `Rational` reduces), bytes of a row, decoding through the constructors again with its limit of
  depth, the ABI's inputs and accessors, Python's objects. `Tells` is the reference: the same
  structure and texts, and of each number the same number, in the only form of it that is normal.

**`JobRunner`** — job rows, claims, output directory and temporary files, and a program counter
through `job run`. `overlapped` records that two processes worked on one job, which takes an
expired lease. A heartbeat that succeeds changes nothing a property sees and is a stutter.

**`MediaFiles`** — files and folders as opaque versions with a size, a digest and a stamp (no two
writes share a stamp), mounts, the locators, the enabled roots; the environment writes, moves,
copies, removes, mounts. **`Inventory`** extends it with the steps of a scan: load the catalogue,
load the cache, walk, read, classify, write and rename the cache. **`Resolver`** extends that with
the steps of a resolution: read locators, verify each, search roots, compare, conclude, and with
the confirmation of a candidate. A sequence has its own declared frames and sampled digests; a
search stops with an error at more than `MaxEntries` entries, of which the directory of each root is
the first, and where more than `MaxExceptions` declared frames are missing.

Common abstractions: identities are model values or small numbers in the order the code's byte
order would give; times are small numbers; names, digests and payloads are opaque; logging and
formatting are left out. SQLite is trusted to do what it documents: serializable transactions,
constraints, savepoints, triggers.

Abstractions of the media modules: one resolution runs at a time (a bound); a scan loads the
catalogue in one step; the C ABI reads all locators before it looks at the disk while the command
line reads them one at a time, and both are behaviours of the model; every import has a fingerprint
and technical facts; frames in a folder are not visited as files of their own; the order of a
directory walk is a constant. Every cache entry says whether it was read at all, and whether the
file was still the same when it had been (`whole`). `ScanIsTruthful` excepts, and names, what is
said from an entry that does not vouch for the file whose size and stamp it has (`Doubtful`,
`Replaced`; see "Disagreements"). Assumed of the constants: no two contents that were read
completely have one digest, and equal digests mean equal sizes, because the size is hashed along
(`fingerprint.rs`; `DigestAssumption`); a walk comes past every entry once (`PlacesAssumption`); a
call maps roots that exist (`MappingsAssumption`). Sampled digests may collide.

## 3. Runs

Times are those of two workers on a small machine.

| Run | Module | Instance | Distinct states | Shows |
|---|---|---|---|---|
| `jobs` | `MCJobStore` | 2 connections, 2 jobs, 2 tokens, 2 outputs, times 0..2, 6 events | 211 000 | the feed explains the jobs; completions are whole; takeovers only after expiry; the ledger |
| `revision_waits` | `MCRevisionWait` | 1 waiter, 2 versions | 84 000 | no lost wake-up, nothing hidden, ends are final; waits end and find commits |
| `attachments` | `MCAttachments` | 2 handles, 1 root, 2 targets, 2 values, 4 events | 1 046 000 | feed and memory agree with the tables; walks find assertions |
| `catalogue` | `MCCatalogue` | 1 asset, 2 representations, 3 resources, 4 locators, 3 changes | 625 000 | derived tables, feed, walks |
| `ffi_transactions` | `MCFfiStaging` | 2 handles, 4 calls (1 that has no part in a completion), 2 instants | 1 891 000 | no lock-out, commits tell the truth, staged lists keep their meaning |
| `ffi_transactions_open` | `MCFfiTransactions` | 2 threads, 3 handles | — | violated: two open transactions |
| `job_runner` | `MCJobRunner` | 2 processes, 2 jobs, 3 claims | 214 000 | temporary files and outputs are owned; a lone process keeps and never overwrites |
| `job_runner_lost_output` | `MCJobRunner` | the same | — | violated: a succeeded job without its output |
| `revision_feed` | `MCClientCalls` | 3 revisions, pages of 2; 12 questions, 3 kinds of writers, up to 4 revisions; numbers of 4 bits | 32 000 | pages exact, nothing skipped, subscription, delivery; answers are of one instant and arrive as they were given, metadata as the values that were entered |
| `evidence` | `MCEvidence` | 4 representations, 5 resources, 2 values, 2 fingerprint domains, 3 activities, 3 transactions | 307 000 | acyclic provenance; evidence is of now; evaluation sound; traversals honest; stale artifacts found |
| `production_file` | `MCProductionFile` | 3 processes, 2 builds, 3 faults | 19 000 | migrations once; created files open; openers get through |
| `media_files` | `MCResolver` | 3 files, 3 folders, 5 resources (2 sequences), 2 roots, 2 processes, 3 events | 1 101 000 | scans and relinks tell the truth |

Why the bounds are enough. Jobs: two tokens and three instants let a lease run out, be taken over
and be released late; six events let a failed completion be followed by one that is stored. Waits:
two commits let one fall before and one after every check. Catalogue and attachments: three or four
changes allow a rollback, a failure in the middle and a later change by another handle, with a walk
of three pages (a page holds one row) across them. Job runner: the third claim is the one a takeover
needs. Evidence: three transactions after the first import are an observation, an activity and a
change behind it; captured closures are bounded by 1 in depth and size, evaluations by depths 1 and
4 and by 2 and 5 representations, so that each graph of four is cut short by some bound and fits
under another; of the two domains one reads everything of a resource and one a part that none of the
observations changes, which is how a fingerprint may be recorded anew without a change. Media roots
are independent of each other, so one that is added, switched and removed by two handles is enough.
C ABI: two instants are a lease that is valid and one that has run out; an output, an activity and a
completion take three calls, the fourth is what may stand between them or follow; the bound of one
unrelated call keeps the run small and is enough, because mutations that concern no completion keep
their order whatever their number. Client calls: a query has at most five statements, and with four
revisions (creation and three changes, or a creation that is undone) a commit falls between any two
of them; writers give no, all or unusual details; a metadata value nests three deep under a limit
that is three in place of 32, so the greatest depth is reached; integers have four bits in place of
64 and scales end at three in place of 1024, and the values written lie at, within and beyond these
limits, with zeros to drop and fractions to reduce. The production file: three migrations and three
processes interleave at every step. Media files: three events are what a moved original, a duplicate
and a confirmed candidate need; every state a resolution can answer (verified, moved exact,
probable, ambiguous, offline, missing, changed, partial, failed) and every category of an inventory
is reached. The limits of five entries and four missing frames are exceeded by some walks and by one
sequence, whose five declared frames stop every search for it. A file called online because another
one was read for its cache entry takes five events, more than the run has: the exemption for it in
`ScanIsTruthful` is needed by the proof, which has no such bound.

Deadlock is not checked where the instance uses up tokens, handles, revisions or events and then has
nothing left to do, nor in `revision_feed`, where a client that asks has its answer in the end; it
is checked in `jobs`, `revision_waits`, `attachments` and `production_file`. Symmetry is used only
in runs without liveness properties.

### Disagreements between the code and what is said about it

Two have a run that TLC refutes, listed under "findings": a released C ABI handle re-opens the door
while another transaction is open (`ffi/lib.rs:7216`), and a completion that is refused removes the
output another process recorded (`cli/main.rs:3894`).

Others were met while modelling and have no run:

- A host's aggregate fingerprint recorded after a newer observation clears the marker for
  recomputation (`transaction.rs:1265-1271`, against `adr/0021:33-35`). `EvidenceIsOfNow` and
  `CurrentIsTrue` therefore speak of aggregates only while nothing is observed during a computation.
- There is one marker per representation, but a fingerprint per (algorithm, version): the first
  domain recorded after an observation takes the marker away, and what the others hold may be as old
  as before (the same lines and the same words of ADR 0021). It takes no overlap: of two captured
  domains, record the one that the change does not concern, and `evaluate_artifact`
  (`artifact.rs:271-342`) calls the artifact current, although the other would differ. Both
  properties therefore speak of the domains recorded since the last change (`renewed`) and say
  nothing of the others.
- A dependency set extracted before, but recorded after, a newer fingerprint of its source says that
  it is current (`transaction.rs:1430`, against `dependencies.md:49-52`): nothing that is recorded
  says what it was extracted from. `EvidenceIsOfNow` excepts a source whose contents had changed
  already (`belated`).
- A file that an inventory did not read because no original has its size is cached with no
  fingerprint, and that entry is trusted when an original of this size is added later
  (`inventory.rs:417-426`, against `docs/media-resolution.md:79-80`): deleting the cache changes
  what a scan reports. The file may then be called new or changed, and its resource missing. An
  entry whose fingerprint was read after the file had been replaced is trusted when the first file
  comes back, and may call it anything.
- A resource is reported missing although its content is in sight when it is an image sequence in
  another directory, or a file at a locator that another resource holds
  (`inventory.rs:501-541`, `605`): only single files at no known locator are compared, while
  `inventory.rs:31` defines missing as "no available locator or credible candidate".
  `MissingAreTrue` states what the code decides; the resolver does find moved sequences.
- A sequence that declares more than 100 000 frames can be imported, but once moved never be found:
  the directory of the root, where it has no frames, already ends the search with an error
  (`resolver.rs:665`, `917-921`).
- A decimal or a rational comes back in its normal form (`core/metadata.rs:135-146`, `175-190`; 1.50
  is 1.5, 2/4 is 1/2), while Python's `MetadataDecimal` and `MetadataRational` keep, and compare by,
  what was entered (`_model.py:662-692`): a value read back need not equal the one written.
- `RationalValue::new(0, d)` with `d` above `i64::MAX` is -1/1, and so is no exact number
  (`core/metadata.rs:180-184`, against `docs/src/concepts/metadata.md:28`): the divisor is then `d`,
  which the code takes for the case of the least numerator alone.
- Nested roots make an inventory report one file twice (`inventory.rs`, `classify_observed`); a
  resolver removes the double by its URI.
- A relinked package may be reported partial, because only the first locator is inspected
  (`inventory.rs:676-690`); of two resources with one URI only the last is reported.
- A scan fails when another one renames the temporary file they share (`inventory.rs:785`).
- Media roots are looked up in the handle's memory (`transaction.rs:799` against its comment at 786
  and `adr/0014:46`).
- A render may replace an output file that appeared while it ran (`executor.rs:413` against
  `adr/0025:44`).
- A waiter cancelled and then closed answers "closed" (`revision_wait.rs:209` against
  `adr/0027:41`).
- `dependencies.md:68` calls an artifact indeterminate when dependency knowledge is absent;
  `dependency_snapshot.rs:56` captures nothing to say so.
- A failed representation leaves a staged asset and its event (`transaction.rs:82` "atomically").
- A crash in `create` leaves a file that cannot be opened (`lib.rs:146`).
- Completing a job moves the completion to the place of its output in the staged list
  (`ffi/lib.rs:5714-5734`): calls staged in between may make the commit refused, or the activity
  capture fingerprints older than the host expects. `StagedMeansCalls` says exactly how far.
- A traversal that `max_representations` cuts short may report a depth that is not the shortest
  (`lib.rs:1585`; `lib.rs:1515` and `core/query.rs:312` say shortest).
- `stale_artifacts(source)` restricts its answer to provenance descendants of the source; what a
  changed dependency of it made stale elsewhere is not in it.
- `activities()` (`lib.rs:1258-1306`) runs five statements without a read transaction. An activity
  committed in between makes it fail with "activity edge refers to an absent activity", which is
  false. `ReadsAreWhole` allows this failure and no other.
- A dependency set read while it is replaced may combine the old header with the new entries
  (`lib.rs:4318-4390`), and a representation the fingerprints of one instant with the locators of a
  later one; `plan_regeneration` (`lib.rs:2069`) mixes instants in the same way.
- `representations(asset)` binds one SQL variable for each representation, of which SQLite admits
  32 766.
- An asset's display name and import source and a media root's label are never validated. One NUL
  in one of them makes the ABI refuse the whole answer of `assets()` or `media_roots()`
  (`ffi/lib.rs:334-339`, `305-312`).
- The binding drops the media root of a locator inside a representation (`_locator_at`) and the
  resource of an image sequence (`_image_sequence_at`).
- A Python integer beyond the width of its C type (`MetadataI64`, `MetadataU64`, timestamps) is cut
  off by `ctypes` without an error (`_model.py:653` validates nothing).
- The page size is not bound into a cursor (`bounded-queries.md:191`); a metadata property that is
  replaced during a walk is returned again, because its key holds the row number (`adr/0026`).

## 4. Fairness

Only what the code schedules is fair. `RevisionWait`: a waiting thread that can go on does
(`SF(Proceed)`, strong because it competes for a mutex) and its poll interval elapses
(`SF(PollElapses)`); writers, `close` and `cancel` are free. `CommitsAreFound` therefore assumes
that the file is not busy for ever: `<>[](~Busy)`. `RevisionFeed`: the observer's thread runs
(`WF(Run)`); nobody has to commit, stop or restart. `ProductionFile`: a host whose call failed opens
again, and faults are finitely many. Everything else is checked without fairness.

## 5. Proofs

Eight modules prove, for every value of the constants, the results listed under "theorems" in
PROJECT.json. Each proof has the same plan: an invariant that is inductive, which says more than
the property and without which a step could not be followed; one lemma per action that the action
keeps it; the theorem from these by the temporal rule. Assumptions are only those the modules state
about their constants. Bounds such as `MaxEvents` are constants like the others, so a theorem holds
however large they are.

- **`JobStoreProofs`**, three layers. `TypeCorrect`: the row and its CHECK constraint. `IInv`: the
  staged events applied to the committed feed describe the transaction's copy; without that half
  nothing could be said about a commit, and it is what a failed completion would break first.
  `StagedFollows`: against its committed row a job in an open transaction keeps its end, does not
  vanish, and keeps a running lease unless the claim was handed back. From these follow the
  invariants, that no commit takes a lease before it has expired (`TakeoverOnlyAfterExpiry`), and
  that every step is a step or a stutter of `JobLedger` (`ImplementsLedger`).
- **`HandleProofs`**: waiters and transaction handles of the C ABI. Waiters: the mutex is held
  exactly between check and sleep; who sleeps has seen the newest generation or a notification is
  still to come; the remembered data version is no newer than the journal read with it. Handles:
  the flag is set only while a handle is open, or about to be cleared by one inside commit. Since
  `FfiStaging` is shown to implement `FfiTransactions`, this holds with the staged lists as well.
- **`JobRunnerProofs`**: a temporary file belongs to the claim of a render under way, an output to
  a process about to record or remove it, and before an overlap one process at most holds a job.
- **`AttachmentsProofs`**: media roots, then metadata and identifiers. `RInv` compares what is
  published with the committed table, and what is published and staged with the table of the open
  transaction, and says that a handle believes only in roots that were added; a handle's memory
  need not be the table. `AInv`: row numbers are unique, the positions of a property are
  0, 1, 2, ... without a gap in both files; what will be said of a property agrees with what was
  done to it; the consumer's copy is the file; whatever a traversal still owes stands behind its
  cursor. `RootsStayKnownBesides`: the composed specification implements that of the media roots.
- **`CatalogueProofs`**: `CInv` says of the committed file and of the transaction's copy alike that
  the derived tables are the join the rows make, and that what was said, or will be, is what was
  written; one lemma per trigger (`MembershipKeeps`, `LocatorInsertKeeps`, `LocatorDeleteKeeps`,
  `RootDeleteKeeps`). `PersistedKeeps` covers a representation that is refused at any of its rows.
  For the pages: the rows a page holds are closed downwards, and its last row exists because ranks
  are bounded by the page size.
- **`EvidenceProofs`**, three layers. `Formed`: the tables and what hosts hold. `Lone`: while
  nothing overlaps, what a host is about to record is the aggregate, in its domain, of what will
  then be on record. `OfNow` says of a representation without a marker that the domains recorded
  since its last change are of now, that there is one if it has any fingerprint, and that a set
  which is current and not belated describes what is on record. The two together are inductive and
  imply `EvidenceIsOfNow`. Acyclicity: the descendants are the least closed set, so
  a cycle a new activity would close passes through that activity, and the check of its own
  descendants is enough.
- **`RevisionFeedProofs`**: `FInv` says for each place of the observer's thread how the page it
  holds lies in the feed: what is to be delivered follows the last revision handed over without a
  gap. A filtered page is every match between the cursor and its end (`FilteredPage`). The
  refinement of `Subscription` is shown step by step from it. `Traverses` adds the client that pages
  through the changed objects: every pair behind its position has been returned, whatever has been
  committed since; for each of the 26 types the pairs read from the columns are, through the
  binding, the objects of the event (`RowTouches`, from the assumption that fields of events are
  typed as in Rust). These theorems are about
  `RevisionFeed`'s own specification; the run checks it inside `ClientCalls`, which behaves as it
  does as long as no client asks.
- **`FileProofs`**: the two components whose state is files. The production: a process that
  migrates is never more than one ahead of the file, so a migration that was not applied is the next
  one; until it is disturbed, a creator is the only one to migrate the file it has reserved. The
  media: `MediaInv`, with four parts.
  - *The disk* (`WorldInv`): no two places share a stamp. Moves take it along and every write
    draws a new one, so whoever has a stamp has the content it was given with.
  - *The cache* (`Honest`): an entry whose file was still the same after it was read vouches for
    whoever has its stamp now. This is kept by every change of a file and by any two processes
    that write or rename the one temporary file, and is why a trusted entry is right.
  - *A scan*, while no file changes (`ScanTrue`): every file in sight is noted or still to come
    (`ToCome`: the rest of this root and the roots not yet entered), and no place is noted twice
    for one root (`Visits`), so that a duplicate has a second file, or a second root, behind it.
    The report is proved category by category, files at known locators, other files, duplicates
    and missing resources, each with what an entry that does not vouch for its file may spoil: one
    that was never read hides a match but makes none.
  - *A resolution*, while no file changes (`WalkOK`): the rivals of a resource are among what
    matched, what was found and what is to come, so at the end of the walk they are what matched;
    what was visited is counted by the roots entered and by pairs of a place and a root
    (`Counted`), so that `MaxEntries` stops a walk only where the roots and the files in sight,
    counted once for every root, are more than that; the other way to stop is a directory, of the
    root or below it, that misses too many declared frames;
    answers that were given stay true (`AnswerTold`), and availability follows from them
    (`AvailableIsComplete`).

  When a file does change, what a call knows is only claimed to be well formed until it ends;
  commits to the catalogue may happen at any time, because a call compares with what it has read.

Every invariant of this list (`IInv`, `StagedFollows`, `Formed`, `RInv`, `AInv`, `CInv`, `FInv`,
`MediaInv` and their like) was first checked by TLC on the instance of the run; in `AInv` the
largest row number, which the proof takes from all of `Nat`, was looked for below a bound.

Only model-checked, and why:

- Liveness (`CommitsAreFound`, `EndsAreSeen`, `ObserverServes`, `OpenersGetThrough`): fairness and
  ENABLED are out of the prover's reach.
- `CurrentIsTrue`, `StagedMeansCalls`: what the recursive capture, the recursive evaluation and the
  replay of a whole list compute needs induction over data.
- `LimitedIsSound`, `TraversalIsHonest`, `StaleAreFound`, `ReadsAreWhole`, `AnswersSurvive`: the
  modules use RECURSIVE operators (bounded traversals; values that are trees), with which the
  arithmetic prover is lost.

## 6. Not modelled

- SQLite itself, file systems and child processes (ffmpeg, ffprobe) are trusted; pipes of a killed
  render are not modelled, so nothing is said about readers that block on them (`executor.rs:650`).
- An evaluation of an artifact reads in several statements without a read transaction
  (`artifact.rs:137`); the model evaluates in one state.
- `postproject.hpp` owns handles and passes values on; it has no protocol beyond that of the C ABI.
  Of the Python binding, the observer, the answers of twelve queries and metadata values are
  modelled; the rest hands its arguments to the ABI.
- Of the ABI's result sets those of inventories, resolutions' candidates and capabilities, and the
  handles of errors and strings, are conversions no property is about; so are the views of the
  command line and the bytes and signatures of cursors.
- A query whose handle is closed during the call: the binding's documentation forbids it.
- Ranking of candidates by name and technical metadata decides an order only.
- Generated code, benches, documentation tools and fuzz targets.
