# Verification of SIDRA

SIDRA AI answers questions about an allowlist of GitHub repositories from a local index, with a
local model, and makes small games and documents on request. This directory models in TLA+ what in
it is stateful, concurrent or has to survive a failure, checks it with TLC, and proves with TLAPS
what should not depend on small instances. Paths below are relative to `src/sidra_ai/` in the
repository.

## The system

| Component | State | Operations | Talks to |
|---|---|---|---|
| Ingestion state (`ingestion/state.py`, `dirfd_path.py`) | `state.json`: per repository the last commit, when it was ingested, the last error; the directory `state.json.lock` | `load`, `mark_ingested`, `mark_error` | pipeline |
| Document store (`retrieval/store.py`) | `_documents`, `_chunks` in memory, `index.jsonl` on disk | `add`, `retire_source`, `rescreen_all`, `load`, `compact` | gate, pipeline, retriever, start-up |
| Pipeline (`ingestion/pipeline.py`) | the locals of a run | `ingest_repository`, `_poll_mutable_activity` | client, gate, store, state |
| GitHub client (`ingestion/github_client.py`) | the ETag cache | conditional requests with retries, paginated listings, contents, compare | GitHub |
| Refresher (`api/refresher.py`) | a thread, a stop event, counters | `start`, `stop`, `run_once` | pipeline |
| Retriever (`retrieval/search.py`, `candidates.py`) | parallel lists over the store's chunks, a memo of filters, a full-text index | `search`, `_ensure_index` | store |
| Gate and quarantine (`security/gate.py`, `quarantine_review.py`) | quarantine log, release log | `screen_document`, `release` | pipeline, operators |
| API (`api/app.py`, `api/service.py`, `api/audit.py`) | rate limiter windows, audit log and its counters | routes: chat, analyze, retrieve, index | everything |
| Model (`models/singleflight.py`, `usage.py`, `context_budget.py`) | a single generation slot, the usage ledger | `generate` | chat, generators |
| Fetch (`fetch/`) | DNS permits, the state of each fetch | `fetch` with redirects under a deadline | chat |
| Creation (`creation/`) | pages and sidecars on disk | make, change, undo | chat |

`creation/` is by far the largest directory; nearly all of it writes text. `evals/` and `scripts/`
measure the program from outside.

What is hard here: `state.json` and `index.jsonl` are two files with no transaction over both, one
is replaced and the other appended to; the process may stop between any two steps; nothing locks a
whole ingestion run; GitHub changes while a run reads it, and the branch may be rewritten; the gate
changes its mind; the refresher, a pool of request threads and lookup threads that cannot be
cancelled share one process; and a dozen ways through `chat` must all screen, scan, book and record.
The complete list, line by line, is under `hazards` in `PROJECT.json`.

What makes the components correct:

- state file: no update of one thread is lost to another's; a lock directory that is left behind
  does not wedge it;
- store: one revision of a source at a time, with its chunks and no others, nothing the gate
  rejects, and nothing lost by a restart;
- pipeline: the cursor never claims more than was indexed, what is served between runs is the tree
  the cursor names, an edit is served or still going to be fetched, and the index converges to HEAD,
  each as far as the diffs it goes by are acted upon;
- client: an answer is not older than its question; a listing skips nothing it was asked for;
- refresher: one loop at a time, and none after a stop;
- retriever: its parallel lists never part, an answer is what the store held, all of it where the
  search was not narrowed;
- quarantine: a release lifts a quarantine that somebody approved, and never a block;
- API: the limit holds in any window; nothing unscreened goes to the model, a generator or the
  reviser, nor anything they write out; the slot comes back; ledger, audit lines and counters agree
  with what happened;
- fetch: only checked targets are requested, waiting costs no permits, and a fetch ends unless it is
  left reading one body;
- games: no save replaces another, and undo is a stack, from whichever version a title selects.

## Modules

Four modules are abstract specifications or parts of others: `CursorFile` (which `StateStore`
implements and `Ingestion` uses), `UndoHistory` (which `GameVersions` implements), `StoreView`
(between `DocumentStore` and `Ingestion`), `DnsResolver` (a part of `FetchBroker`).

| Module | Code | What is a step |
|---|---|---|
| `CursorFile` | `state.py` | the promise: a table of cursors; each requested update takes effect atomically, at most once, or is refused |
| `StateStore` | `state.py`, `dirfd_path.py` | `_locked_update`: `mkdir`, `stat`, `rmdir`, load, replace, each a step that may fail; a crash anywhere |
| `DocumentStore` | `store.py`, start-up in `service.py` | one method (they run under the store's lock); an append may be cut short |
| `StoreView` | `store.py` | what the pipeline relies on: an addition, a retirement, a restart, the loss of the file |
| `Ingestion` | `pipeline.py` | the parts of `ingest_repository` between which another actor can run |
| `Listing` | `github_client.py` (`list_pull_requests`, `list_issues`, `_iter_list_pages`) | a page; edits reorder the list in between |
| `RepresentationCache` | `github_client.py` (`_request`, `_remember_representation`) | read the tag, send, GitHub answers, receive, retry |
| `BackgroundRefresher` | `refresher.py` | `start`, `stop` up to its join, the join or its timeout, each check, tick and wait of a loop |
| `RateLimiter` | `RateLimiter` and its caller in `app.py` | `check`, `retry_after` (they take the lock separately), a tick of the clock |
| `RetrieverIndex` | `search.py`, `candidates.py` | reading the store, looking, extending or resetting, filling, answering from all rows or a short list |
| `QuarantineReview` | `gate.py`, `quarantine_review.py` | screening; looking at the trail; appending to it, also torn |
| `ChatService` | `service.py`, `app.py`, `audit.py`, `singleflight.py`, `usage.py` | a thread's way through a request: screening, branches, each model call, scan, audit line, counters |
| `DnsResolver` | `fetch/resolver.py` | take a permit, the lookup returns, release, publish, answer or timeout |
| `FetchBroker` | `fetch/broker.py`, `transport.py`, `policy.py` | a hop: check, resolve, check again, try an address up to its headers, read the body, redirect |
| `UndoHistory` | `creation/revise.py` | the promise: a stack of settings for each request, and the earlier ones a former title goes back from |
| `GameVersions` | `creation/revise.py`, `games.py`, `game_job.py` | choosing what to build, picking a name, writing the page, writing the sidecar |

What follows is how their state corresponds to the code, where it is not obvious.

`StateStore`: `Begin`, `Acquire`, `Contend`, `StatGone`, `StatStale`, `BreakStale`, `StatWait`,
`StatTimeout`, `LockFails` are the branches of the loop in `state_lock`; `Load`, `Save`, `Fail` the
body of an update; `Unlock` the `finally`. What the system may refuse once the directory exists is
`AcquireFails` (the inspection after `mkdir`, which stands before the `try`), `BreakFails` (ignored)
and `UnlockFails`. `left` records that the first or the last of these, or a crash, left the
directory behind. The lock directory has an owner only in the model. Time is the age of the lock and
the time each writer has waited, saturating at the limits they are compared with. The temporary file
is abstracted: `os.rename` replaces the document completely or not at all. `save()` has no caller.
The platform fallback takes the same steps.

`DocumentStore`: a document is a (source, revision) pair and the gate the set of revisions it
rejects. `Written` is what an append does to the file, including behind a line that lost its
newline. An append that is cut short leaves a part of its line (`Torn`), a part that ends within a
character (`Garbled`, no UTF-8 any more), or all of the line but its newline (`Pieces`). `Reload`
states in closed form what the loop of `load()` computes; `MCDocumentStore` has the loop itself, as
a recursive function over the lines; a run checks that the two agree on every reachable file and a
theorem says so of files of any length. The gate writes what it rejects to the quarantine log; when
that raises inside the loop, the records before are installed and the service runs on with them
(`LoadStops`). `half` records such a start until the next.

`Ingestion`: the steps are reading the state, resolving HEAD and choosing the path, `Collect` or
`Poll`, one `IndexOne` per document in collection order, `Retire` (what the diff reports, what the
gate rejected, and the reconciliation after a snapshot), `MarkIngested`; `FetchFails`/`MarkError`
for GitHub errors, `Abort` for exceptions that leave the function. The documentation is the README,
the paths under `docs/` and the documents beside the README at the root of the repository
(`Beside`), which a refresh collects but no diff calls for and none retires (`Fetched`, `Removed`).
The README is listed among the latter once more; to the pipeline this copy is one of them. A
revision in `Blank` is one `normalize` makes no document of (empty, undecodable, too large); the
indexed one before it stays. `missed` follows the files a diff has named without effect until they
are fetched, or a snapshot taken; `Followed` are the others. The state file is used as `CursorFile`
allows and the store as `DocumentStore` does, reduced to the revision served and the last one logged
of each source. That the two sides mean the same is stated with `StoreView`, a store that holds one
document for each source and another set that the next start finds: `DocumentStore` acts like it in
every step that no cut append, half load or change of the gate disturbs (`ActsAsView`), and
`Ingestion` uses it and nothing more (`UsesItsFiles`). Its use of the state file is shown against
`CursorFile` in the same property: a run that has retired what it had to asks for `mark_ingested`,
one that failed for `mark_error` (`Requested`), and `MarkIngested`, `MarkError` and `Abort` are the
request taking effect or being refused. After a crash that loses the index the log may be gone, or
only unreadable (`LoseIndex`). GitHub is the environment: commits, each with the set of its
ancestors (`ancestry`), `Push`, `Reset` (a force push to another commit; with `Push` after it the
branch diverges) and `Edit`. A diff is the one the compare API gives, against the merge base.
`window` is the set of items a query with the stored cursor would return, kept up to date instead of
comparing timestamps, with the different boundary of pull requests (`>`) and issues (`>=`).
Collection is one step: a tree is read at a fixed SHA; that an edit during a listing is the same as
one before or after it is what `Listing` shows. An item's place among the activity is the set of
items updated after it (`newer`), so the `MaxItems` most recent ones are those with few in that set.

`Listing`: the order GitHub lists items in is a place per item; an edit gives an item the first
place and moves the ones before it back.

`RepresentationCache`: a body is the version GitHub had, and its tag names it. `seen` is a history
of what GitHub had while a thread's request lasted.

`RetrieverIndex`: the tokens of a chunk are the chunk, a query is the set of chunks that score above
zero. The lists are separate variables, so an update that reaches only some of them is visible.
`source` says whether there is a full-text index; it may decline, and it fails half-way through an
extension. Its match is not the retriever's (a term with `_` is a phrase that also matches
neighbouring tokens, `__` is an empty one), so what it offers is any short list of rows (`Offered`).

`ChatService`: a request has a kind (how `chat` will take it), whether the gate allows it, and what
its history is. Text is `fixed` (written in the program), `safe` or `harmful`; the output guard
finds what is harmful. Replies put together before the gate (`AnswerLocally`) and about pages on
disk (`AnswerFromDisk`) quote names and titles and may be either; one that asks back passes the
guard. `Scan`, `Book`, the audit line and the counters are separate steps because they are separate
critical sections. A write of the log that fails leaves nothing, a part of its line, all of it but
the newline, or all of it; `torn` says that the last line has no end, and the next one is glued to
it (`Garbled`).

`GameVersions`: a page is built from a request and a setting; the sidecar says so, and an undo says
which version it copied. `sidecars` has one entry for each version, `written` the moment of its last
write in a count of all writes, which is the order of modification the reviser reads them in
(`newest first`; equal modification times within one tick of the file system are not modelled, the
code breaks the tie by name). The walk of `undo` from a copy back to what it copied is the recursive
function `Origin`, and `Stack` is the stack a chain stands for. The code guards this walk against
cycles; none can arise, the walk has exactly one result for every version (`OriginKnown`). The game
to be changed or undone is selected by its title, also one it had before or the history mentions, so
`Targets` are the versions that were the last of their chain to have their title (`Title`); `Saved`
are the stacks of all versions, and `UndoHistory` lets an undo go back from an earlier one only
under a title that is not the present one's. A change may leave the settings as they are: it writes
a version all the same when it also named an object that cannot be changed.

`FetchBroker`: `Try` is one address up to the headers of its reply, under timeouts and the watchdog;
`Read` is the body, whose deadline is looked at between reads of 64 KiB only.

`MC*` modules hold what only TLC needs; their bounds are constants the `.cfg` files set, so that the
theorems about them are not theorems about one instance. `MCApiProcess` and `MCLifecycles` put
components that share no state side by side; a behaviour belongs to one of them (its part), so each
run is the union of their state spaces and not the product. `*Proofs` modules hold the theorems. An
operator preceded by "Mutant" is a plausible bug in the definition after it; it belongs to no
specification and shows that a property notices it.

## Runs

| Run | Checks | Bounds | Result |
|---|---|---|---|
| `state_lock_prompt` | `TypeOK`, `UpdatesAreAtomic` | 2 writers, 2 repositories, hold limit 2 below stale limit 3, no crash, the OS may refuse to make or inspect a lock | holds |
| `state_lock_crash` | `LockIsOwned`, `CrashDoesNotWedge` | 2 writers, hold limit 1 below stale limit 2, 2 crashes, 1 operation refused on a lock that was made | holds |
| `state_lock_breakers` | `UpdatesAreAtomic` | a crash, 2 repositories | violated |
| `store_partial` | `TypeOK`, `OneRevisionPerSource`, `ChunksMatchDocuments`, `ServedContentIsAllowed`, `ReloadIsTheLoop`, `LossIsBounded`, `CompactKeepsView`, `ActsAsView` | 2 sources, 2 revisions, 4 lines, 2 appends cut short, 2 restarts, loads that fail or stop half-way | holds |
| `store_garbled_tail` | `CutAppendCostsLittle` | 1 append cut short, 1 restart | violated |
| `ingest_pairing` | `TypeOK`, `SnapshotPaired`, `Converges` | README (safe or unsafe), 1 docs file (a document or blank) and 1 document at the root, 3 commits of any one file, 1 force push, forced runs, 1 GitHub error, 1 lost index | holds |
| `ingest_crash` | `CursorNotAhead`, `UnchangedMeansCurrent`, `Converges`, `UsesItsFiles` | README, 1 docs file and 1 document at the root, 2 aborted runs, 2 restarts, 1 GitHub error, files only get newer | holds |
| `ingest_activity` | `StaleIsPending`, `Converges` | 1 pull request, 1 issue, 2 revisions (2 is unsafe), overlap 2, runs of at most 1 time unit, 1 error, 1 abort | holds |
| `ingest_two_workers` | `UnchangedMeansCurrent` | 2 workers, README only | violated |
| `api_process` | one type invariant and the invariants of six parts (below) | below | holds |
| `life_cycles` | `OneLoop`, `StopEndsEveryLoop`; `PermitsBalanced`, `OnlyCheckedTargets`, `EveryFetchEnds`; `EverySaveIsNew`, `UndoIsAStack` | below | holds |
| `artifacts_same_second` | `EverySaveIsNew` | 2 threads, 1 change of second | violated |

The parts of `api_process`:

- `RateLimiter`: `AtMostPerMinute`, `FullMeansBusy`, `AdviceIsExact`. 3 clients for a table of 2, 2
  requests in a window of 3 ticks, 2 ticks to the second, so that rounding up matters; the clock
  stops at 4, after one whole window and one tick more.
- `RepresentationCache`: `AnswerIsCurrent`. 2 threads, 2 URLs for a cache of 1 entry (so entries are
  evicted between question and answer), 1 retry, 2 changes on GitHub, 1 fault; no two threads
  request one URL.
- `Listing`: `NothingSkipped`. 4 pull requests and 1 issue on pages of 2, a limit of 3, 3 edits.
- `RetrieverIndex`: `AnswersFromTheStore`. 3 chunks in 2 repositories, 2 searching threads, a pool
  of 1 candidate, 1 remembered filter.
- `QuarantineReview`: `OnlyApprovedIsAdmitted`, `OneReleasePerOperator`. 2 documents, 2 operators, 3
  records, 3 appends.
- `ChatService`: `SlotIsItsGeneration`, `NothingUnscreenedPasses`, `RecordsAreTrue`. 2 threads, 2
  requests of any kind, 1 model call of a generator.

Threads and clients are interchangeable in these six modules (nothing chooses among them by name)
and only invariants are checked of them, so TLC is told of that symmetry.

Those of `life_cycles`: `BackgroundRefresher` with 3 threads to start and 3 ticks; `FetchBroker`
with 2 fetches, 1 permit, 1 redirect, 3 URLs of which 2 are allowed, 3 addresses of which 2 are
global; `GameVersions` with 1 thread, 2 requests, 2 settings with a title of their own, 5 versions.

Why the bounds suffice. The lock races need two writers, and a third adds none to a lock with a
single directory; with two repositories a lost update of the other entry is visible. In the store a
source needs two revisions for one to supersede the other, two sources for one to be cut off from
the other, four lines for a compaction (`MinDead` 2 in place of 64) with something live left, and
two restarts for a gate that tightens and loosens. In the pipeline three commits give a change, its
reversal and a HEAD that moved again, or a fork; one docs file beside the README distinguishes
"named by the diff" from "in the snapshot". Every table of `api_process` has room for fewer entries
than there are contenders, every window and page is crossed once, and two threads are what its locks
and critical sections are about. Three starts of the refresher are a stop that gives up, a start
over it, and one more. Five versions of a game are make, change, undo, undo or change again; with a
title in each setting every change is also a renaming, so that former titles select all they can.

Deadlock is checked except in `api_process`, `life_cycles` and `artifacts_same_second`. Their parts
really stop: the logs of the review are full, the clock of the limiter and the edits of the listing
are used up, all threads of the refresher have been started, all fetches are done, all versions are
written.

The assumptions that separate the passing runs from the violations are part of what is claimed:
prompt writers (`HoldLimit < LockStale`, no crash, no refusal) for the atomicity of the state file,
two documents for each append cut short between characters, one ingestion of a repository at a time,
runs shorter than the overlap, files that only get newer when runs are aborted, deletions not
followed by a restart, no two requests for one URL at a time, no more items than a snapshot brings,
one thread that saves games. Each violation drops one of them.

## Fairness

- `StateStore`: weak fairness on each writer's steps, on time, and on being called again, because
  the refresher calls periodically. The operating system owes a waiter nothing when it competes for
  `mkdir`, so nothing is said of a given waiter (`dirfd_path.py:263`): it may starve. The run that
  uses it has `LockFaults = FALSE`.
- `Ingestion`: weak fairness on a started run, on starting another (the refresher's loop) and on
  time. Errors, aborts, restarts, pushes and force pushes are bounded and not fair: `Converges` says
  what happens once they stop.
- `BackgroundRefresher`: weak fairness on the steps of a loop that is alive, a tick's end included,
  because every request of a tick has a timeout. Nobody has to start or stop anything.
- `FetchBroker`: weak fairness on a fetch that has begun: it waits for the resolver with a timeout,
  and for a connection and the headers with theirs and under the watchdog (`transport.py:225-252`).
  None on lookups, which the operating system may never answer, and none on `Read`: the watchdog is
  cancelled once the headers are there. `EveryFetchEnds` is therefore about fetches that are not
  left reading one body for ever; that bodies follow on each other for ever is impossible, and
  shown.

Everything else is safety and assumes no fairness.

## Deviations found

Four are runs, with an entry under `findings` that quotes the sentence of the repository they
contradict: two waiters break the same stale lock; an append cut within a character costs the whole
index; two ingestions of one repository leave the older tree under the newer cursor; two saves in
one second take the same name.

More are reachable in the models when an instance is changed, or were met while reading:

- A lock directory outlives its update without a crash when the inspection after `mkdir` raises
  (`dirfd_path.py:258`, before the `try` at 278) or the `rmdir` of the `finally` is refused
  (282-284). The next writers wait until it looks stale, and with it comes all that can go wrong
  with a stale one. A removal that fails (269-271) is tried again at once and for as long as it
  fails: that branch does not look at the deadline.
- A load that is stopped by its gate's log (`store.py:284`, `gate.py:640-651`) leaves the records
  before in memory, and the service serves this half of the index (`service.py:682`), among it
  revisions that later lines supersede; the docstring of `load` says of a torn line that it "must
  not leave a half-loaded index" (`store.py:248-249`). `LossIsBounded` and `ActsAsView` leave such a
  start out (`half`).
- A document at the root of the repository is collected with the docs (`github_client.py:554-560`)
  but a diff that names only it indexes nothing and moves the cursor (`pipeline.py:691-696`): the
  older revision is served until something else brings a snapshot or touches `docs/`, although "a
  top-level `SPEC.md` or `TODO.md` is documentation by any reading" (`github_client.py:529-531`).
  One that is deleted is retired by a snapshot only (`pipeline.py:125-130`). The same holds for the
  second copy of the README.
- A file that becomes empty, undecodable or too large keeps its last revision in the index until a
  snapshot (`pipeline.py:708`, `731`). `Followed` excludes these files and the documents at the root
  after a diff named them, and `MissedForAReason` says that there are no others.
- A record appended behind a torn line is lost with it (`store.py:627`): `_append` does not look at
  how the file ends. `LossIsBounded` counts it as the second of the two documents.
- The loops over the quarantine log and the release log (`quarantine_review.py:180`, `219`) decode
  outside their `try` as `load()` does: behind a record cut within a character nothing can be listed
  or released. `QuarantineReview` tears between characters only.
- A force push. The compare API diffs against the merge base (`github_client.py:592`), so when HEAD
  moves back the diff is empty, the cursor moves and the newer files stay. `SnapshotPaired` without
  its last hypothesis is violated in `ingest_pairing`; with it the run says that nothing else breaks
  the pair and that the next snapshot mends it.
- The snapshot after an error is bounded (`pipeline.py:397`): edits that do not fit are skipped and
  the cursor passes them (`StaleIsPending` with `MaxItems = 1` and two pull requests), which
  `list_pull_requests` says of its own listing: "truncating to the newest N and then advancing the
  cursor would permanently skip the remainder" (`github_client.py:651-652`).
- A retirement is not recorded in `index.jsonl` (`pipeline.py:568`): a restart brings the document
  back and an unchanged HEAD keeps it, although the pipeline is to "retire README/docs paths that
  GitHub reports removed" (`pipeline.py:25-26`).
- A run aborted while it indexes a commit that is then reverted leaves its documents behind an empty
  diff; a rebuilding of a lost index that is interrupted after its first document is never completed
  while HEAD stands still, because `index_missing` asks whether the index is empty.
- A stricter gate brings back the superseded revision of a document at the next load.
- Two threads that request one URL (`Sharing = TRUE`): the one that gets its answer later may store
  the older representation, and the other, whose 304 confirmed the newer one, then reads the older
  body from the cache (`github_client.py:87-91`).
- After a `stop` that gave up, `start` clears the event the old loop waits for, and two loops poll
  under one status until the next stop. `OneLoop` has this as its hypothesis.
- `release_for` says "Double-release is refused, so there is at most one"
  (`quarantine_review.py:247`); two operators who look before either appends both release.
  `OneReleasePerOperator` is what is left of the sentence. A release appended behind a torn line is
  lost with it. The service builds its gate without `released_document_ids`, which only tests pass;
  where it is passed, a released document is recorded as pending again at each ingestion.
- `ContextWindowExceededError` is a `ValueError` that `chat` does not catch: the request ends as an
  internal error without an audit line. The slot is given back.
- A creation whose generator asks the model is recorded with `model_invoked` false, which is why
  `RecordsAreTrue` speaks of questions.
- When a creation or revision is withheld, `creation.outcome.summary` of the response keeps the text
  (`service.py:1693`, `1820`), although it "Carries matched keywords from a fixed table, never the
  operator's own text" (`schemas.py:175-177`).
- Answers about pages on disk (`service.py:1439-1673`) repeat titles from sidecars, which the model
  or an operator may have written, and a turn of the history, and the lists of what was made repeat
  names; none of this is scanned, and the output guard is stricter than the gate that let it in.
  `NothingUnscreenedPasses` is about all other answers.
- A torn audit line is glued to the next one: one write failed, a reader misses two lines. A failed
  write may also have left its whole line. `RecordsAreTrue` bounds the difference by the failed
  writes.
- A peer that sends its body in drips is read beyond the deadline (`transport.py:339-346`): a read
  asks for 64 KiB and returns when it has them or the peer ends, each `recv` under a timeout of its
  own.
- The short list of the full-text index is taken for complete: false matches of a phrase use up its
  `LIMIT`, and a term of underscores alone matches nothing (`candidates.py:228-233`, `250-253`), so
  chunks that are due may be missing although fewer than the limit were found. "Extra candidates are
  free", says the docstring. `AnswersFromTheStore` claims completeness only where the search was not
  narrowed.
- After a renaming a former title selects the version that had it last (`revise.py:1425-1440`): a
  change or an undo starts from there, and several settings are gone from the stack at once.
- Undoing twice walks back two changes; a comment says that a second one "walks forward again"
  (`revise.py:1759-1761`). `UndoIsAStack` is the behaviour of the code.

## What is proved

For every value of the constants that satisfies the module's named assumption. TLC evaluates those
assumptions in the runs.

`StateStoreProofs`:

- `StateStoreTypeCorrect`: `TypeOK`, strengthened by "inside `_locked_update` there is a request"
  (`TypeInv`), because `Save` applies the request.
- `StateStoreLockIsOwned` and with it `StateStoreMutualExclusion`, under `Timely` (`HoldLimit <
  LockStale`): crashes and refused operations are allowed, and what is claimed ends with the first
  that leaves a directory behind (`left`). The invariant `LockInv` adds that the lock is younger
  than `HoldLimit` allows while it is held, so nobody reaches `BreakStale`, and that a writer about
  to save holds the document as it is on disk. Mutual exclusion alone is not inductive: nothing in
  it keeps a waiter out of `break`. The run checks `LockIsOwned`, of which mutual exclusion is a
  consequence.
- `StateStoreUpdatesAreAtomic`, under `PromptWriters` (`Timely`, no crash, no refusal): every step
  of `StateStore` is a step of `CursorFile` or a stutter, with `pending` mapped to the request of a
  writer that has neither saved nor given up.

`DocumentStoreProofs` (files of any length):

- `StoreTypeCorrect`, `StoreOneRevisionPerSource`, `StoreChunksMatchDocuments`,
  `StoreServedContentIsAllowed`: `ServedInv`, resting on `ReloadSound` (a reload yields one
  admissible record per source, whatever the lines are).
- `StoreCompactKeepsView`: `LoadedInv` says that between `load` and `compact` memory is exactly a
  reload of the file, and `ReloadOfListing` that a listing reloads as what it lists.
- `StoreActsAsView`: every step that no cut append, half load or change of the gate disturbs is a
  step of `StoreView`. With the invariants above, an addition replaces its source in what a reload
  finds (`ReloadReplaces`), because its line is behind all others; a start that reads the file
  serves that (`ViewStep`).
- `StoreLossIsBounded`: a stop costs at most two of the served documents for each append that was
  cut short, provided the file can still be decoded and the last start read it to its end.
  `LossIsBounded` is not inductive: it is silent while the documents await a rescreen, and it counts
  a line that lost its newline as if the next append would not spoil it. `LossInv` counts what is
  missing from the lines before the unended one (`Settled`), which is what the next append leaves of
  the file; there an append that fails costs nothing at once and one that follows it costs its own
  document, so the unended line is worth one of the two (`AddLoses`, `FailedAppendLoses`,
  `LoadLoses`, `LostWithTail`). Two is tight: with one append cut short TLC finds a state that loses
  two documents.
- `StoreReloadIsTheLoop`: the loop of `load()` is the closed form. Two results of the loop would
  differ first at some line (`LeastNat`, from the well-foundedness of `<`), and cannot
  (`LoadsOnce`); the closed forms of the prefixes are such a result (`ReloadToStep`). This takes the
  place of an induction over the file.

`IngestionProofs`, with any number of workers:

- `IngestionTypeCorrect`. That a run's commits exist (`RunOK`) is part of it.
- `IngestionUsesItsFiles`: every step of the pipeline is a step of `StoreView` or a stutter
  (`StoreStep`), and one of `CursorFile` or a stutter (`CursorStep`). The first needs that what a
  run has to index exists (`RealInv`): an item in the window was opened, and an entry is not the
  revision that stands for "none", whose addition would be a removal. `StoreActsAsView` and
  `StateStoreUpdatesAreAtomic` are the other sides of the two interfaces.

`IngestionSafetyProofs`. Each theorem has hypotheses on the constants, those under which its run
passes (see "Deviations" for what happens outside them); trees, commits, items and the other bounds
are arbitrary. The inductive invariants were checked by TLC on the instances of these runs first.

- `SnapshotStaysPaired`, under `Calm` (one worker, no aborted run, no restart; force pushes, GitHub
  errors, forced runs and lost indexes are allowed). `PairInv` follows the documentation through a
  run: what the run has dealt with is as in its head (`HandledIsHead`), the rest is still awaited
  and its entries are those of the head, and after the last one the store is the head's tree, all of
  it for the files that are followed. `MissedInv` carries the reasons for which the others are not.
- `CursorNeverAhead` and `UnchangedIsCurrent`, under `Growing` (one worker, no force push, no lost
  index, files that only get newer, are all safe and give documents; aborts, restarts and GitHub
  errors anywhere). An aborted run leaves a mixture of two trees, so `GrowInv` has inequalities in
  place of equations: the store is between the cursor's tree and the tip's, in memory and in the
  log, because a restart may bring back what the log has.
- `StaleStaysPending`, under `Prompt` (one worker, no restart and no lost index, runs shorter than
  the overlap, no more items than a snapshot brings). `ItemInv` says that an item updated less than
  the overlap ago is in the window, and that an item last updated before the run began is either
  among what the run still has to index, in the revision GitHub has, or is served like that already.
  An item updated since is younger than the run is old, hence younger than the overlap when the run
  ends and the window moves.

`ApiProcessProofs` (the parts of `MCApiProcess`; a step of the process is a step of one part):

- `ReviewOnlyApproved` (any documents, operators, length of the logs): `ReviewInv` says that every
  record of the release log that can be read names a document that was approved.
- `ReviewOneReleasePerOperator` (any finite set of operators): `OnceInv` counts those who have
  looked at an entry together with its records, because each of them may still add one.
- `ClientAnswerIsCurrent`, with `Sharing = FALSE` as the run has it: `ClientInv` says that an
  entry's tag names its body, that a thread in flight is the only one at its URL, so that the entry
  it asked with is still the cache's entry or evicted when the answer arrives, and that GitHub had
  the version of the answer during the request.
- `IndexStaysAligned`, `IndexAnswersFromTheStore`: `IndexInv` says at each stage of a search
  (`StageOK`) which of the parallel lists are those of the chunks, and that the one thread that is
  past the lock looked at the store it answers from. Nothing is assumed of the short lists the
  full-text index offers.
- `LimiterAtMostPerMinute`, `LimiterFullMeansBusy`, `LimiterAdviceIsExact` (who waits for longer
  than told finds room; a second less, where that is not nothing, is too short): `LimiterInv`
  relates the window the code keeps to the history of admissions, of which it is a tail, in order of
  time.
- `ListingSkipsNothing`: `ListingInv` says that what the listing is still to bring, and nobody has
  touched, is not above the place where the next page starts (`Behind`), and in a snapshot not newer
  than what it has (`NewestFirst`).
- `ProcessTypeCorrect`: the types of all the parts, the chat's from `ChatTypeCorrect`.

`ChatServiceProofs` (any number of threads, requests and model calls): `ChatSlotIsItsGeneration`,
`ChatNothingUnscreenedPasses`, `ChatRecordsAreTrue`, from one invariant. It knows at each place of a
request what kind of request can be there, that it was screened, whether the model has been asked
and what its text is (`GoodRequest`, `GoodAttempt`, `GoodText`), and counts the threads between the
backend and the ledger, and between the audit line and its counter. None of the three is inductive:
an answer is only known to be harmless because of where it came from. Most actions move one thread
between places that hold nothing shared; the lemma `PlainKeeps` deals with them at once, and the six
that enter or leave the backend, the ledger or the log have a lemma each.

`FetchBrokerProofs` (any fetches, redirects, permits, addresses): `FetchPermitsBalanced` counts who
holds a permit through each step of the resolver, and those lost for good to threads that could not
be started, which are the only ones that are (`resolver.py:85-86`). `FetchOnlyCheckedTargets` needs
that the answer a request was based on is not replaced later: the requests of a fetch that is still
resolving belong to earlier hops (`RequestsAreEarlier`). The type invariant of `FetchBroker` is part
of the proof.

`LifecyclesProofs` (the parts of `MCLifecycles`; any starts, ticks, versions):

- `RefresherOneLoop` needs that a thread which is being joined is no longer the one the object knows
  (`JoinedIsForgotten`); `RefresherStreakIsCurrent` says that the streak of failures in the status
  ends with the last success.
- `EverySaveStays`, `GamesAreStacks`, for one thread that saves (with two, `artifacts_same_second`
  is violated). `GamesInv` says that versions and sidecars correspond (`PagesKept`), are written in
  turn (`InTurn`), that a thread's work is what the chain has on top (`WorkFits`), and that the
  recursive functions `Origin` and `Stack` exist and are unique (`OriginKnown`, `StackKnown`), and
  the abstract `saved` is the set of the stacks of all versions. A recursive function is a `CHOOSE`,
  and that there is something to choose would take an induction over the chain; as part of the
  invariant it is extended by one version in each step instead. Every step is then a push, a pop or
  a stutter of `UndoHistory`; a pop from an earlier stack needs that its version was selected by a
  title the newest one does not have.

Only model-checked: liveness (`CrashDoesNotWedge`, `Converges`, `StopEndsEveryLoop`,
`EveryFetchEnds`), which is out of reach of the prover. Every invariant and every action property
that a passing run checks is stated by a theorem.

## Not modelled

- Text: what the generators of `creation/` write, the detectors, the output guard's matching,
  normalisation and chunking, the canned replies. They are pure functions of their input, most of
  the lines of the program, and TLA+ would only repeat them.
- I/O without state: model backends, pages, authentication, configuration. Path and symlink checks.
- `evals/`, `scripts/`, tests and docs.
- Within the modelled components: the README and its copy among the documents of the root or `docs/`
  share a `doc_id` (`documents.py:247`), so that in the store the one takes the place of the other
  and is not found when the other's source is retired, which needs paths; `ingest_all`'s loop;
  retirement as several store calls (one step: with one worker nothing runs between them that
  matters); a watchdog that closes a socket while the last headers arrive; streaming (no caller in
  the API); `get_service`, whose singleton can only be raced by `create_app()` without a service;
  embeddings and scores; concurrent writers of the quarantine log.

For this reason the lines under `map` are a small part of the repository's: the stateful code is
small, and what surrounds it is text.

## Plan

Done: the modules and the proofs above.

Next proofs: `StaleStaysPending` with restarts, which needs an account of the items in the log as
`GrowInv` has one of the files; `CursorNeverAhead` with unsafe revisions, where a file that becomes
unsafe is retired and the inequality of `StoreInv` must be about what is served.

Next modules: documents with paths, for the shared `doc_id` (`documents.py:247`); the commit window
of `list_commits` under rate limits.
