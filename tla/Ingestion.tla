----------------------------- MODULE Ingestion ------------------------------
(***************************************************************************)
(* ingest_repository (ingestion/pipeline.py) for one repository: the       *)
(* commit path, the polling of pull requests and issues, the screening and *)
(* indexing of what was collected, the retirements, and the cursor.        *)
(*                                                                         *)
(* GitHub is the environment: a history of commits, each with a tree of    *)
(* documentation files, and activity items (pull requests, issues) that    *)
(* change on their own.  The repository's cursor is one entry of           *)
(* CursorFile, updated atomically as StateStore implements it.  The index  *)
(* is DocumentStore reduced to what matters here: the revision served of   *)
(* each source, and the last one logged, which a restart brings back.      *)
(*                                                                         *)
(* A revision is a number, 0 for "no file"; normalize makes no document of *)
(* those in Blank (empty, undecodable, too large), the gate rejects those  *)
(* in Unsafe.  Times are ages that saturate where the code stops caring.   *)
(***************************************************************************)
EXTENDS Integers, Sequences, FiniteSets

CONSTANTS Workers,       \* threads that ingest: the refresher, API requests
          Readme,        \* the README (get_readme)
          Docs,          \* the paths under docs/
          Beside,        \* root-level documents (list_docs_paths): SPEC.md
          Pulls, Issues, \* pull requests and issues
          History,       \* the commit documents, taken as one source
          MaxRevision, Unsafe, Blank,
          MayPush(_, _), \* which tree may follow which
          PollInterval,  \* ACTIVITY_POLL_INTERVAL_SECONDS
          Overlap,       \* ACTIVITY_CURSOR_OVERLAP_SECONDS
          MaxItems,      \* settings.max_items_per_source
          Forcing,       \* whether runs with force=True occur
          RunLimit,      \* longest time from fetching activity to the mark
          MaxCommits,    \* bound: commits of the repository
          MaxResets,     \* bound: force pushes to another commit
          MaxErrors,     \* bound: GitHub errors
          MaxAborts,     \* bound: exceptions out of add or a state update
          MaxRestarts,   \* bound: crashes of the process
          MaxLosses      \* bound: crashes after which index.jsonl is gone

Documentation == {Readme} \cup Docs \cup Beside
Activity == Pulls \cup Issues
Source == Documentation \cup Activity \cup {History}
Revision == 0..MaxRevision
Tree == [Documentation -> Revision]
Stored == [Source -> Revision]

ASSUME IngestionAssumption ==
  /\ MaxRevision \in Nat \ {0} /\ Unsafe \subseteq 1..MaxRevision
  /\ 1 \notin Unsafe /\ Blank \subseteq 1..MaxRevision
  /\ PollInterval \in Nat /\ Overlap \in Nat /\ RunLimit \in Nat
  /\ MaxItems \in Nat \ {0} /\ Forcing \in BOOLEAN
  /\ MaxCommits \in Nat \ {0} /\ MaxResets \in Nat /\ MaxErrors \in Nat /\ MaxAborts \in Nat
  /\ MaxRestarts \in Nat /\ MaxLosses \in Nat
  /\ Readme \notin Docs \cup Beside /\ Docs \cap Beside = {} /\ Pulls \cap Issues = {}
  /\ Documentation \cap Activity = {} /\ IsFiniteSet(Activity)
  /\ History \notin Documentation \cup Activity

VARIABLES
  history,   \* GitHub: the trees of the commits, in the order they were made
  ancestry,  \* GitHub: each commit and those it descends from
  tip,       \* GitHub: HEAD of the default branch
  item,      \* GitHub: the revision of each pull request and issue
  newer,     \* GitHub: for each item, those updated since it was
  age,       \* time since each item was updated
  cursor,    \* state.json: last_commit_sha and whether last_error is set
  stamp,     \* age of last_ingested_at
  window,    \* items updated since last_ingested_at less the overlap
  index,     \* the revision of each source that is retrievable
  disk,      \* the last revision of each source in index.jsonl
  strayed,   \* history: since the last snapshot, a diff left the branch
  missed,    \* history: files a diff named and the run took no notice of
  pc, run,   \* per worker: where it is, and the locals of its call
  budget     \* what is left of the bounds

upstream == <<history, ancestry, tip, item, newer, age>>
state == <<cursor, stamp, window>>
store == <<index, disk, strayed, missed>>
vars  == <<upstream, state, store, pc, run, budget>>

-----------------------------------------------------------------------------
Empty == [s \in Source |-> 0]
Served(r) == IF r \in Unsafe THEN 0 ELSE r
Normalized(r) == IF r \in Blank THEN 0 ELSE r
Entry == [source : Source, revision : Revision]

(* The locals of ingest_repository. *)
Run == [prev : 0..MaxCommits,          \* previous_sha
        head : 0..MaxCommits,          \* head_sha
        force : BOOLEAN,
        retry : BOOLEAN,               \* retry_incomplete
        stamp : 0..PollInterval,       \* age of the loaded last_ingested_at
        since : SUBSET Activity,       \* what a query with the cursor returns
        first : BOOLEAN,               \* first_run
        all   : BOOLEAN,               \* since=None: a snapshot of activity
        todo  : SUBSET Entry,          \* documents still to be indexed
        gone  : SUBSET Source,         \* retirements and security retirements
        full  : BOOLEAN,               \* documentation_snapshot_complete
        keep  : SUBSET Documentation,  \* current_documentation_sources
        missed : SUBSET Documentation, \* history: missed, when it is through
        elapsed : 0..RunLimit]         \* time since activity was fetched

NoRun == [prev |-> 0, head |-> 0, force |-> FALSE, retry |-> FALSE, stamp |-> 0,
          since |-> {}, first |-> FALSE, all |-> FALSE, todo |-> {},
          gone |-> {}, full |-> FALSE, keep |-> {}, missed |-> {}, elapsed |-> 0]

Location == {"idle", "head", "collect", "poll", "index", "mark", "failed"}

Spend(kind) == /\ budget[kind] > 0
               /\ budget' = [budget EXCEPT ![kind] = @ - 1]

Finish(w) == /\ pc' = [pc EXCEPT ![w] = "idle"]
             /\ run' = [run EXCEPT ![w] = NoRun]

Init ==
  /\ history \in {<<t>> : t \in {u \in Tree : MayPush([s \in Documentation |-> 0], u)}}
  /\ ancestry = <<{1}>> /\ tip = 1
  /\ item = [i \in Activity |-> 0]
  /\ newer = [i \in Activity |-> {}]
  /\ age = [i \in Activity |-> 0]
  /\ cursor = [sha |-> 0, failed |-> FALSE]
  /\ stamp = PollInterval
  /\ window = {}
  /\ index = Empty /\ disk = Empty /\ strayed = FALSE /\ missed = {}
  /\ pc = [w \in Workers |-> "idle"]
  /\ run = [w \in Workers |-> NoRun]
  /\ budget = [error |-> MaxErrors, abort |-> MaxAborts,
               restart |-> MaxRestarts, loss |-> MaxLosses,
               reset |-> MaxResets]

-----------------------------------------------------------------------------
(* The call: the state file is read once, at the start. *)
Start(w, force) ==
  /\ pc[w] = "idle"
  /\ force => Forcing
  /\ pc' = [pc EXCEPT ![w] = "head"]
  /\ run' = [run EXCEPT ![w] =
       [NoRun EXCEPT !.prev = cursor.sha, !.force = force,
                     !.retry = cursor.failed /\ ~force,
                     !.stamp = stamp, !.since = window, !.missed = missed]]
  /\ UNCHANGED <<upstream, state, store, budget>>

(* Mutant: a lost index is not noticed while HEAD stands still. *)
ResolveHeadOnly(w) ==
  LET r == run[w]
      path == IF tip = r.prev /\ ~r.force /\ ~r.retry
              THEN IF r.stamp < PollInterval THEN "idle" ELSE "poll"
              ELSE "collect"
  IN /\ pc[w] = "head"
     /\ pc' = [pc EXCEPT ![w] = path]
     /\ run' = [run EXCEPT ![w] =
          IF path = "idle" THEN NoRun
          ELSE [r EXCEPT !.head = tip,
                         !.first = r.prev = 0 \/ r.force \/ r.retry,
                         !.all = r.retry \/ r.prev = 0]]
     /\ UNCHANGED <<upstream, state, store, budget>>

(* HEAD is resolved and compared with the cursor and the index: nothing to *)
(* do, a poll of the activity, or a collection.  A collection is a full    *)
(* snapshot on the first run, when forced, when the index is missing       *)
(* (rehydrate_index) and after a failed run (retry_full_snapshot).         *)
ResolveHead(w) ==
  LET r == run[w]
      rehydrate == r.prev # 0 /\ index = Empty /\ ~r.force
      path == IF tip = r.prev /\ ~r.force /\ ~rehydrate /\ ~r.retry
              THEN IF r.stamp < PollInterval THEN "idle" ELSE "poll"
              ELSE "collect"
  IN /\ pc[w] = "head"
     /\ pc' = [pc EXCEPT ![w] = path]
     /\ run' = [run EXCEPT ![w] =
          IF path = "idle" THEN NoRun
          ELSE [r EXCEPT !.head = tip,
                         !.first = r.prev = 0 \/ r.force \/ rehydrate \/ r.retry,
                         !.all = rehydrate \/ r.retry \/ r.prev = 0]]
     /\ UNCHANGED <<upstream, state, store, budget>>

(* GitHub fails while HEAD is resolved, or any part of a collection or a   *)
(* poll does: nothing is indexed or retired, and mark_error follows.       *)
FetchFails(w) ==
  /\ pc[w] \in {"head", "collect", "poll"}
  /\ Spend("error")
  /\ pc' = [pc EXCEPT ![w] = "failed"]
  /\ UNCHANGED <<upstream, state, store, run>>

(* The items of one kind a query returns: all in the window of the cursor, *)
(* or without a cursor the last MaxItems to be updated.                    *)
Listed(kind, r) ==
  IF r.all
  THEN {i \in kind : item[i] # 0 /\ Cardinality(newer[i] \cap kind) < MaxItems}
  ELSE kind \cap r.since

ActivityEntries(r) == {[source |-> i, revision |-> item[i]] :
                         i \in Listed(Pulls, r) \cup Listed(Issues, r)}

(* compare/base...head: what head has changed since the commit where the   *)
(* two parted, which is base itself as long as nobody rewrites the branch. *)
MergeBase(base, head) ==
  CHOOSE c \in ancestry[base] \cap ancestry[head] :
    \A d \in ancestry[base] \cap ancestry[head] : d <= c

(* What the diff of two trees names, and what of it is retired because it  *)
(* is reported as removed (or renamed away): a README, or a path of docs/. *)
Changed(old, new) == {s \in Documentation : old[s] # new[s]}
Removed(old, new) == {s \in Changed(old, new) \ Beside : new[s] = 0}

(* The documents that are collected of a tree: the README if the diff      *)
(* names it, all that list_docs_paths lists if it names a path of docs/,   *)
(* and both in a snapshot.  A root-level document that is named calls for  *)
(* nothing.                                                                *)
Fetched(changed, full, tree) ==
  {s \in (IF full \/ Readme \in changed THEN {Readme} ELSE {})
          \cup (IF full \/ changed \cap Docs # {} THEN Docs \cup Beside ELSE {}) :
     Normalized(tree[s]) # 0}

(* Mutant: the cursor moves as soon as the collection is complete. *)
CollectAndMark(w) ==
  LET r == run[w]
      tree == history[r.head]
  IN /\ pc[w] = "collect"
     /\ run' = [run EXCEPT ![w].todo =
          {[source |-> s, revision |-> tree[s]] :
             s \in Fetched({}, TRUE, tree)}]
     /\ cursor' = [sha |-> r.head, failed |-> FALSE]
     /\ pc' = [pc EXCEPT ![w] = "index"]
     /\ UNCHANGED <<upstream, stamp, window, store, budget>>

(* _collect.  The compare response may be too long to be complete; then,   *)
(* as in a snapshot, README and docs are fetched whatever the diff says.   *)
Collect(w) ==
  LET r == run[w]
      tree == history[r.head]
      from == IF r.first THEN 0 ELSE MergeBase(r.prev, r.head)
      old == IF r.first THEN tree ELSE history[from]
      changed == Changed(old, tree)
  IN /\ pc[w] = "collect"
     /\ \E truncated \in BOOLEAN :
          LET full == r.first \/ truncated
              fetched == Fetched(changed, full, tree)
              gone == Removed(old, tree)
          IN /\ truncated => ~r.first
             /\ run' = [run EXCEPT ![w] = [r EXCEPT
                  !.todo = {[source |-> s, revision |-> tree[s]] : s \in fetched}
                           \cup {[source |-> History, revision |-> 1] : c \in {r.head} \ {from}}
                           \cup ActivityEntries(r),
                  !.gone = gone,
                  !.full = full,
                  !.keep = IF full THEN fetched ELSE {},
                  !.missed = IF full THEN {}
                             ELSE (r.missed \cup changed) \ (fetched \cup gone)]]
     /\ pc' = [pc EXCEPT ![w] = "index"]
     /\ UNCHANGED <<upstream, state, store, budget>>

(* Mutant: an item that is in the index at all is taken to be current. *)
PollUnknownOnly(w) ==
  /\ pc[w] = "poll"
  /\ run' = [run EXCEPT ![w].todo =
       {e \in ActivityEntries(run[w]) : index[e.source] = 0}]
  /\ pc' = [pc EXCEPT ![w] = "index"]
  /\ UNCHANGED <<upstream, state, store, budget>>

(* _poll_mutable_activity: the items in the window of the cursor that are  *)
(* not in the index as they are now.                                       *)
Poll(w) ==
  /\ pc[w] = "poll"
  /\ run' = [run EXCEPT ![w].todo =
       {e \in ActivityEntries(run[w]) : index[e.source] # e.revision}]
  /\ pc' = [pc EXCEPT ![w] = "index"]
  /\ UNCHANGED <<upstream, state, store, budget>>

(* Documents are indexed in the order they were collected. *)
FirstOf(todo) ==
  LET at(group) == {e \in todo : e.source \in group}
  IN IF at({History}) # {} THEN at({History})
     ELSE IF at({Readme}) # {} THEN at({Readme})
     ELSE IF at(Beside) # {} THEN at(Beside)
     ELSE IF at(Docs) # {} THEN at(Docs)
     ELSE IF at(Pulls) # {} THEN at(Pulls) ELSE todo

(* Mutant: a document is indexed without being logged. *)
IndexInMemory(w) ==
  /\ pc[w] = "index"
  /\ \E e \in FirstOf(run[w].todo) :
       /\ run' = [run EXCEPT ![w].todo = @ \ {e}]
       /\ index' = [index EXCEPT ![e.source] = Served(e.revision)]
  /\ UNCHANGED <<upstream, state, disk, strayed, missed, pc, budget>>

(* _screen_and_index: the next document is added to the store, or its      *)
(* source is noted for retirement because the gate rejects the revision.   *)
IndexOne(w) ==
  /\ pc[w] = "index"
  /\ \E e \in FirstOf(run[w].todo) :
       IF e.revision \in Unsafe
       THEN /\ run' = [run EXCEPT ![w].todo = @ \ {e}, ![w].gone = @ \cup {e.source}]
            /\ UNCHANGED store
       ELSE /\ run' = [run EXCEPT ![w].todo = @ \ {e}]
            /\ index' = [index EXCEPT ![e.source] = e.revision]
            /\ disk' = [disk EXCEPT ![e.source] = e.revision]
            /\ UNCHANGED <<strayed, missed>>
  /\ UNCHANGED <<upstream, state, pc, budget>>

(* The cursor is no ancestor of HEAD: the diff was not against its tree. *)
LeavesBranch(r) == r.prev # 0 /\ r.prev \notin ancestry[r.head]

(* Mutant: only what the diff names is retired. *)
RetireNamed(w) ==
  /\ pc[w] = "index" /\ run[w].todo = {}
  /\ index' = [s \in Source |-> IF s \in run[w].gone THEN 0 ELSE index[s]]
  /\ strayed' = IF run[w].full THEN FALSE ELSE strayed \/ LeavesBranch(run[w])
  /\ missed' = run[w].missed
  /\ pc' = [pc EXCEPT ![w] = "mark"]
  /\ UNCHANGED <<upstream, state, disk, run, budget>>

(* Retirements, and after a full snapshot every README and docs source     *)
(* that is no longer in it.  Memory only: the log keeps the revisions.     *)
Retire(w) ==
  LET r == run[w]
      leaves(s) == \/ s \in r.gone
                   \/ r.full /\ s \in Documentation \ r.keep
  IN /\ pc[w] = "index" /\ r.todo = {}
     /\ index' = [s \in Source |-> IF leaves(s) THEN 0 ELSE index[s]]
     /\ strayed' = IF r.full THEN FALSE ELSE strayed \/ LeavesBranch(r)
     /\ missed' = r.missed
     /\ pc' = [pc EXCEPT ![w] = "mark"]
     /\ UNCHANGED <<upstream, state, disk, run, budget>>

(* Whether the next query, with a cursor set now, returns the item: pull   *)
(* requests are filtered by the client (updated_at > since), issues by     *)
(* GitHub (updated_at >= since).                                           *)
StaysInWindow(i) == IF i \in Pulls THEN age[i] < Overlap ELSE age[i] <= Overlap

(* Mutant: the next query starts where this run ended. *)
MarkIngestedNoOverlap(w) ==
  /\ pc[w] = "mark"
  /\ cursor' = [sha |-> run[w].head, failed |-> FALSE]
  /\ stamp' = 0
  /\ window' = {}
  /\ Finish(w)
  /\ UNCHANGED <<upstream, store, budget>>

(* Mutant: the entry is written anew, without its last_error. *)
MarkIngestedBare(w) ==
  /\ pc[w] = "mark"
  /\ cursor' = [sha |-> run[w].head]
  /\ stamp' = 0
  /\ window' = {i \in Activity : item[i] # 0 /\ StaysInWindow(i)}
  /\ Finish(w)
  /\ UNCHANGED <<upstream, store, budget>>

(* mark_ingested: the run is complete. *)
MarkIngested(w) ==
  /\ pc[w] = "mark"
  /\ cursor' = [sha |-> run[w].head, failed |-> FALSE]
  /\ stamp' = 0
  /\ window' = {i \in Activity : item[i] # 0 /\ StaysInWindow(i)}
  /\ Finish(w)
  /\ UNCHANGED <<upstream, store, budget>>

(* mark_error: the cursor stays, the next run will take a full snapshot. *)
MarkError(w) ==
  /\ pc[w] = "failed"
  /\ cursor' = [cursor EXCEPT !.failed = TRUE]
  /\ Finish(w)
  /\ UNCHANGED <<upstream, stamp, window, store, budget>>

(* Mutant: the cursor is set in a finally clause. *)
AbortMarks(w) ==
  /\ pc[w] \in {"index", "mark", "failed"}
  /\ Spend("abort")
  /\ cursor' = [sha |-> run[w].head, failed |-> FALSE]
  /\ Finish(w)
  /\ UNCHANGED <<upstream, stamp, window, store>>

(* An exception that is not a GitHub error leaves ingest_repository:       *)
(* store.add could not append, or the state file could not be updated.     *)
Abort(w) ==
  /\ pc[w] \in {"index", "mark", "failed"}
  /\ Spend("abort")
  /\ Finish(w)
  /\ UNCHANGED <<upstream, state, store>>

(* The process dies and is started again: the index is what load() finds.  *)
Restart ==
  /\ Spend("restart")
  /\ pc' = [w \in Workers |-> "idle"]
  /\ run' = [w \in Workers |-> NoRun]
  /\ index' = disk
  /\ UNCHANGED <<upstream, state, disk, strayed, missed>>

(* ... and index.jsonl cannot be read, or is gone, while state.json        *)
(* survived.                                                               *)
LoseIndex ==
  /\ Spend("loss")
  /\ pc' = [w \in Workers |-> "idle"]
  /\ run' = [w \in Workers |-> NoRun]
  /\ index' = Empty /\ disk' \in {disk, Empty}
  /\ UNCHANGED <<upstream, state, strayed, missed>>

(* A commit is pushed to the default branch. *)
Push(tree) ==
  /\ Len(history) < MaxCommits
  /\ MayPush(history[tip], tree)
  /\ history' = Append(history, tree)
  /\ tip' = Len(history) + 1
  /\ ancestry' = Append(ancestry, ancestry[tip] \cup {tip'})
  /\ UNCHANGED <<item, newer, age, state, store, pc, run, budget>>

(* A force push: the branch now ends with another commit.  With Push after *)
(* it, the branch has diverged.                                            *)
Reset(commit) ==
  /\ Spend("reset")
  /\ tip' = commit
  /\ UNCHANGED <<history, ancestry, item, newer, age, state, store, pc, run>>

(* A pull request or an issue is opened or edited now. *)
Edit(i) ==
  /\ item[i] < MaxRevision
  /\ item' = [item EXCEPT ![i] = @ + 1]
  /\ newer' = [j \in Activity |-> IF j = i THEN {} ELSE newer[j] \cup {i}]
  /\ age' = [age EXCEPT ![i] = 0]
  /\ window' = window \cup {i}
  /\ run' = [w \in Workers |-> IF pc[w] \in {"head", "poll", "collect"}
                               THEN [run[w] EXCEPT !.since = @ \cup {i}] ELSE run[w]]
  /\ UNCHANGED <<history, ancestry, tip, cursor, stamp, store, pc, budget>>

Older(n, limit) == IF n < limit THEN n + 1 ELSE n

(* One time unit.  RunLimit is what the environment grants a run between   *)
(* fetching the activity and the mark.                                     *)
Tick ==
  /\ \A w \in Workers : pc[w] \in {"index", "mark"} => run[w].elapsed < RunLimit
  /\ age' = [i \in Activity |-> Older(age[i], Overlap + 1)]
  /\ stamp' = Older(stamp, PollInterval)
  /\ run' = [w \in Workers |->
       IF pc[w] = "head"
       THEN [run[w] EXCEPT !.stamp = Older(@, PollInterval)]
       ELSE IF pc[w] \in {"index", "mark"} THEN [run[w] EXCEPT !.elapsed = @ + 1]
       ELSE run[w]]
  /\ UNCHANGED <<history, ancestry, tip, item, newer, cursor, window, store, pc, budget>>

Step(w) == \/ ResolveHead(w) \/ FetchFails(w)
           \/ Collect(w) \/ Poll(w)
           \/ IndexOne(w) \/ Retire(w)
           \/ MarkIngested(w) \/ MarkError(w) \/ Abort(w)

Next == \/ \E w \in Workers : Step(w) \/ \E force \in BOOLEAN : Start(w, force)
        \/ Restart \/ LoseIndex
        \/ \E tree \in Tree : Push(tree)
        \/ \E commit \in DOMAIN history \ {tip} : Reset(commit)
        \/ \E i \in Activity : Edit(i)
        \/ Tick

Spec == Init /\ [][Next]_vars

(* The store as DocumentStore promises it: a run changes it by additions   *)
(* and retirements only, and what it is after a restart was added before.  *)
Held(stored) == {e \in Entry : e.revision # 0 /\ stored[e.source] = e.revision}

Index == INSTANCE StoreView WITH
  Documents <- Entry, view <- Held(index), file <- Held(disk)

(* The state file as StateStore implements it: a run that is through asks  *)
(* for one update of its repository's cursor, which takes effect at once,  *)
(* is refused, or is gone with the process.                                *)
NoRequest == [kind |-> "none"]
Requested(w) == CASE pc[w] = "mark"   -> [kind |-> "ingested", repo |-> History, sha |-> run[w].head]
                  [] pc[w] = "failed" -> [kind |-> "error", repo |-> History, sha |-> 1]
                  [] OTHER            -> NoRequest

File == INSTANCE CursorFile WITH
  Writers <- Workers, Repositories <- {History}, Commits <- 1..MaxCommits, NoCommit <- 0,
  table <- [r \in {History} |-> cursor], pending <- [w \in Workers |-> Requested(w)]

(* The pipeline expects no more of its two files than they promise, and    *)
(* moves the cursor only by a request of a run that is through.            *)
UsesItsFiles == Index!Spec /\ File!Spec

(* The background refresher calls again and again, a call that is running  *)
(* goes on, and time passes.                                               *)
Fairness == /\ WF_vars(Tick)
            /\ \A w \in Workers : WF_vars(Step(w)) /\ WF_vars(Start(w, FALSE))

FairSpec == Spec /\ Fairness

-----------------------------------------------------------------------------
(* Every variable keeps its type. *)
TypeOK ==
  /\ history \in Seq(Tree) /\ Len(history) \in 1..MaxCommits
  /\ ancestry \in Seq(SUBSET (1..MaxCommits)) /\ Len(ancestry) = Len(history)
  /\ tip \in DOMAIN history
  /\ item \in [Activity -> Revision]
  /\ newer \in [Activity -> SUBSET Activity]
  /\ age \in [Activity -> 0..(Overlap + 1)]
  /\ cursor \in [sha : 0..MaxCommits, failed : BOOLEAN]
  /\ stamp \in 0..PollInterval /\ window \subseteq Activity
  /\ index \in Stored /\ disk \in Stored /\ strayed \in BOOLEAN
  /\ missed \subseteq Documentation
  /\ pc \in [Workers -> Location] /\ run \in [Workers -> Run]
  /\ \A k \in {"error", "abort", "restart", "loss", "reset"} : budget[k] \in Nat

Indexing == \E w \in Workers : pc[w] \in {"index", "mark"}

Indexed(s) == IF s \in Activity THEN Served(item[s])
              ELSE Served(Normalized(history[cursor.sha][s]))

(* The files the next diffs can be relied on for. *)
Followed == Documentation \ missed

(* A file that a diff has named is lost sight of, until a snapshot or the  *)
(* next time it is fetched, only if it is a root-level document, or at     *)
(* some time was one normalize makes no document of.                       *)
MissedForAReason ==
  \A s \in missed : s \in Beside \/ \E c \in DOMAIN history : history[c][s] \in Blank

(* "The prior SHA and retrievable snapshot stay paired": whenever no run   *)
(* is in the middle of indexing, the README and docs that can be retrieved *)
(* are those of the tree the cursor names, without what the gate rejects   *)
(* and without what the tree no longer has; or the index is missing.  The  *)
(* pair is broken, until the next snapshot, by a force push, and for one   *)
(* file by a diff that names it and is not acted upon, which is so only    *)
(* for the reasons above.                                                  *)
SnapshotPaired ==
  /\ MissedForAReason
  /\ ~Indexing /\ cursor.sha # 0 /\ index # Empty /\ ~strayed
       => \A s \in Followed : index[s] = Indexed(s)

(* "Changed knowledge cannot be silently missed": when the next run would  *)
(* look no further, because HEAD is the cursor, the index is there and no  *)
(* error is recorded, what is served of a file the diffs are relied on for *)
(* is what HEAD has.  (SnapshotPaired says which files those are, and what *)
(* a force push does to them.)                                             *)
UnchangedMeansCurrent ==
  /\ \A w \in Workers : pc[w] = "idle"
  /\ cursor = [sha |-> tip, failed |-> FALSE]
  /\ index # Empty
  => \A s \in Followed : index[s] = Indexed(s)

(* "Advance persisted polling state only after a complete collection and   *)
(* indexing pass": at any moment, crashes and aborted runs included, none  *)
(* of these files is served in an older revision than the cursor stands    *)
(* for.  Stated for histories in which revisions only grow.                *)
CursorNotAhead ==
  cursor.sha # 0 => \A s \in Followed : index[s] >= history[cursor.sha][s]

(* "An update racing the previous poll is not lost": a pull request or     *)
(* issue that is not served as it is on GitHub is still going to be        *)
(* fetched, by the window of the cursor or by the snapshot that follows an *)
(* error.                                                                  *)
StaleIsPending ==
  ~Indexing /\ cursor.sha # 0 /\ index # Empty =>
    \A i \in Activity : index[i] # Indexed(i) => i \in window \/ cursor.failed

(* When GitHub stops changing and failing, the index ends up as what is on *)
(* GitHub at HEAD, and stays so; the documentation as far as the diffs are *)
(* relied on for it, and only if none was taken across a force push after  *)
(* the last snapshot.                                                      *)
UpToDate ==
  /\ cursor = [sha |-> tip, failed |-> FALSE]
  /\ \A s \in Activity : index[s] = Indexed(s)
  /\ ~strayed => \A s \in Followed : index[s] = Indexed(s)
Converges == <>[]UpToDate
=============================================================================
