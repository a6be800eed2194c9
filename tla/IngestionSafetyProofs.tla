------------------------ MODULE IngestionSafetyProofs ------------------------
(***************************************************************************)
(* Proofs about Ingestion: the cursor and the documentation that is served *)
(* stay paired (SnapshotStaysPaired), the cursor never claims more than    *)
(* the store has (CursorNeverAhead, UnchangedIsCurrent), and an item that  *)
(* is served stale is still to be fetched (StaleStaysPending).             *)
(***************************************************************************)
EXTENDS IngestionProofs

-----------------------------------------------------------------------------
(* One worker: the property fails with two. *)
OneWorker == \A v, w \in Workers : v = w

LEMMA AloneWorker ==
  ASSUME OneWorker, TypeInv, NEW w \in Workers, NEW place, NEW r, Alone(w, place, r)
  PROVE  pc'[w] = place /\ run'[w] = r /\ \A v \in Workers : v = w
BY DEF OneWorker, TypeInv, TypeOK, Alone

(* The locals that decide about the documentation. *)
SameWork(r, q) ==
  /\ r.prev = q.prev /\ r.head = q.head /\ r.first = q.first
  /\ r.todo = q.todo /\ r.gone = q.gone /\ r.full = q.full /\ r.keep = q.keep
  /\ r.missed = q.missed

(* What happens on GitHub, and time, leaves them and the commits alone. *)
Outside ==
  /\ UNCHANGED <<cursor, store, pc>>
  /\ DOMAIN history \subseteq DOMAIN history'
  /\ \A c \in DOMAIN history : history'[c] = history[c] /\ ancestry'[c] = ancestry[c]
  /\ \A w \in Workers : SameWork(run'[w], run[w])

OutsideAction == \/ \E tree \in Tree : Push(tree)
                 \/ \E commit \in DOMAIN history \ {tip} : Reset(commit)
                 \/ \E i \in Activity : Edit(i)
                 \/ Tick
                 \/ UNCHANGED vars

LEMMA PushOutside ==
  ASSUME TypeInv, NEW tree \in Tree, Push(tree)
  PROVE  Outside
<1>1. DOMAIN history \subseteq DOMAIN history'
  BY PushKeeps DEF TypeInv, TypeOK, UpstreamOK
<1>2. \A c \in DOMAIN history : history'[c] = history[c] /\ ancestry'[c] = ancestry[c]
  BY PushKeeps
<1> QED
  BY <1>1, <1>2 DEF Push, Outside, SameWork, state

LEMMA EditOutside ==
  ASSUME TypeInv, NEW i \in Activity, Edit(i)
  PROVE  Outside
<1>1. ASSUME NEW w \in Workers PROVE SameWork(run'[w], run[w])
  BY DEF Edit, TypeInv, RunOK, Run, SameWork
<1> QED
  BY <1>1 DEF Edit, Outside

LEMMA TickOutside == TypeInv /\ Tick => Outside
<1> SUFFICES ASSUME TypeInv, Tick PROVE Outside
  OBVIOUS
<1>1. ASSUME NEW w \in Workers PROVE SameWork(run'[w], run[w])
  BY DEF Tick, TypeInv, RunOK, Run, SameWork
<1> QED
  BY <1>1 DEF Tick, Outside

LEMMA OutsideStep == TypeInv /\ OutsideAction => Outside
<1> SUFFICES ASSUME TypeInv, OutsideAction PROVE Outside
  OBVIOUS
<1>1. ASSUME NEW commit \in DOMAIN history \ {tip}, Reset(commit) PROVE Outside
  BY <1>1 DEF Reset, Outside, SameWork, state
<1>2. ASSUME UNCHANGED vars PROVE Outside
  BY <1>2 DEF vars, upstream, state, Outside, SameWork
<1> QED
  BY PushOutside, EditOutside, TickOutside, <1>1, <1>2 DEF OutsideAction

(* A commit descends from itself and from earlier commits. *)
AncestryOK ==
  \A c \in DOMAIN history : c \in ancestry[c] /\ ancestry[c] \subseteq 1..c

LEMMA AncestryInit == Init => AncestryOK
BY DEF Init, AncestryOK

LEMMA AncestryPush ==
  ASSUME TypeInv, AncestryOK, NEW tree \in Tree, Push(tree)
  PROVE  AncestryOK'
<1>1. /\ Len(history') = Len(history) + 1 /\ tip' = Len(history') /\ UpstreamOK'
      /\ \A c \in DOMAIN history : ancestry'[c] = ancestry[c]
      /\ ancestry'[tip'] = ancestry[tip] \cup {tip'}
  BY PushKeeps
<1>2. /\ DOMAIN history = 1..Len(history) /\ DOMAIN history' = 1..Len(history')
      /\ Len(history) \in Nat
  BY <1>1 DEF TypeInv, TypeOK, UpstreamOK
<1>3. tip \in 1..Len(history)
  BY <1>2 DEF TypeInv, TypeOK
<1>4. tip' \in ancestry'[tip'] /\ ancestry'[tip'] \subseteq 1..tip'
  BY <1>1, <1>2, <1>3 DEF AncestryOK
<1>5. ASSUME NEW c \in DOMAIN history', c # tip'
      PROVE  c \in ancestry'[c] /\ ancestry'[c] \subseteq 1..c
  <2>1. c \in DOMAIN history
    BY <1>1, <1>2, <1>5
  <2> QED
    BY <1>1, <2>1 DEF AncestryOK
<1> QED
  BY <1>4, <1>5 DEF AncestryOK

LEMMA AncestryStep == TypeInv /\ AncestryOK /\ [Next]_vars => AncestryOK'
<1> SUFFICES ASSUME TypeInv, AncestryOK, [Next]_vars PROVE AncestryOK'
  OBVIOUS
<1>1. CASE \E tree \in Tree : Push(tree)
  BY <1>1, AncestryPush
<1>2. CASE UNCHANGED <<history, ancestry>>
  BY <1>2 DEF AncestryOK
<1>3. (\E tree \in Tree : Push(tree)) \/ UNCHANGED <<history, ancestry>>
  BY ZenonT(60) DEF Next, Step, vars, upstream, Start, Restart, LoseIndex, Reset, Edit, Tick,
         ResolveHead, FetchFails, Collect, Poll, IndexOne, Retire, MarkIngested,
         MarkError, Abort
<1> QED
  BY <1>1, <1>2, <1>3

(* Two commits part at the earlier one when it is an ancestor of the other. *)
LEMMA MergeBaseOfAncestor ==
  ASSUME TypeInv, AncestryOK, NEW base \in DOMAIN history, NEW head,
         base \in ancestry[head]
  PROVE  MergeBase(base, head) = base
<1> DEFINE common == ancestry[base] \cap ancestry[head]
           Last(c) == \A d \in common : d <= c
<1>1. base \in common /\ common \subseteq 1..base
  BY DEF AncestryOK
<1>2. base \in Int
  BY DEF TypeInv, TypeOK
<1>3. Last(base)
  BY <1>1, <1>2
<1>4. ASSUME NEW c \in common, Last(c) PROVE c = base
  BY <1>1, <1>2, <1>4
<1>5. MergeBase(base, head) = CHOOSE c \in common : Last(c)
  BY DEF MergeBase
<1> QED
  BY <1>1, <1>3, <1>4, <1>5

-----------------------------------------------------------------------------
(* What a run in its index phase is about to do with a file. *)
Awaited(r, s) == \E e \in r.todo : e.source = s
Retires(r, s) == s \in r.gone \/ (r.full /\ s \in Documentation \ r.keep)

(* Until a collection or a poll is complete. *)
Untouched(r) == r.todo = {} /\ r.gone = {} /\ r.full = FALSE /\ r.keep = {}

(* What waits to be indexed is what HEAD has, and it is not to be retired. *)
EntriesOfHead(w) ==
  LET r == run[w]
  IN pc[w] = "index" =>
       \A e \in r.todo : e.source \in Documentation =>
         /\ e.revision = history[r.head][e.source]
         /\ e.revision # 0 /\ e.revision \notin Blank
         /\ ~Retires(r, e.source)

(* A collection: what is fetched, what is retired, what is missed, and     *)
(* what the diff does not name.                                            *)
CollectedOne(r, q, from, full, s) ==
  LET tree == history[r.head]
  IN /\ \A e \in q.todo : e.source = s =>
            /\ e.revision = tree[s] /\ e.revision # 0 /\ e.revision \notin Blank
            /\ ~Retires(q, s)
     /\ Retires(q, s) => Normalized(tree[s]) = 0
     /\ \/ Awaited(q, s)
        \/ Retires(q, s)
        \/ ~full /\ s \in q.missed
        \/ ~full /\ s \notin r.missed /\ Before(r, from)[s] = tree[s]

LEMMA CollectedFile ==
  ASSUME TypeInv, NEW w \in Workers, NEW from, NEW fetched, NEW full \in BOOLEAN,
         Collects(w, from, full, fetched), NEW s \in Documentation
  PROVE  CollectedOne(run[w], Collected(run[w], from, full, fetched), from, full, s)
<1> DEFINE r == run[w]
           q == Collected(r, from, full, fetched)
           tree == history[r.head]
           gone == Removed(Before(r, from), tree)
<1>0. /\ r \in Run
      /\ fetched = Fetched(Named(r, from), full, tree)
  BY DEF TypeInv, RunOK, Collects
<1>1. /\ q.todo = CollectedTodo(r, from, fetched) /\ q.gone = gone
      /\ q.full = full /\ q.keep = (IF full THEN fetched ELSE {})
      /\ q.missed = IF full THEN {} ELSE (r.missed \cup Named(r, from)) \ (fetched \cup gone)
  BY <1>0 DEF Collected, Run
<1> HIDE DEF q, r
<1>2. s \notin Activity /\ s # History
  BY IngestionAssumption
<1>3. ASSUME NEW e \in q.todo, e.source = s
      PROVE  s \in fetched /\ e.revision = tree[s]
  <2>1. e \notin ActivityEntries(r)
    BY <1>2, <1>3, ActivityEntriesType
  <2> QED
    BY <1>1, <1>2, <1>3, <2>1 DEF CollectedTodo
<1>4. s \in fetched => Awaited(q, s)
  <2>1. s \in fetched => [source |-> s, revision |-> tree[s]] \in q.todo
    BY <1>1 DEF CollectedTodo
  <2>2. [source |-> s, revision |-> tree[s]].source = s
    OBVIOUS
  <2> QED
    BY <2>1, <2>2, Zenon DEF Awaited
<1>5. s \in fetched => tree[s] # 0 /\ tree[s] \notin Blank
  BY <1>0, FetchedFiles
<1>6. full /\ s \notin fetched => Normalized(tree[s]) = 0
  BY <1>0 DEF Fetched, Documentation
<1>7. s \in gone => tree[s] = 0
  BY DEF Removed
<1>8. s \in fetched => ~Retires(q, s)
  BY <1>1, <1>5, <1>7 DEF Retires
<1>9. Retires(q, s) => Normalized(tree[s]) = 0
  BY <1>1, <1>6, <1>7 DEF Retires, Normalized
<1>10. \/ s \in fetched
       \/ Retires(q, s)
       \/ ~full /\ s \in q.missed
       \/ ~full /\ s \notin r.missed /\ Before(r, from)[s] = tree[s]
  <2>1. CASE full
    BY <1>1, <2>1 DEF Retires
  <2>2. CASE ~full
    BY <1>1, <2>2 DEF Retires, Named, Changed
  <2> QED
    BY <2>1, <2>2
<1>11. CollectedOne(r, q, from, full, s)
  BY <1>3, <1>4, <1>5, <1>8, <1>9, <1>10 DEF CollectedOne
<1> QED
  BY <1>11 DEF q, r

(* IndexOne, for the entry e it takes: what becomes of the file of e, and  *)
(* that it is the only one.                                                *)
IndexedFile(w, e) ==
  /\ run'[w].prev = run[w].prev /\ run'[w].head = run[w].head
  /\ run'[w].full = run[w].full /\ run'[w].keep = run[w].keep
  /\ run'[w].elapsed = run[w].elapsed /\ run'[w].missed = run[w].missed
  /\ run'[w].todo = run[w].todo \ {e}
  /\ run'[w].gone = run[w].gone \cup (IF e.revision \in Unsafe THEN {e.source} ELSE {})
  /\ \A s \in Source \ {e.source} :
       /\ Retires(run'[w], s) <=> Retires(run[w], s)
       /\ index'[s] = index[s] /\ disk'[s] = disk[s]
  /\ e.revision \in Unsafe => Retires(run'[w], e.source) /\ UNCHANGED store
  /\ e.revision \notin Unsafe =>
       /\ Retires(run'[w], e.source) <=> Retires(run[w], e.source)
       /\ index'[e.source] = e.revision /\ disk'[e.source] = e.revision
  /\ pc[w] = "index" /\ pc'[w] = "index" /\ \A v \in Workers : v = w
  /\ UNCHANGED <<upstream, state, strayed, missed>>

LEMMA IndexOneFile ==
  ASSUME OneWorker, TypeInv, NEW w \in Workers, IndexOne(w)
  PROVE  \E e \in run[w].todo : e \in Entry /\ IndexedFile(w, e)
<1> DEFINE r == run[w]
           q == run'[w]
<1>1. PICK e \in r.todo : Indexes(w, e) \/ Rejects(w, e)
  BY IndexOneCases
<1>2. pc[w] = "index" /\ UNCHANGED <<upstream, state>>
  BY IndexOneCases
<1>3. r \in Run /\ e \in Entry /\ e.source \in Source
  BY <1>1 DEF TypeInv, RunOK, Run, Entry
<1>4. index \in Stored /\ disk \in Stored
  BY DEF TypeInv, TypeOK
<1>5. CASE Indexes(w, e)
  <2>1. /\ pc'[w] = "index" /\ \A v \in Workers : v = w
        /\ q = [r EXCEPT !.todo = @ \ {e}]
    BY <1>5, AloneWorker DEF Indexes
  <2>2. /\ q.prev = r.prev /\ q.head = r.head /\ q.full = r.full /\ q.keep = r.keep
        /\ q.elapsed = r.elapsed /\ q.todo = r.todo \ {e} /\ q.gone = r.gone
        /\ q.missed = r.missed
    BY <1>3, <2>1 DEF Run
  <2> HIDE DEF q, r
  <2>3. \A s : Retires(q, s) <=> Retires(r, s)
    BY <2>2 DEF Retires
  <2>4. /\ index'[e.source] = e.revision /\ disk'[e.source] = e.revision
        /\ \A s \in Source \ {e.source} : index'[s] = index[s] /\ disk'[s] = disk[s]
    BY <1>3, <1>4, <1>5 DEF Indexes, Stored
  <2>5. e.revision \notin Unsafe /\ UNCHANGED <<strayed, missed>>
    BY <1>5 DEF Indexes
  <2>6. IndexedFile(w, e)
    BY <1>2, <2>1, <2>2, <2>3, <2>4, <2>5
       DEF IndexedFile, q, r
  <2> QED
    BY <1>1, <1>3, <2>6 DEF r
<1>6. CASE Rejects(w, e)
  <2>1. /\ pc'[w] = "index" /\ \A v \in Workers : v = w
        /\ q = [r EXCEPT !.todo = @ \ {e}, !.gone = @ \cup {e.source}]
    BY <1>6, AloneWorker DEF Rejects
  <2>2. /\ q.prev = r.prev /\ q.head = r.head /\ q.full = r.full /\ q.keep = r.keep
        /\ q.elapsed = r.elapsed /\ q.todo = r.todo \ {e} /\ q.gone = r.gone \cup {e.source}
        /\ q.missed = r.missed
    BY <1>3, <2>1 DEF Run
  <2> HIDE DEF q, r
  <2>3. /\ \A s : s # e.source => (Retires(q, s) <=> Retires(r, s))
        /\ Retires(q, e.source)
    BY <2>2 DEF Retires
  <2>4. e.revision \in Unsafe /\ UNCHANGED store /\ UNCHANGED <<index, disk, strayed, missed>>
    BY <1>6 DEF Rejects, store
  <2>5. IndexedFile(w, e)
    BY <1>2, <2>1, <2>2, <2>3, <2>4 DEF IndexedFile, q, r
  <2> QED
    BY <1>1, <1>3, <2>5 DEF r
<1> QED
  BY <1>1, <1>5, <1>6

LEMMA IndexOneEntries ==
  ASSUME TypeInv, NEW w \in Workers, NEW e \in run[w].todo, IndexedFile(w, e),
         EntriesOfHead(w)
  PROVE  EntriesOfHead(w)'
<1> DEFINE r == run[w]
           q == run'[w]
           tree == history[r.head]
<1>1. /\ q.head = r.head /\ q.todo = r.todo \ {e} /\ r \in Run /\ pc[w] = "index"
      /\ \A s \in Documentation \ {e.source} : Retires(q, s) <=> Retires(r, s)
      /\ UNCHANGED history
  BY DEF IndexedFile, TypeInv, RunOK, Source, upstream, state
<1>2. e \in Entry
  BY <1>1 DEF Run
<1>3. ASSUME NEW f \in r.todo, f.source \in Documentation
      PROVE  /\ f.revision = tree[f.source] /\ f.revision # 0 /\ f.revision \notin Blank
             /\ ~Retires(r, f.source)
  BY <1>1, <1>3 DEF EntriesOfHead
<1> HIDE DEF q, r
<1> SUFFICES ASSUME NEW f \in q.todo, f.source \in Documentation
             PROVE  /\ f.revision = tree[f.source] /\ f.revision # 0
                    /\ f.revision \notin Blank /\ ~Retires(q, f.source)
  BY <1>1 DEF EntriesOfHead, q, r
<1>4. f \in r.todo /\ f \in Entry
  BY <1>1 DEF Run
<1>5. f.source # e.source
  <2> SUFFICES ASSUME f.source = e.source PROVE f = e
    BY <1>1
  <2>1. e.revision = f.revision
    BY <1>3, <1>4 DEF r
  <2> QED
    BY <1>2, <1>4, <2>1 DEF Entry
<1> QED
  BY <1>1, <1>3, <1>4, <1>5

-----------------------------------------------------------------------------
(* SnapshotPaired, for one worker whose runs are neither aborted nor       *)
(* killed.  What is served moves from the tree of the cursor to the tree   *)
(* of HEAD file by file: a file that the run has dealt with, or that the   *)
(* diff does not name, will be HEAD's when the retirements are done, if it *)
(* is not missed then.                                                     *)
Calm == OneWorker /\ MaxAborts = 0 /\ MaxRestarts = 0

Wanted(c, s) == Served(Normalized(history[c][s]))

Matches(c) == \A s \in Followed : index[s] = Wanted(c, s)

Paired == ~Indexing /\ cursor.sha # 0 /\ index # Empty /\ ~strayed
            => Matches(cursor.sha)

(* The diff was taken against the tree of the cursor, or not needed. *)
Sound(r) == r.full \/ (~strayed /\ ~LeavesBranch(r))

(* What Retire leaves of a file. *)
Left(r, s) == IF Retires(r, s) THEN 0 ELSE index[s]

BeforeIndexing(w) ==
  /\ pc[w] # "idle" => run[w].prev = cursor.sha
  /\ pc[w] \in {"head", "collect", "poll"} => Untouched(run[w]) /\ run[w].missed = missed
  /\ pc[w] = "collect" /\ ~run[w].first => run[w].prev # 0 /\ index # Empty
  /\ pc[w] = "poll" => run[w].head = run[w].prev /\ index # Empty

HandledIsHead(w) ==
  LET r == run[w]
  IN pc[w] = "index" /\ Sound(r) =>
       \A s \in Documentation \ r.missed : ~Awaited(r, s) => Left(r, s) = Wanted(r.head, s)

MarkedIsHead(w) == pc[w] = "mark" /\ ~strayed => Matches(run[w].head)

PairedRun(w) == /\ BeforeIndexing(w) /\ EntriesOfHead(w)
                /\ HandledIsHead(w) /\ MarkedIsHead(w)

(* Why a file is missed, by the diffs so far and by those of the runs. *)
Excused(s) == s \in Beside \/ \E c \in DOMAIN history : history[c][s] \in Blank

MissedInv == /\ \A s \in missed : Excused(s)
             /\ \A w \in Workers : \A s \in run[w].missed : Excused(s)

PairInv == /\ budget.abort = 0 /\ budget.restart = 0
           /\ Paired /\ \A w \in Workers : PairedRun(w)

LEMMA PairedIsSnapshotPaired == Paired /\ MissedInv => SnapshotPaired
BY IngestionAssumption
   DEF Paired, SnapshotPaired, Matches, Indexed, Wanted, Followed,
       MissedInv, MissedForAReason, Excused

LEMMA PairInit == Init /\ Calm => PairInv
BY DEF Init, Calm, PairInv, Paired, PairedRun, BeforeIndexing, EntriesOfHead,
       HandledIsHead, MarkedIsHead

(* Nothing that happens outside the workers disturbs the pair. *)
LEMMA OutsidePaired ==
  ASSUME TypeInv, Paired, \A w \in Workers : PairedRun(w), Outside
  PROVE  Paired' /\ \A w \in Workers : PairedRun(w)'
<1>1. /\ UNCHANGED <<cursor, index, strayed, missed, pc>>
      /\ \A c \in DOMAIN history : history'[c] = history[c] /\ ancestry'[c] = ancestry[c]
      /\ \A w \in Workers : SameWork(run'[w], run[w])
  BY DEF Outside, store
<1>2. ASSUME NEW c \in DOMAIN history PROVE Matches(c)' <=> Matches(c)
  BY <1>1 DEF Matches, Wanted, Followed
<1>3. cursor.sha # 0 => cursor.sha \in DOMAIN history
  BY DEF TypeInv, TypeOK
<1>4. Paired'
  BY <1>1, <1>2, <1>3 DEF Paired, Indexing
<1>5. ASSUME NEW w \in Workers PROVE PairedRun(w)'
  <2>1. BeforeIndexing(w) /\ EntriesOfHead(w) /\ HandledIsHead(w) /\ MarkedIsHead(w)
    BY DEF PairedRun
  <2>2. SameWork(run'[w], run[w])
    BY <1>1
  <2>3. pc[w] \in {"collect", "poll", "index", "mark"} =>
          /\ run[w].head \in DOMAIN history
          /\ history'[run[w].head] = history[run[w].head]
          /\ ancestry'[run[w].head] = ancestry[run[w].head]
    BY <1>1 DEF TypeInv, RunOK
  <2>4. BeforeIndexing(w)'
    BY <1>1, <2>1, <2>2 DEF BeforeIndexing, SameWork, Untouched
  <2>5. EntriesOfHead(w)'
    BY <1>1, <2>1, <2>2, <2>3 DEF EntriesOfHead, SameWork, Retires
  <2>6. HandledIsHead(w)'
    BY <1>1, <2>1, <2>2, <2>3
       DEF HandledIsHead, SameWork, Retires, Left, Awaited, Sound, LeavesBranch, Wanted
  <2>7. MarkedIsHead(w)'
    BY <1>1, <1>2, <2>1, <2>2, <2>3 DEF MarkedIsHead, SameWork
  <2> QED
    BY <2>4, <2>5, <2>6, <2>7 DEF PairedRun
<1> QED
  BY <1>4, <1>5

(* Before it indexes a worker leaves what is served, and the cursor.       *)
LEMMA StillPaired ==
  ASSUME OneWorker, TypeInv, Paired, NEW w \in Workers, pc[w] \notin {"index", "mark"},
         UNCHANGED <<history, store>>, cursor'.sha = cursor.sha
  PROVE  Paired'
<1>1. ~Indexing
  BY DEF OneWorker, Indexing
<1> QED
  BY <1>1 DEF Paired, Matches, Wanted, Followed, store

LEMMA StartPaired ==
  ASSUME OneWorker, TypeInv, PairInv, NEW w \in Workers, NEW force \in BOOLEAN,
         Start(w, force)
  PROVE  Paired' /\ \A v \in Workers : PairedRun(v)'
<1> DEFINE r == [NoRun EXCEPT !.prev = cursor.sha, !.force = force,
                              !.retry = cursor.failed /\ ~force,
                              !.stamp = stamp, !.since = window, !.missed = missed]
<1>1. Alone(w, "head", r) /\ UNCHANGED <<upstream, state, store>> /\ pc[w] = "idle"
  BY DEF Start, Alone
<1>2. r.prev = cursor.sha /\ Untouched(r) /\ r.missed = missed
  BY DEF NoRun, Untouched
<1> HIDE DEF r
<1>3. pc'[w] = "head" /\ run'[w] = r /\ \A v \in Workers : v = w
  BY <1>1, AloneWorker
<1>4. Paired'
  BY <1>1, StillPaired DEF PairInv, upstream, state
<1>5. BeforeIndexing(w)' /\ EntriesOfHead(w)' /\ HandledIsHead(w)' /\ MarkedIsHead(w)'
  BY <1>1, <1>2, <1>3
     DEF BeforeIndexing, EntriesOfHead, HandledIsHead, MarkedIsHead, state, store, Untouched
<1> QED
  BY <1>3, <1>4, <1>5 DEF PairedRun

(* ResolveHead, by where it leads; r is the run afterwards. *)
Resolves(w, place, r) ==
  /\ Alone(w, place, r) /\ pc[w] = "head"
  /\ UNCHANGED <<upstream, state, store, budget>>
  /\ place # "idle" =>
       /\ r.head = tip /\ r.prev = run[w].prev /\ r.since = run[w].since
       /\ r.todo = run[w].todo /\ r.gone = run[w].gone
       /\ r.full = run[w].full /\ r.keep = run[w].keep
       /\ r.elapsed = run[w].elapsed /\ r.missed = run[w].missed
       /\ r.prev = 0 => r.all
  /\ place = "collect" /\ ~r.first => r.prev # 0 /\ index # Empty
  /\ place = "poll" => tip = r.prev /\ index # Empty /\ ~r.all

LEMMA ResolveHeadCases ==
  ASSUME TypeInv, NEW w \in Workers, ResolveHead(w)
  PROVE  \E place \in {"idle", "collect", "poll"}, r \in Run \cup {NoRun} :
           Resolves(w, place, r)
<1> DEFINE old == run[w]
           rehydrate == old.prev # 0 /\ index = Empty /\ ~old.force
           first == old.prev = 0 \/ old.force \/ rehydrate \/ old.retry
           all == rehydrate \/ old.retry \/ old.prev = 0
           path == IF tip = old.prev /\ ~old.force /\ ~rehydrate /\ ~old.retry
                   THEN IF old.stamp < PollInterval THEN "idle" ELSE "poll"
                   ELSE "collect"
           r == IF path = "idle" THEN NoRun
                ELSE [old EXCEPT !.head = tip, !.first = first, !.all = all]
<1>1. /\ Alone(w, path, r) /\ pc[w] = "head"
      /\ UNCHANGED <<upstream, state, store, budget>>
  BY DEF ResolveHead, Alone
<1>2. path \in {"idle", "collect", "poll"}
  OBVIOUS
<1>3. old \in Run /\ tip \in 1..MaxCommits
  BY IngestionAssumption DEF TypeInv, TypeOK, RunOK
<1>4. path # "idle" => r = [old EXCEPT !.head = tip, !.first = first, !.all = all]
  OBVIOUS
<1>5. path = "idle" => r = NoRun
  OBVIOUS
<1>6. path = "poll" => tip = old.prev /\ index # Empty /\ ~all
  BY <1>3
<1>7. ~first => old.prev # 0 /\ index # Empty
  OBVIOUS
<1>8. old.prev = 0 => all
  OBVIOUS
<1>9. first \in BOOLEAN /\ all \in BOOLEAN
  OBVIOUS
<1> HIDE DEF path, first, all, r, rehydrate
<1>10. r \in Run \cup {NoRun}
  <2>1. [old EXCEPT !.head = tip, !.first = first, !.all = all] \in Run
    <3>1. tip \in 0..MaxCommits
      BY <1>3
    <3> QED
      BY <1>3, <1>9, <3>1 DEF Run
  <2> QED
    BY <1>4, <1>5, <2>1
<1>11. path # "idle" =>
          /\ r.head = tip /\ r.prev = old.prev /\ r.since = old.since
          /\ r.todo = old.todo /\ r.gone = old.gone
          /\ r.full = old.full /\ r.keep = old.keep
          /\ r.elapsed = old.elapsed /\ r.missed = old.missed
          /\ r.first = first /\ r.all = all
  BY <1>3, <1>4 DEF Run
<1> WITNESS path \in {"idle", "collect", "poll"}, r \in Run \cup {NoRun}
<1> QED
  BY <1>1, <1>6, <1>7, <1>8, <1>11 DEF Resolves

LEMMA ResolveHeadPaired ==
  ASSUME OneWorker, TypeInv, PairInv, NEW w \in Workers, ResolveHead(w)
  PROVE  Paired' /\ \A v \in Workers : PairedRun(v)'
<1>1. PICK place \in {"idle", "collect", "poll"}, r \in Run \cup {NoRun} :
        Resolves(w, place, r)
  BY ResolveHeadCases
<1>2. pc'[w] = place /\ run'[w] = r /\ \A v \in Workers : v = w
  BY <1>1, AloneWorker DEF Resolves
<1>3. Paired'
  BY <1>1, StillPaired DEF PairInv, Resolves, upstream, state
<1>4. run[w].prev = cursor.sha /\ Untouched(run[w]) /\ run[w].missed = missed
  BY <1>1 DEF PairInv, PairedRun, BeforeIndexing, Resolves
<1>5. BeforeIndexing(w)'
  BY <1>1, <1>2, <1>4 DEF BeforeIndexing, Untouched, Resolves, state, store
<1>6. EntriesOfHead(w)' /\ HandledIsHead(w)' /\ MarkedIsHead(w)'
  BY <1>1, <1>2 DEF EntriesOfHead, HandledIsHead, MarkedIsHead, Resolves
<1> QED
  BY <1>2, <1>3, <1>5, <1>6 DEF PairedRun

LEMMA FetchFailsPaired ==
  ASSUME OneWorker, TypeInv, PairInv, NEW w \in Workers, FetchFails(w)
  PROVE  Paired' /\ \A v \in Workers : PairedRun(v)'
<1>1. /\ Alone(w, "failed", run[w]) /\ pc[w] \in {"head", "collect", "poll"}
      /\ UNCHANGED <<upstream, state, store>>
  BY DEF FetchFails, Alone, TypeInv, TypeOK
<1>2. pc'[w] = "failed" /\ run'[w] = run[w] /\ \A v \in Workers : v = w
  BY <1>1, AloneWorker
<1>3. Paired'
  BY <1>1, StillPaired DEF PairInv, upstream, state
<1>4. run[w].prev = cursor.sha
  BY <1>1 DEF PairInv, PairedRun, BeforeIndexing
<1>5. BeforeIndexing(w)' /\ EntriesOfHead(w)' /\ HandledIsHead(w)' /\ MarkedIsHead(w)'
  BY <1>1, <1>2, <1>4
     DEF BeforeIndexing, EntriesOfHead, HandledIsHead, MarkedIsHead, state
<1> QED
  BY <1>2, <1>3, <1>5 DEF PairedRun

LEMMA CollectPaired ==
  ASSUME OneWorker, TypeInv, AncestryOK, PairInv, NEW w \in Workers, Collect(w)
  PROVE  Paired' /\ \A v \in Workers : PairedRun(v)'
<1> DEFINE r == run[w]
<1>1. PICK from, fetched : \E full \in BOOLEAN : Collects(w, from, full, fetched)
  BY CollectCases, Zenon
<1>2. PICK full \in BOOLEAN : Collects(w, from, full, fetched)
  BY <1>1
<1>0. /\ pc[w] = "collect" /\ Alone(w, "index", Collected(r, from, full, fetched))
      /\ UNCHANGED <<upstream, state, store, budget>>
      /\ ~r.first => from = MergeBase(r.prev, r.head)
      /\ r.first => full
  BY <1>2 DEF Collects
<1> DEFINE q == Collected(r, from, full, fetched)
<1>3. pc'[w] = "index" /\ run'[w] = q /\ \A v \in Workers : v = w
  BY <1>0, AloneWorker
<1>4. /\ r \in Run /\ r.prev = cursor.sha /\ r.head \in DOMAIN history
      /\ ~r.first => r.prev \in DOMAIN history
      /\ ~r.first => r.prev # 0 /\ index # Empty
      /\ r.missed = missed
  BY <1>0 DEF PairInv, PairedRun, BeforeIndexing, TypeInv, RunOK
<1>5. q.head = r.head /\ q.prev = r.prev /\ q.full = full
  BY <1>4 DEF Collected, Run
<1>6. Paired'
  BY <1>0, StillPaired DEF PairInv, upstream, state
<1>7. UNCHANGED <<history, ancestry, cursor, index, strayed, missed>>
  BY <1>0 DEF upstream, state, store
<1> HIDE DEF q
<1>8. ASSUME NEW s \in Documentation PROVE CollectedOne(r, q, from, full, s)
  BY <1>2, CollectedFile DEF q
<1>9. EntriesOfHead(w)'
  BY <1>3, <1>5, <1>7, <1>8 DEF EntriesOfHead, CollectedOne
<1>10. HandledIsHead(w)'
  <2> SUFFICES ASSUME Sound(q), NEW s \in Documentation \ q.missed, ~Awaited(q, s)
               PROVE  Left(q, s) = Wanted(r.head, s)
    BY <1>3, <1>5, <1>7 DEF HandledIsHead, Sound, LeavesBranch, Left, Wanted
  <2>1. CASE Retires(q, s)
    BY <1>8, <2>1, IngestionAssumption DEF Left, Wanted, Served, CollectedOne
  <2>2. CASE ~Retires(q, s)
    <3>1. /\ ~full /\ ~r.first /\ s \in Followed
          /\ Before(r, from)[s] = history[r.head][s]
      BY <1>0, <1>4, <1>8, <2>2 DEF CollectedOne, Followed
    <3>2. ~strayed /\ r.prev \in ancestry[r.head]
      BY <1>4, <1>5, <3>1 DEF Sound, LeavesBranch
    <3>3. from = r.prev
      BY <1>0, <1>4, <3>1, <3>2, MergeBaseOfAncestor
    <3>4. Before(r, from) = history[cursor.sha]
      BY <1>4, <3>1, <3>3 DEF Before
    <3>5. ~Indexing
      BY <1>0, <1>3 DEF Indexing
    <3>6. index[s] = Wanted(cursor.sha, s)
      BY <1>4, <3>1, <3>2, <3>5 DEF PairInv, Paired, Matches
    <3> QED
      BY <2>2, <3>1, <3>4, <3>6 DEF Left, Wanted
  <2> QED
    BY <2>1, <2>2
<1>11. BeforeIndexing(w)' /\ MarkedIsHead(w)'
  BY <1>3, <1>4, <1>5, <1>7 DEF BeforeIndexing, MarkedIsHead
<1> QED
  BY <1>3, <1>6, <1>9, <1>10, <1>11 DEF PairedRun

(* Poll; q is the run afterwards. *)
Polls(w, q) ==
  /\ Alone(w, "index", q) /\ pc[w] = "poll"
  /\ UNCHANGED <<upstream, state, store, budget>>
  /\ q.prev = run[w].prev /\ q.head = run[w].head
  /\ q.gone = run[w].gone /\ q.full = run[w].full /\ q.keep = run[w].keep
  /\ q.elapsed = run[w].elapsed /\ q.missed = run[w].missed
  /\ q.todo = {e \in ActivityEntries(run[w]) : index[e.source] # e.revision}

LEMMA PollCases ==
  ASSUME TypeInv, NEW w \in Workers, Poll(w)
  PROVE  \E q \in Run : Polls(w, q)
<1> DEFINE todo == {e \in ActivityEntries(run[w]) : index[e.source] # e.revision}
           q == [run[w] EXCEPT !.todo = todo]
<1>1. run[w] \in Run
  BY DEF TypeInv, RunOK
<1>2. todo \in SUBSET Entry
  BY ActivityEntriesType DEF Entry, Source
<1>3. q \in Run
  BY <1>1, <1>2 DEF Run
<1>4. /\ q.prev = run[w].prev /\ q.head = run[w].head /\ q.first = run[w].first
      /\ q.gone = run[w].gone /\ q.full = run[w].full /\ q.keep = run[w].keep
      /\ q.elapsed = run[w].elapsed /\ q.missed = run[w].missed /\ q.todo = todo
  BY <1>1 DEF Run
<1>5. /\ Alone(w, "index", q) /\ pc[w] = "poll"
      /\ UNCHANGED <<upstream, state, store, budget>>
  BY DEF Poll, Alone
<1> HIDE DEF q
<1> WITNESS q \in Run
<1> QED
  BY <1>4, <1>5 DEF Polls

LEMMA PollPaired ==
  ASSUME OneWorker, TypeInv, AncestryOK, PairInv, NEW w \in Workers, Poll(w)
  PROVE  Paired' /\ \A v \in Workers : PairedRun(v)'
<1> DEFINE r == run[w]
<1>0. PICK q \in Run : Polls(w, q)
  BY PollCases
<1>1. /\ Alone(w, "index", q) /\ pc[w] = "poll"
      /\ UNCHANGED <<upstream, state, store, budget>>
      /\ q.prev = r.prev /\ q.head = r.head
      /\ q.gone = r.gone /\ q.full = r.full /\ q.keep = r.keep /\ q.missed = r.missed
      /\ q.todo = {e \in ActivityEntries(r) : index[e.source] # e.revision}
  BY <1>0 DEF Polls
<1>2. pc'[w] = "index" /\ run'[w] = q /\ \A v \in Workers : v = w
  BY <1>1, AloneWorker
<1>3. /\ r.prev = cursor.sha /\ r.head = r.prev /\ index # Empty
      /\ Untouched(r) /\ r.head \in DOMAIN history /\ r.missed = missed
  BY <1>1 DEF PairInv, PairedRun, BeforeIndexing, TypeInv, RunOK
<1>4. Paired'
  BY <1>1, StillPaired DEF PairInv, upstream, state
<1>5. UNCHANGED <<history, ancestry, cursor, index, strayed, missed>>
  BY <1>1 DEF upstream, state, store
<1>6. \A s \in Source : ~Retires(q, s)
  BY <1>1, <1>3 DEF Retires, Untouched
<1>7. \A e \in q.todo : e.source \notin Documentation
  BY <1>1, ActivityEntriesType, IngestionAssumption
<1>8. EntriesOfHead(w)'
  BY <1>2, <1>7 DEF EntriesOfHead
<1>9. HandledIsHead(w)'
  <2> SUFFICES ASSUME Sound(q), NEW s \in Followed
               PROVE  Left(q, s) = Wanted(r.head, s)
    BY <1>1, <1>2, <1>3, <1>5
       DEF HandledIsHead, Sound, LeavesBranch, Left, Wanted, Followed
  <2>1. ~strayed /\ ~Indexing
    BY <1>1, <1>2, <1>3 DEF Sound, Untouched, Indexing
  <2>2. cursor.sha # 0
    BY <1>3 DEF TypeInv, TypeOK
  <2>3. index[s] = Wanted(cursor.sha, s)
    BY <1>3, <2>1, <2>2 DEF PairInv, Paired, Matches
  <2>4. ~Retires(q, s)
    BY <1>6 DEF Source, Followed
  <2> QED
    BY <1>3, <2>3, <2>4 DEF Left
<1>10. BeforeIndexing(w)' /\ MarkedIsHead(w)'
  BY <1>1, <1>2, <1>3, <1>5 DEF BeforeIndexing, MarkedIsHead
<1> QED
  BY <1>2, <1>4, <1>8, <1>9, <1>10 DEF PairedRun

(* While a run indexes, nothing is asked of the pair. *)
LEMMA IndexingPaired ==
  ASSUME NEW w \in Workers, pc'[w] \in {"index", "mark"}
  PROVE  Paired'
BY DEF Paired, Indexing

LEMMA IndexOnePaired ==
  ASSUME OneWorker, TypeInv, PairInv, NEW w \in Workers, IndexOne(w)
  PROVE  Paired' /\ \A v \in Workers : PairedRun(v)'
<1> DEFINE r == run[w]
           q == run'[w]
           tree == history[r.head]
           After(s) == IF Retires(q, s) THEN 0 ELSE index'[s]
<1>1. PICK e \in r.todo : e \in Entry /\ IndexedFile(w, e)
  BY IndexOneFile
<1>2. /\ q.prev = r.prev /\ q.head = r.head /\ q.full = r.full
      /\ q.todo = r.todo \ {e} /\ q.missed = r.missed
      /\ pc[w] = "index" /\ pc'[w] = "index" /\ \A v \in Workers : v = w
      /\ UNCHANGED <<history, ancestry, cursor, strayed>>
  BY <1>1 DEF IndexedFile, upstream, state
<1>3. r.prev = cursor.sha /\ EntriesOfHead(w) /\ HandledIsHead(w)
  BY <1>2 DEF PairInv, PairedRun, BeforeIndexing
<1>4. e.source \in Documentation =>
        /\ e.revision = tree[e.source] /\ e.revision \notin Blank
        /\ ~Retires(r, e.source)
  BY <1>1, <1>2, <1>3 DEF EntriesOfHead
<1>5. e.source \in Documentation => After(e.source) = Wanted(r.head, e.source)
  BY <1>1, <1>4 DEF Wanted, Served, Normalized, IndexedFile
<1>6. HandledIsHead(w)'
  <2> SUFFICES ASSUME Sound(q), NEW s \in Documentation \ r.missed, ~Awaited(q, s)
               PROVE  After(s) = Wanted(r.head, s)
    BY <1>2 DEF HandledIsHead, Sound, LeavesBranch, Left, Awaited, Wanted
  <2>1. CASE s = e.source
    BY <1>5, <2>1
  <2>2. CASE s # e.source
    <3>1. Sound(r) /\ ~Awaited(r, s)
      BY <1>2, <2>2 DEF Sound, LeavesBranch, Awaited
    <3>2. Left(r, s) = Wanted(r.head, s)
      BY <1>2, <1>3, <3>1 DEF HandledIsHead
    <3>3. index'[s] = index[s] /\ (Retires(q, s) <=> Retires(r, s))
      BY <1>1, <2>2 DEF IndexedFile, Source
    <3> QED
      BY <3>2, <3>3 DEF Left
  <2> QED
    BY <2>1, <2>2
<1>7. EntriesOfHead(w)'
  BY <1>1, <1>3, IndexOneEntries
<1>8. Paired'
  BY <1>2, IndexingPaired
<1>9. BeforeIndexing(w)' /\ MarkedIsHead(w)'
  BY <1>2, <1>3 DEF BeforeIndexing, MarkedIsHead
<1> QED
  BY <1>2, <1>6, <1>7, <1>8, <1>9 DEF PairedRun

LEMMA RetirePaired ==
  ASSUME OneWorker, TypeInv, PairInv, NEW w \in Workers, Retire(w)
  PROVE  Paired' /\ \A v \in Workers : PairedRun(v)'
<1> DEFINE r == run[w]
<1>1. /\ Alone(w, "mark", r) /\ UNCHANGED <<upstream, state>>
      /\ pc[w] = "index" /\ r.todo = {}
      /\ strayed' = IF r.full THEN FALSE ELSE strayed \/ LeavesBranch(r)
      /\ missed' = r.missed
      /\ \A s \in Documentation : index'[s] = Left(r, s)
  BY DEF Retire, Alone, TypeInv, TypeOK, Left, Retires, Source
<1>2. pc'[w] = "mark" /\ run'[w] = r /\ \A v \in Workers : v = w
  BY <1>1, AloneWorker
<1>3. Paired'
  BY <1>2, IndexingPaired
<1>4. r.prev = cursor.sha /\ HandledIsHead(w)
  BY <1>1 DEF PairInv, PairedRun, BeforeIndexing
<1>5. MarkedIsHead(w)'
  <2> SUFFICES ASSUME ~strayed', NEW s \in Documentation \ r.missed
               PROVE  index'[s] = Wanted(r.head, s)
    BY <1>1, <1>2 DEF MarkedIsHead, Matches, Wanted, Followed, upstream
  <2>1. Sound(r)
    BY <1>1 DEF Sound
  <2>2. ~Awaited(r, s)
    BY <1>1 DEF Awaited
  <2> QED
    BY <1>1, <1>4, <2>1, <2>2 DEF HandledIsHead
<1>6. BeforeIndexing(w)' /\ EntriesOfHead(w)' /\ HandledIsHead(w)'
  BY <1>1, <1>2, <1>4 DEF BeforeIndexing, EntriesOfHead, HandledIsHead, state
<1> QED
  BY <1>2, <1>3, <1>5, <1>6 DEF PairedRun

LEMMA MarkIngestedPaired ==
  ASSUME OneWorker, TypeInv, PairInv, NEW w \in Workers, MarkIngested(w)
  PROVE  Paired' /\ \A v \in Workers : PairedRun(v)'
<1>1. /\ Alone(w, "idle", NoRun) /\ UNCHANGED <<upstream, store>> /\ pc[w] = "mark"
      /\ cursor'.sha = run[w].head
  BY FinishAlone DEF MarkIngested
<1>2. pc'[w] = "idle" /\ \A v \in Workers : v = w
  BY <1>1, AloneWorker
<1>3. MarkedIsHead(w)
  BY DEF PairInv, PairedRun
<1>4. Paired'
  BY <1>1, <1>3 DEF Paired, MarkedIsHead, Matches, Wanted, Followed, upstream, store
<1>5. BeforeIndexing(w)' /\ EntriesOfHead(w)' /\ HandledIsHead(w)' /\ MarkedIsHead(w)'
  BY <1>2 DEF BeforeIndexing, EntriesOfHead, HandledIsHead, MarkedIsHead
<1> QED
  BY <1>2, <1>4, <1>5 DEF PairedRun

LEMMA MarkErrorPaired ==
  ASSUME OneWorker, TypeInv, PairInv, NEW w \in Workers, MarkError(w)
  PROVE  Paired' /\ \A v \in Workers : PairedRun(v)'
<1>1. /\ Alone(w, "idle", NoRun) /\ UNCHANGED <<upstream, store>> /\ pc[w] = "failed"
      /\ cursor'.sha = cursor.sha
  BY FinishAlone DEF MarkError, TypeInv, TypeOK
<1>2. pc'[w] = "idle" /\ \A v \in Workers : v = w
  BY <1>1, AloneWorker
<1>3. Paired'
  BY <1>1, StillPaired DEF PairInv, upstream
<1>4. BeforeIndexing(w)' /\ EntriesOfHead(w)' /\ HandledIsHead(w)' /\ MarkedIsHead(w)'
  BY <1>2 DEF BeforeIndexing, EntriesOfHead, HandledIsHead, MarkedIsHead
<1> QED
  BY <1>2, <1>3, <1>4 DEF PairedRun

LEMMA LoseIndexPaired ==
  PairInv /\ LoseIndex => Paired' /\ \A w \in Workers : PairedRun(w)'
BY DEF LoseIndex, Paired, PairedRun, BeforeIndexing, EntriesOfHead, HandledIsHead, MarkedIsHead

(* Nothing is aborted and nothing is killed. *)
LEMMA CalmSteps ==
  ASSUME PairInv
  PROVE  (\A w \in Workers : ~Abort(w)) /\ ~Restart
BY DEF PairInv, Abort, Restart, Spend

LEMMA BudgetCalm ==
  ASSUME TypeInv, PairInv, [Next]_vars
  PROVE  budget'.abort = 0 /\ budget'.restart = 0
<1>1. ASSUME NEW kind \in {"error", "loss", "reset"}, Spend(kind)
      PROVE  budget'.abort = 0 /\ budget'.restart = 0
  BY <1>1 DEF Spend, PairInv
<1>2. CASE UNCHANGED budget
  BY <1>2 DEF PairInv
<1>3. UNCHANGED budget \/ Spend("error") \/ Spend("loss") \/ Spend("reset")
  BY CalmSteps
     DEF Next, Step, vars, Start, LoseIndex, Push, Reset, Edit, Tick, ResolveHead,
         FetchFails, Collect, Poll, IndexOne, Retire, MarkIngested, MarkError
<1> QED
  BY <1>1, <1>2, <1>3

(* A file that a run misses: the diff names it, and either it is a         *)
(* root-level document or HEAD has it in a revision that is no document.   *)
LEMMA CollectExcused ==
  ASSUME TypeInv, MissedInv, NEW w \in Workers, NEW from, NEW fetched, NEW full \in BOOLEAN,
         Collects(w, from, full, fetched)
  PROVE  \A s \in Collected(run[w], from, full, fetched).missed : Excused(s)
<1> DEFINE r == run[w]
           tree == history[r.head]
           gone == Removed(Before(r, from), tree)
<1>1. /\ r \in Run /\ r.head \in DOMAIN history
      /\ fetched = Fetched(Named(r, from), full, tree)
  BY DEF TypeInv, RunOK, Collects
<1> SUFFICES ASSUME ~full, NEW s \in (r.missed \cup Named(r, from)) \ (fetched \cup gone)
             PROVE  Excused(s)
  BY <1>1 DEF Collected, Run
<1>2. CASE s \in r.missed
  BY <1>2 DEF MissedInv
<1>3. CASE s \in Named(r, from) /\ s \notin Beside
  <2>1. s \in Documentation /\ tree[s] # 0
    BY <1>3 DEF Named, Changed, Removed
  <2>2. Normalized(tree[s]) = 0
    BY <1>1, <1>3, <2>1 DEF Fetched, Documentation
  <2>3. tree[s] \in Blank
    BY <2>1, <2>2 DEF Normalized
  <2> QED
    BY <1>1, <2>3 DEF Excused
<1>4. CASE s \in Beside
  BY <1>4 DEF Excused
<1> QED
  BY <1>2, <1>3, <1>4

(* The locals of a worker, by what becomes of the files it misses. *)
LEMMA StepMissed ==
  ASSUME TypeInv, MissedInv, NEW w \in Workers, Step(w)
  PROVE  /\ \A s \in missed' : Excused(s)
         /\ \A v \in Workers : \A s \in run'[v].missed : Excused(s)
<1> DEFINE Keeps(r) == \A s \in r.missed : Excused(s)
<1>1. Keeps(NoRun) /\ Keeps(run[w]) /\ run[w] \in Run
  BY DEF NoRun, MissedInv, TypeInv, RunOK
<1>2. ASSUME NEW place, NEW r, Alone(w, place, r), Keeps(r), missed' = missed \/ missed' = r.missed
      PROVE  /\ \A s \in missed' : Excused(s)
             /\ \A v \in Workers : \A s \in run'[v].missed : Excused(s)
  BY <1>2 DEF MissedInv, Alone, TypeInv, TypeOK
<1>3. CASE ResolveHead(w)
  <2>1. PICK place \in {"idle", "collect", "poll"}, r \in Run \cup {NoRun} :
          Resolves(w, place, r)
    BY <1>3, ResolveHeadCases
  <2>2. CASE place = "idle"
    <3>1. run'[w].missed = {} \/ run'[w].missed = run[w].missed
      BY <1>1, <1>3 DEF ResolveHead, NoRun, Run, TypeInv, TypeOK
    <3>2. run'[w] = r
      BY <2>1 DEF Resolves, Alone, TypeInv, TypeOK
    <3> QED
      BY <1>1, <1>2, <2>1, <3>1, <3>2 DEF Resolves, store
  <2>3. CASE place # "idle"
    BY <1>1, <1>2, <2>1, <2>3 DEF Resolves, store
  <2> QED
    BY <2>2, <2>3
<1>4. CASE FetchFails(w)
  <2>1. Alone(w, "failed", run[w]) /\ missed' = missed
    BY <1>4 DEF FetchFails, Alone, TypeInv, TypeOK, store
  <2> QED
    BY <1>1, <1>2, <2>1
<1>5. CASE Collect(w)
  <2>1. PICK from, fetched : \E full \in BOOLEAN : Collects(w, from, full, fetched)
    BY <1>5, CollectCases, Zenon
  <2>2. PICK full \in BOOLEAN : Collects(w, from, full, fetched)
    BY <2>1
  <2> DEFINE q == Collected(run[w], from, full, fetched)
  <2>3. Keeps(q)
    BY <2>2, CollectExcused
  <2>4. Alone(w, "index", q) /\ missed' = missed
    BY <2>2 DEF Collects, store
  <2> HIDE DEF q, Keeps
  <2> QED
    BY <1>2, <2>3, <2>4
<1>6. CASE Poll(w)
  <2>1. PICK q \in Run : Polls(w, q)
    BY <1>6, PollCases
  <2> QED
    BY <1>1, <1>2, <2>1 DEF Polls, store
<1>7. CASE IndexOne(w)
  <2>1. PICK e \in run[w].todo : Indexes(w, e) \/ Rejects(w, e)
    BY <1>7, IndexOneCases
  <2> DEFINE r1 == [run[w] EXCEPT !.todo = @ \ {e}]
             r2 == [run[w] EXCEPT !.todo = @ \ {e}, !.gone = @ \cup {e.source}]
  <2>2. r1.missed = run[w].missed /\ r2.missed = run[w].missed
    BY <1>1 DEF Run
  <2>3. missed' = missed /\ (Alone(w, "index", r1) \/ Alone(w, "index", r2))
    BY <2>1 DEF Indexes, Rejects, store
  <2> HIDE DEF r1, r2
  <2> QED
    BY <1>1, <1>2, <2>2, <2>3
<1>8. CASE Retire(w)
  <2>1. Alone(w, "mark", run[w]) /\ missed' = run[w].missed
    BY <1>8 DEF Retire, Alone, TypeInv, TypeOK
  <2> QED
    BY <1>1, <1>2, <2>1
<1>9. CASE MarkIngested(w) \/ MarkError(w) \/ Abort(w)
  <2>1. Alone(w, "idle", NoRun) /\ missed' = missed
    BY <1>9, FinishAlone DEF MarkIngested, MarkError, Abort, store
  <2> QED
    BY <1>1, <1>2, <2>1
<1> QED
  BY <1>3, <1>4, <1>5, <1>6, <1>7, <1>8, <1>9 DEF Step

LEMMA MissedStep == TypeInv /\ MissedInv /\ [Next]_vars => MissedInv'
<1> SUFFICES ASSUME TypeInv, MissedInv, [Next]_vars PROVE MissedInv'
  OBVIOUS
<1>1. \A s : Excused(s) => Excused(s)'
  <2>1. CASE \E tree \in Tree : Push(tree)
    BY <2>1, PushOutside DEF Outside, Excused
  <2>2. CASE UNCHANGED history
    BY <2>2 DEF Excused
  <2>3. (\E tree \in Tree : Push(tree)) \/ UNCHANGED history
    BY DEF Next, Step, vars, upstream, Start, Restart, LoseIndex, Reset, Edit, Tick,
           ResolveHead, FetchFails, Collect, Poll, IndexOne, Retire, MarkIngested,
           MarkError, Abort
  <2> QED
    BY <2>1, <2>2, <2>3
<1> DEFINE Goal == /\ \A s \in missed' : Excused(s)
                   /\ \A v \in Workers : \A s \in run'[v].missed : Excused(s)
<1>2. ASSUME NEW w \in Workers, Step(w) PROVE Goal
  BY <1>2, StepMissed
<1>3. ASSUME NEW w \in Workers, NEW force \in BOOLEAN, Start(w, force) PROVE Goal
  <2>1. missed' = missed /\ run'[w].missed = missed
    BY <1>3 DEF Start, NoRun, store, TypeInv, TypeOK
  <2>2. \A v \in Workers \ {w} : run'[v] = run[v]
    BY <1>3 DEF Start, TypeInv, TypeOK
  <2> QED
    BY <2>1, <2>2 DEF MissedInv
<1>4. ASSUME Restart \/ LoseIndex PROVE Goal
  <2>1. missed' = missed /\ \A v \in Workers : run'[v] = NoRun
    BY <1>4 DEF Restart, LoseIndex
  <2>2. NoRun.missed = {}
    BY DEF NoRun
  <2> QED
    BY <2>1, <2>2 DEF MissedInv
<1>5. ASSUME OutsideAction PROVE Goal
  <2>1. missed' = missed /\ \A v \in Workers : run'[v].missed = run[v].missed
    BY <1>5, OutsideStep DEF Outside, SameWork, store
  <2> QED
    BY <2>1 DEF MissedInv
<1> HIDE DEF Goal
<1>6. Goal
  BY <1>2, <1>3, <1>4, <1>5 DEF Next, OutsideAction
<1> QED
  BY <1>1, <1>6 DEF MissedInv, Goal

LEMMA PairStep ==
  OneWorker /\ TypeInv /\ AncestryOK /\ PairInv /\ [Next]_vars => PairInv'
<1> SUFFICES ASSUME OneWorker, TypeInv, AncestryOK, PairInv, [Next]_vars
             PROVE  PairInv'
  OBVIOUS
<1> DEFINE Goal == Paired' /\ \A w \in Workers : PairedRun(w)'
<1>1. ASSUME NEW w \in Workers, Step(w) PROVE Goal
  BY <1>1, ResolveHeadPaired, FetchFailsPaired, CollectPaired, PollPaired,
     IndexOnePaired, RetirePaired, MarkIngestedPaired, MarkErrorPaired, CalmSteps
     DEF Step
<1>2. ASSUME NEW w \in Workers, NEW force \in BOOLEAN, Start(w, force) PROVE Goal
  BY <1>2, StartPaired
<1>3. ASSUME LoseIndex PROVE Goal
  BY <1>3, LoseIndexPaired
<1>4. ASSUME OutsideAction PROVE Goal
  BY <1>4, OutsideStep, OutsidePaired DEF PairInv
<1> HIDE DEF Goal
<1>5. Goal
  BY <1>1, <1>2, <1>3, <1>4, CalmSteps DEF Next, OutsideAction
<1> QED
  BY <1>5, BudgetCalm DEF PairInv, Goal

(* With one worker whose runs end by themselves, whatever is pushed,       *)
(* rewritten, edited, rejected or lost, and whenever GitHub fails: while   *)
(* nothing is being indexed, the documentation that can be retrieved is    *)
(* that of the tree the cursor names, unless a force push has been         *)
(* followed by a diff, and but for the files a diff has named in vain,     *)
(* which are root-level documents or have had a revision that is none.     *)
THEOREM SnapshotStaysPaired ==
  ASSUME Calm
  PROVE  Spec => []SnapshotPaired
<1>1. Init => TypeInv /\ AncestryOK /\ PairInv /\ MissedInv
  <2>1. Init => MissedInv
    BY DEF Init, MissedInv, NoRun
  <2> QED
    BY <2>1, TypeInit, AncestryInit, PairInit
<1>2. TypeInv /\ AncestryOK /\ PairInv /\ MissedInv /\ [Next]_vars
        => TypeInv' /\ AncestryOK' /\ PairInv' /\ MissedInv'
  BY TypeInvStep, AncestryStep, PairStep, MissedStep DEF Calm
<1>3. TypeInv /\ AncestryOK /\ PairInv /\ MissedInv => SnapshotPaired
  BY PairedIsSnapshotPaired DEF PairInv
<1> QED
  BY <1>1, <1>2, <1>3, PTL DEF Spec

-----------------------------------------------------------------------------
(* CursorNotAhead and UnchangedMeansCurrent, for one worker that may be    *)
(* aborted and killed anywhere, on a branch that is only added to and      *)
(* whose files only get newer.  The log has at least what the cursor       *)
(* stands for, so that a restart brings back no less; and neither the log  *)
(* nor the index has more than HEAD.                                       *)
Forward == \A old, new \in Tree :
             MayPush(old, new) => \A s \in Documentation : old[s] <= new[s]

Growing == OneWorker /\ Unsafe = {} /\ Blank = {} /\ MaxResets = 0 /\ MaxLosses = 0 /\ Forward

GrowingHistory ==
  /\ tip = Len(history)
  /\ \A c \in DOMAIN history : ancestry[c] = 1..c
  /\ \A c, d \in DOMAIN history :
       c <= d => \A s \in Documentation : history[c][s] <= history[d][s]

InStore(c) == \A s \in Followed : index[s] >= history[c][s] /\ disk[s] >= history[c][s]

StoreInv ==
  /\ cursor.sha # 0 => InStore(cursor.sha)
  /\ \A s \in Documentation : index[s] <= history[tip][s] /\ disk[s] <= history[tip][s]

FollowsCursor(w) ==
  /\ pc[w] # "idle" => run[w].prev = cursor.sha
  /\ pc[w] \in {"head", "collect", "poll"} => Untouched(run[w]) /\ run[w].missed = missed
  /\ pc[w] = "poll" => run[w].head = run[w].prev
  /\ pc[w] \in {"collect", "poll", "index", "mark"} => run[w].head >= run[w].prev

RetiredIsAbsent(w) ==
  LET r == run[w]
  IN pc[w] = "index" =>
       \A s \in Documentation : Retires(r, s) => history[r.head][s] = 0

HandledInStore(w) ==
  LET r == run[w]
  IN pc[w] = "index" =>
       \A s \in Documentation \ r.missed : ~Awaited(r, s) =>
         index[s] >= history[r.head][s] /\ disk[s] >= history[r.head][s]

MarkedInStore(w) == pc[w] = "mark" => InStore(run[w].head)

GrowingRun(w) == /\ FollowsCursor(w) /\ EntriesOfHead(w) /\ RetiredIsAbsent(w)
                 /\ HandledInStore(w) /\ MarkedInStore(w)

GrowInv == /\ budget.reset = 0 /\ budget.loss = 0
           /\ StoreInv /\ \A w \in Workers : GrowingRun(w)

LEMMA Numbers ==
  ASSUME TypeInv
  PROVE  /\ \A c \in DOMAIN history : \A s \in Documentation : history[c][s] \in Nat
         /\ \A s \in Documentation : index[s] \in Nat /\ disk[s] \in Nat
         /\ DOMAIN history = 1..Len(history) /\ Len(history) \in Nat
         /\ tip \in DOMAIN history
<1>1. history \in Seq(Tree) /\ index \in Stored /\ disk \in Stored /\ tip \in DOMAIN history
  BY DEF TypeInv, TypeOK
<1>2. ASSUME NEW c \in DOMAIN history, NEW s \in Documentation PROVE history[c][s] \in Nat
  <2>1. history[c] \in Tree
    BY <1>1
  <2> QED
    BY <2>1, IngestionAssumption DEF Tree, Revision
<1>3. ASSUME NEW s \in Documentation PROVE index[s] \in Nat /\ disk[s] \in Nat
  BY <1>1, IngestionAssumption DEF Stored, Source, Revision
<1> QED
  BY <1>1, <1>2, <1>3

LEMMA GrowInit == Init /\ Growing => GrowingHistory /\ GrowInv
<1> SUFFICES ASSUME Init, Growing PROVE GrowingHistory /\ GrowInv
  OBVIOUS
<1>1. TypeInv
  BY TypeInit
<1>2. GrowingHistory
  <2>1. Len(history) = 1 /\ tip = 1 /\ ancestry[1] = 1..1
    BY DEF Init
  <2>2. DOMAIN history = {1}
    BY <1>1, <2>1, Numbers
  <2> QED
    BY <1>1, <2>1, <2>2, Numbers DEF GrowingHistory
<1>3. StoreInv
  <2>1. cursor.sha = 0 /\ \A s \in Documentation : index[s] = 0 /\ disk[s] = 0
    BY DEF Init, Empty, Source
  <2> QED
    BY <1>1, <2>1, Numbers DEF StoreInv
<1>4. ASSUME NEW w \in Workers PROVE GrowingRun(w)
  BY DEF Init, GrowingRun, FollowsCursor, EntriesOfHead, RetiredIsAbsent, HandledInStore,
         MarkedInStore
<1>5. budget.reset = 0 /\ budget.loss = 0
  BY DEF Init, Growing
<1> QED
  BY <1>2, <1>3, <1>4, <1>5 DEF GrowInv

LEMMA GrowingPush ==
  ASSUME TypeInv, Growing, GrowingHistory, NEW tree \in Tree, Push(tree)
  PROVE  GrowingHistory'
<1>1. /\ UpstreamOK' /\ Len(history') = Len(history) + 1
      /\ tip' = Len(history') /\ history'[tip'] = tree
      /\ \A c \in DOMAIN history : /\ history'[c] = history[c]
                                   /\ ancestry'[c] = ancestry[c]
      /\ ancestry'[tip'] = ancestry[tip] \cup {tip'}
  BY PushKeeps
<1>2. /\ DOMAIN history = 1..Len(history) /\ DOMAIN history' = 1..Len(history')
      /\ Len(history) \in Nat \ {0} /\ tip = Len(history)
  BY <1>1 DEF TypeInv, TypeOK, UpstreamOK, GrowingHistory
<1>3. ASSUME NEW c \in DOMAIN history' PROVE c \in DOMAIN history \/ c = tip'
  BY <1>1, <1>2
<1>4. ASSUME NEW c \in DOMAIN history' PROVE ancestry'[c] = 1..c
  <2>1. ancestry'[tip'] = 1..tip'
    BY <1>1, <1>2 DEF GrowingHistory
  <2> QED
    BY <1>1, <1>3, <2>1 DEF GrowingHistory
<1>5. \A s \in Documentation : history[tip][s] <= tree[s]
  <2>1. history[tip] \in Tree /\ MayPush(history[tip], tree)
    BY <1>2 DEF TypeInv, TypeOK, Push
  <2> QED
    BY <2>1 DEF Growing, Forward
<1>6. ASSUME NEW c \in DOMAIN history', NEW d \in DOMAIN history', c <= d,
             NEW s \in Documentation
      PROVE  history'[c][s] <= history'[d][s]
  <2>1. tree[s] \in Nat
    BY IngestionAssumption DEF Tree, Revision
  <2>2. CASE d \in DOMAIN history
    <3>1. c \in DOMAIN history
      BY <1>2, <1>6, <2>2
    <3> QED
      BY <1>1, <1>6, <2>2, <3>1 DEF GrowingHistory
  <2>3. CASE d = tip' /\ c \in DOMAIN history
    <3>1. history[c][s] <= history[tip][s] /\ history[c][s] \in Nat /\ history[tip][s] \in Nat
      BY <1>2, <2>3, Numbers DEF GrowingHistory
    <3> QED
      BY <1>1, <1>5, <2>1, <2>3, <3>1
  <2>4. CASE d = tip' /\ c = tip'
    BY <1>1, <2>1, <2>4
  <2> QED
    BY <1>3, <2>2, <2>3, <2>4
<1> QED
  BY <1>1, <1>4, <1>6 DEF GrowingHistory

(* Nothing is rewritten and nothing is lost. *)
LEMMA GrowingSteps ==
  ASSUME GrowInv
  PROVE  ~LoseIndex /\ \A commit : ~Reset(commit)
BY DEF GrowInv, LoseIndex, Reset, Spend

LEMMA GrowingHistoryStep ==
  TypeInv /\ Growing /\ GrowingHistory /\ GrowInv /\ [Next]_vars => GrowingHistory'
<1> SUFFICES ASSUME TypeInv, Growing, GrowingHistory, GrowInv, [Next]_vars
             PROVE  GrowingHistory'
  OBVIOUS
<1>1. CASE \E tree \in Tree : Push(tree)
  BY <1>1, GrowingPush
<1>2. CASE UNCHANGED <<history, ancestry, tip>>
  BY <1>2 DEF GrowingHistory
<1>3. (\E tree \in Tree : Push(tree)) \/ UNCHANGED <<history, ancestry, tip>>
  BY ZenonT(60), GrowingSteps
     DEF Next, Step, vars, upstream, Start, Restart, Edit, Tick,
         ResolveHead, FetchFails, Collect, Poll, IndexOne, Retire, MarkIngested,
         MarkError, Abort
<1> QED
  BY <1>1, <1>2, <1>3

LEMMA BudgetGrowing ==
  ASSUME TypeInv, GrowInv, [Next]_vars
  PROVE  budget'.reset = 0 /\ budget'.loss = 0
<1>1. ASSUME NEW kind \in {"error", "abort", "restart"}, Spend(kind)
      PROVE  budget'.reset = 0 /\ budget'.loss = 0
  BY <1>1 DEF Spend, GrowInv
<1>2. CASE UNCHANGED budget
  BY <1>2 DEF GrowInv
<1>3. UNCHANGED budget \/ Spend("error") \/ Spend("abort") \/ Spend("restart")
  BY GrowingSteps
     DEF Next, Step, vars, Start, Restart, Push, Edit, Tick, ResolveHead,
         FetchFails, Collect, Poll, IndexOne, Retire, MarkIngested, MarkError, Abort
<1> QED
  BY <1>1, <1>2, <1>3

LEMMA StoreInvSame ==
  ASSUME StoreInv, UNCHANGED <<history, tip, index, disk, missed>>, cursor'.sha = cursor.sha
  PROVE  StoreInv'
BY DEF StoreInv, InStore, Followed

LEMMA OutsideGrowing ==
  ASSUME TypeInv, TypeInv', GrowingHistory, GrowingHistory', GrowInv, Outside
  PROVE  StoreInv' /\ \A w \in Workers : GrowingRun(w)'
<1>1. /\ UNCHANGED <<cursor, index, disk, missed, pc>>
      /\ DOMAIN history \subseteq DOMAIN history'
      /\ \A c \in DOMAIN history : history'[c] = history[c]
      /\ \A w \in Workers : SameWork(run'[w], run[w])
  BY DEF Outside, store
<1>2. ASSUME NEW c \in DOMAIN history PROVE InStore(c)' <=> InStore(c)
  BY <1>1 DEF InStore, Followed
<1>3. cursor.sha # 0 => cursor.sha \in DOMAIN history
  BY DEF TypeInv, TypeOK
<1>4. \A s \in Documentation : history[tip][s] <= history'[tip'][s]
  <2>1. tip \in DOMAIN history /\ history'[tip] = history[tip] /\ tip \in DOMAIN history'
    BY <1>1 DEF TypeInv, TypeOK
  <2>2. DOMAIN history' = 1..Len(history') /\ tip' = Len(history') /\ tip' \in DOMAIN history'
    BY DEF TypeInv, TypeOK, GrowingHistory
  <2>3. tip <= tip'
    BY <2>1, <2>2
  <2> QED
    BY <2>1, <2>2, <2>3 DEF GrowingHistory
<1>5. StoreInv'
  <2>1. \A s \in Documentation : index'[s] <= history'[tip'][s] /\ disk'[s] <= history'[tip'][s]
    <3> TAKE s \in Documentation
    <3>1. history[tip][s] \in Nat /\ index[s] \in Nat /\ disk[s] \in Nat
      BY Numbers
    <3>2. history'[tip'][s] \in Nat
      <4>1. history'[tip'] \in Tree
        BY DEF TypeInv, TypeOK
      <4> QED
        BY <4>1, IngestionAssumption DEF Tree, Revision
    <3> QED
      BY <1>1, <1>4, <3>1, <3>2 DEF GrowInv, StoreInv
  <2> QED
    BY <1>1, <1>2, <1>3, <2>1 DEF StoreInv, GrowInv
<1>6. ASSUME NEW w \in Workers PROVE GrowingRun(w)'
  <2>1. /\ FollowsCursor(w) /\ EntriesOfHead(w) /\ RetiredIsAbsent(w)
        /\ HandledInStore(w) /\ MarkedInStore(w)
    BY DEF GrowInv, GrowingRun
  <2>2. SameWork(run'[w], run[w])
    BY <1>1
  <2>3. pc[w] \in {"collect", "poll", "index", "mark"} =>
          /\ run[w].head \in DOMAIN history
          /\ history'[run[w].head] = history[run[w].head]
    BY <1>1 DEF TypeInv, RunOK
  <2>4. FollowsCursor(w)'
    BY <1>1, <2>1, <2>2 DEF FollowsCursor, SameWork, Untouched
  <2>5. EntriesOfHead(w)'
    BY <1>1, <2>1, <2>2, <2>3 DEF EntriesOfHead, SameWork, Retires
  <2>6. RetiredIsAbsent(w)'
    BY <1>1, <2>1, <2>2, <2>3 DEF RetiredIsAbsent, SameWork, Retires
  <2>7. HandledInStore(w)'
    BY <1>1, <2>1, <2>2, <2>3 DEF HandledInStore, SameWork, Awaited
  <2>8. MarkedInStore(w)'
    BY <1>1, <1>2, <2>1, <2>2, <2>3 DEF MarkedInStore, SameWork
  <2> QED
    BY <2>4, <2>5, <2>6, <2>7, <2>8 DEF GrowingRun
<1> QED
  BY <1>5, <1>6

LEMMA StartGrowing ==
  ASSUME OneWorker, TypeInv, GrowInv, NEW w \in Workers, NEW force \in BOOLEAN,
         Start(w, force)
  PROVE  StoreInv' /\ \A v \in Workers : GrowingRun(v)'
<1> DEFINE r == [NoRun EXCEPT !.prev = cursor.sha, !.force = force,
                              !.retry = cursor.failed /\ ~force,
                              !.stamp = stamp, !.since = window, !.missed = missed]
<1>1. Alone(w, "head", r) /\ UNCHANGED <<upstream, state, store>>
  BY DEF Start, Alone
<1>2. r.prev = cursor.sha /\ Untouched(r) /\ r.missed = missed
  BY DEF NoRun, Untouched
<1> HIDE DEF r
<1>3. pc'[w] = "head" /\ run'[w] = r /\ \A v \in Workers : v = w
  BY <1>1, AloneWorker
<1>4. StoreInv'
  BY <1>1, StoreInvSame DEF GrowInv, upstream, state, store
<1>5. /\ FollowsCursor(w)' /\ EntriesOfHead(w)' /\ RetiredIsAbsent(w)'
      /\ HandledInStore(w)' /\ MarkedInStore(w)'
  BY <1>1, <1>2, <1>3
     DEF FollowsCursor, EntriesOfHead, RetiredIsAbsent, HandledInStore, MarkedInStore,
         state, store, Untouched
<1> QED
  BY <1>3, <1>4, <1>5 DEF GrowingRun

LEMMA ResolveHeadGrowing ==
  ASSUME OneWorker, TypeInv, GrowingHistory, GrowInv, NEW w \in Workers, ResolveHead(w)
  PROVE  StoreInv' /\ \A v \in Workers : GrowingRun(v)'
<1>1. PICK place \in {"idle", "collect", "poll"}, r \in Run \cup {NoRun} :
        Resolves(w, place, r)
  BY ResolveHeadCases
<1>2. pc'[w] = place /\ run'[w] = r /\ \A v \in Workers : v = w
  BY <1>1, AloneWorker DEF Resolves
<1>3. StoreInv'
  BY <1>1, StoreInvSame DEF GrowInv, Resolves, upstream, state, store
<1>4. run[w].prev = cursor.sha /\ Untouched(run[w]) /\ run[w].missed = missed
  BY <1>1 DEF GrowInv, GrowingRun, FollowsCursor, Resolves
<1>5. tip >= cursor.sha
  BY DEF GrowingHistory, TypeInv, TypeOK
<1>6. FollowsCursor(w)'
  BY <1>1, <1>2, <1>4, <1>5 DEF FollowsCursor, Untouched, Resolves, state, store
<1>7. EntriesOfHead(w)' /\ RetiredIsAbsent(w)' /\ HandledInStore(w)' /\ MarkedInStore(w)'
  BY <1>1, <1>2 DEF EntriesOfHead, RetiredIsAbsent, HandledInStore, MarkedInStore
<1> QED
  BY <1>2, <1>3, <1>6, <1>7 DEF GrowingRun

LEMMA FetchFailsGrowing ==
  ASSUME OneWorker, TypeInv, GrowInv, NEW w \in Workers, FetchFails(w)
  PROVE  StoreInv' /\ \A v \in Workers : GrowingRun(v)'
<1>1. /\ Alone(w, "failed", run[w]) /\ pc[w] # "idle" /\ UNCHANGED <<upstream, state, store>>
  BY DEF FetchFails, Alone, TypeInv, TypeOK
<1>2. pc'[w] = "failed" /\ run'[w] = run[w] /\ \A v \in Workers : v = w
  BY <1>1, AloneWorker
<1>3. StoreInv'
  BY <1>1, StoreInvSame DEF GrowInv, upstream, state, store
<1>4. run[w].prev = cursor.sha
  BY <1>1 DEF GrowInv, GrowingRun, FollowsCursor
<1>5. /\ FollowsCursor(w)' /\ EntriesOfHead(w)' /\ RetiredIsAbsent(w)'
      /\ HandledInStore(w)' /\ MarkedInStore(w)'
  BY <1>1, <1>2, <1>4
     DEF FollowsCursor, EntriesOfHead, RetiredIsAbsent, HandledInStore, MarkedInStore, state
<1> QED
  BY <1>2, <1>3, <1>5 DEF GrowingRun

LEMMA CollectGrowing ==
  ASSUME Growing, TypeInv, AncestryOK, GrowingHistory, GrowInv, NEW w \in Workers,
         Collect(w)
  PROVE  StoreInv' /\ \A v \in Workers : GrowingRun(v)'
<1> DEFINE r == run[w]
<1>0. OneWorker /\ Blank = {}
  BY DEF Growing
<1>1. PICK from, fetched : \E full \in BOOLEAN : Collects(w, from, full, fetched)
  BY CollectCases, Zenon
<1>2. PICK full \in BOOLEAN : Collects(w, from, full, fetched)
  BY <1>1
<1>3. /\ pc[w] = "collect" /\ Alone(w, "index", Collected(r, from, full, fetched))
      /\ UNCHANGED <<upstream, state, store, budget>>
      /\ ~r.first => from = MergeBase(r.prev, r.head)
      /\ r.first => full
  BY <1>2 DEF Collects
<1> DEFINE q == Collected(r, from, full, fetched)
<1>4. pc'[w] = "index" /\ run'[w] = q /\ \A v \in Workers : v = w
  BY <1>0, <1>3, AloneWorker
<1>5. /\ r \in Run /\ r.prev = cursor.sha /\ r.head \in DOMAIN history /\ r.head >= r.prev
      /\ ~r.first => r.prev \in DOMAIN history
      /\ r.missed = missed
  BY <1>3 DEF GrowInv, GrowingRun, FollowsCursor, TypeInv, RunOK
<1>6. q.head = r.head /\ q.prev = r.prev /\ q.full = full
  BY <1>5 DEF Collected, Run
<1>7. UNCHANGED <<history, tip, cursor, index, disk, missed>>
  BY <1>3 DEF upstream, state, store
<1>8. StoreInv'
  BY <1>7, StoreInvSame DEF GrowInv
<1> HIDE DEF q
<1>9. ASSUME NEW s \in Documentation PROVE CollectedOne(r, q, from, full, s)
  BY <1>2, CollectedFile DEF q
<1>10. EntriesOfHead(w)' /\ RetiredIsAbsent(w)'
  BY <1>0, <1>4, <1>6, <1>7, <1>9 DEF EntriesOfHead, RetiredIsAbsent, CollectedOne, Normalized
<1>11. HandledInStore(w)'
  <2> SUFFICES ASSUME NEW s \in Documentation \ q.missed, ~Awaited(q, s)
               PROVE  index[s] >= history[r.head][s] /\ disk[s] >= history[r.head][s]
    BY <1>4, <1>6, <1>7 DEF HandledInStore
  <2>1. CASE Retires(q, s)
    <3>1. history[r.head][s] = 0
      BY <1>0, <1>9, <2>1 DEF CollectedOne, Normalized
    <3> QED
      BY <3>1, Numbers
  <2>2. CASE ~Retires(q, s)
    <3>1. ~r.first /\ s \in Followed /\ Before(r, from)[s] = history[r.head][s]
      BY <1>3, <1>5, <1>9, <2>2 DEF CollectedOne, Followed
    <3>2. r.prev \in ancestry[r.head]
      BY <1>5, <3>1, Numbers DEF GrowingHistory
    <3>3. from = r.prev
      BY <1>3, <1>5, <3>1, <3>2, MergeBaseOfAncestor
    <3>4. Before(r, from) = history[cursor.sha]
      BY <1>5, <3>1, <3>3 DEF Before
    <3>5. InStore(cursor.sha)
      BY <1>5, <3>1, Numbers DEF GrowInv, StoreInv
    <3> QED
      BY <3>1, <3>4, <3>5 DEF InStore
  <2> QED
    BY <2>1, <2>2
<1>12. FollowsCursor(w)' /\ MarkedInStore(w)'
  BY <1>4, <1>5, <1>6, <1>7 DEF FollowsCursor, MarkedInStore
<1> QED
  BY <1>4, <1>8, <1>10, <1>11, <1>12 DEF GrowingRun

LEMMA PollGrowing ==
  ASSUME OneWorker, TypeInv, GrowInv, NEW w \in Workers, Poll(w)
  PROVE  StoreInv' /\ \A v \in Workers : GrowingRun(v)'
<1> DEFINE r == run[w]
<1>1. PICK q \in Run : Polls(w, q)
  BY PollCases
<1>2. /\ Alone(w, "index", q) /\ pc[w] = "poll"
      /\ UNCHANGED <<upstream, state, store, budget>>
      /\ q.prev = r.prev /\ q.head = r.head
      /\ q.gone = r.gone /\ q.full = r.full /\ q.keep = r.keep /\ q.missed = r.missed
      /\ q.todo = {e \in ActivityEntries(r) : index[e.source] # e.revision}
  BY <1>1 DEF Polls
<1>3. pc'[w] = "index" /\ run'[w] = q /\ \A v \in Workers : v = w
  BY <1>2, AloneWorker
<1>4. /\ r.prev = cursor.sha /\ r.head = r.prev /\ Untouched(r) /\ r.missed = missed
      /\ r.head \in DOMAIN history /\ r.head >= r.prev
  BY <1>2 DEF GrowInv, GrowingRun, FollowsCursor, TypeInv, RunOK
<1>5. UNCHANGED <<history, tip, cursor, index, disk, missed>>
  BY <1>2 DEF upstream, state, store
<1>6. StoreInv'
  BY <1>5, StoreInvSame DEF GrowInv
<1>7. \A s : ~Retires(q, s)
  BY <1>2, <1>4 DEF Retires, Untouched
<1>8. \A e \in q.todo : e.source \notin Documentation
  BY <1>2, ActivityEntriesType, IngestionAssumption
<1>9. EntriesOfHead(w)' /\ RetiredIsAbsent(w)'
  BY <1>3, <1>7, <1>8 DEF EntriesOfHead, RetiredIsAbsent
<1>10. HandledInStore(w)'
  <2>1. InStore(cursor.sha)
    BY <1>4, Numbers DEF GrowInv, StoreInv
  <2> QED
    BY <1>2, <1>3, <1>4, <1>5, <2>1 DEF HandledInStore, InStore, Followed
<1>11. FollowsCursor(w)' /\ MarkedInStore(w)'
  BY <1>2, <1>3, <1>4, <1>5 DEF FollowsCursor, MarkedInStore
<1> QED
  BY <1>3, <1>6, <1>9, <1>10, <1>11 DEF GrowingRun

LEMMA IndexOneGrowing ==
  ASSUME Growing, TypeInv, GrowingHistory, GrowInv, NEW w \in Workers, IndexOne(w)
  PROVE  StoreInv' /\ \A v \in Workers : GrowingRun(v)'
<1> DEFINE r == run[w]
           q == run'[w]
           tree == history[r.head]
<1>1. PICK e \in r.todo : e \in Entry /\ IndexedFile(w, e)
  BY IndexOneFile DEF Growing
<1>2. /\ q.prev = r.prev /\ q.head = r.head /\ q.todo = r.todo \ {e}
      /\ q.missed = r.missed
      /\ pc[w] = "index" /\ pc'[w] = "index" /\ \A v \in Workers : v = w
      /\ UNCHANGED <<history, tip, cursor, missed>>
      /\ index'[e.source] = e.revision /\ disk'[e.source] = e.revision
      /\ Retires(q, e.source) <=> Retires(r, e.source)
      /\ \A s \in Documentation \ {e.source} :
           /\ Retires(q, s) <=> Retires(r, s)
           /\ index'[s] = index[s] /\ disk'[s] = disk[s]
  BY <1>1 DEF IndexedFile, Growing, Source, upstream, state
<1>3. /\ r.prev = cursor.sha /\ r.head >= r.prev /\ r.head \in DOMAIN history
      /\ EntriesOfHead(w) /\ RetiredIsAbsent(w) /\ HandledInStore(w)
  BY <1>2 DEF GrowInv, GrowingRun, FollowsCursor, TypeInv, RunOK
<1>4. e.source \in Documentation => e.revision = tree[e.source]
  BY <1>1, <1>2, <1>3 DEF EntriesOfHead
<1>5. \A s \in Documentation :
        /\ tree[s] \in Nat /\ tree[s] <= history[tip][s]
        /\ cursor.sha # 0 => history[cursor.sha][s] <= tree[s]
  <2> TAKE s \in Documentation
  <2>1. r.head <= tip
    BY <1>3, Numbers DEF GrowingHistory
  <2>2. tree[s] \in Nat /\ tree[s] <= history[tip][s]
    BY <1>3, <2>1, Numbers DEF GrowingHistory
  <2>3. cursor.sha # 0 => cursor.sha \in DOMAIN history
    BY DEF TypeInv, TypeOK
  <2>4. cursor.sha # 0 => history[cursor.sha][s] <= tree[s]
    BY <1>3, <2>3 DEF GrowingHistory
  <2> QED
    BY <2>2, <2>4
<1>6. StoreInv'
  <2> SUFFICES ASSUME NEW s \in Documentation
               PROVE  /\ cursor.sha # 0 /\ s \in Followed =>
                           /\ index'[s] >= history[cursor.sha][s]
                           /\ disk'[s] >= history[cursor.sha][s]
                      /\ index'[s] <= history[tip][s] /\ disk'[s] <= history[tip][s]
    BY <1>2 DEF StoreInv, InStore, Followed
  <2>1. CASE s = e.source
    BY <1>2, <1>4, <1>5, <2>1
  <2>2. CASE s # e.source
    BY <1>2, <2>2 DEF GrowInv, StoreInv, InStore
  <2> QED
    BY <2>1, <2>2
<1>7. EntriesOfHead(w)'
  BY <1>1, <1>3, IndexOneEntries
<1>8. RetiredIsAbsent(w)'
  <2> SUFFICES ASSUME NEW s \in Documentation, Retires(q, s) PROVE tree[s] = 0
    BY <1>2 DEF RetiredIsAbsent
  <2>1. Retires(r, s)
    BY <1>2
  <2> QED
    BY <1>2, <1>3, <2>1 DEF RetiredIsAbsent
<1>9. HandledInStore(w)'
  <2> SUFFICES ASSUME NEW s \in Documentation \ r.missed, ~Awaited(q, s)
               PROVE  index'[s] >= tree[s] /\ disk'[s] >= tree[s]
    BY <1>2 DEF HandledInStore
  <2>1. CASE s = e.source
    BY <1>2, <1>4, <1>5, <2>1
  <2>2. CASE s # e.source
    <3>1. ~Awaited(r, s)
      BY <1>2, <2>2 DEF Awaited
    <3> QED
      BY <1>2, <1>3, <2>2, <3>1 DEF HandledInStore
  <2> QED
    BY <2>1, <2>2
<1>10. FollowsCursor(w)' /\ MarkedInStore(w)'
  BY <1>2, <1>3 DEF FollowsCursor, MarkedInStore
<1> QED
  BY <1>2, <1>6, <1>7, <1>8, <1>9, <1>10 DEF GrowingRun

LEMMA RetireGrowing ==
  ASSUME OneWorker, TypeInv, GrowingHistory, GrowInv, NEW w \in Workers, Retire(w)
  PROVE  StoreInv' /\ \A v \in Workers : GrowingRun(v)'
<1> DEFINE r == run[w]
           tree == history[r.head]
<1>1. /\ Alone(w, "mark", r) /\ UNCHANGED <<upstream, state, disk>>
      /\ pc[w] = "index" /\ r.todo = {} /\ missed' = r.missed
      /\ \A s \in Documentation : index'[s] = IF Retires(r, s) THEN 0 ELSE index[s]
  BY DEF Retire, Alone, TypeInv, TypeOK, Retires, Source
<1>2. pc'[w] = "mark" /\ run'[w] = r /\ \A v \in Workers : v = w
  BY <1>1, AloneWorker
<1>3. /\ r.prev = cursor.sha /\ r.head >= r.prev /\ r.head \in DOMAIN history
      /\ RetiredIsAbsent(w) /\ HandledInStore(w)
  BY <1>1 DEF GrowInv, GrowingRun, FollowsCursor, TypeInv, RunOK
<1>4. UNCHANGED <<history, tip, cursor, disk>>
  BY <1>1 DEF upstream, state
<1>5. ASSUME NEW s \in Documentation
      PROVE  /\ s \notin r.missed => index'[s] >= tree[s] /\ disk'[s] >= tree[s]
             /\ index'[s] <= history[tip][s] /\ disk'[s] <= history[tip][s]
             /\ index'[s] \in Nat /\ disk'[s] \in Nat /\ tree[s] \in Nat
  <2>1. ~Awaited(r, s)
    BY <1>1 DEF Awaited
  <2>2. s \notin r.missed => index[s] >= tree[s] /\ disk[s] >= tree[s]
    BY <1>1, <1>3, <2>1 DEF HandledInStore
  <2>3. index[s] <= history[tip][s] /\ disk[s] <= history[tip][s]
    BY DEF GrowInv, StoreInv
  <2>4. Retires(r, s) => tree[s] = 0
    BY <1>1, <1>3 DEF RetiredIsAbsent
  <2>5. /\ index[s] \in Nat /\ disk[s] \in Nat /\ tree[s] \in Nat
        /\ history[tip][s] \in Nat
    BY <1>3, Numbers
  <2> QED
    BY <1>1, <1>4, <2>2, <2>3, <2>4, <2>5
<1>6. StoreInv'
  <2> SUFFICES ASSUME NEW s \in Documentation \ r.missed, cursor.sha # 0
               PROVE  /\ index'[s] >= history[cursor.sha][s]
                      /\ disk'[s] >= history[cursor.sha][s]
    BY <1>1, <1>4, <1>5 DEF StoreInv, InStore, Followed
  <2>1. cursor.sha \in DOMAIN history
    BY DEF TypeInv, TypeOK
  <2>2. history[cursor.sha][s] <= tree[s] /\ history[cursor.sha][s] \in Nat
    BY <1>3, <2>1, Numbers DEF GrowingHistory
  <2> QED
    BY <1>5, <2>2
<1>7. MarkedInStore(w)'
  BY <1>1, <1>2, <1>4, <1>5 DEF MarkedInStore, InStore, Followed
<1>8. /\ FollowsCursor(w)' /\ EntriesOfHead(w)' /\ RetiredIsAbsent(w)'
      /\ HandledInStore(w)'
  BY <1>2, <1>3, <1>4
     DEF FollowsCursor, EntriesOfHead, RetiredIsAbsent, HandledInStore
<1> QED
  BY <1>2, <1>6, <1>7, <1>8 DEF GrowingRun

LEMMA IdleGrowing ==
  ASSUME NEW w \in Workers, pc'[w] = "idle"
  PROVE  GrowingRun(w)'
BY DEF GrowingRun, FollowsCursor, EntriesOfHead, RetiredIsAbsent, HandledInStore, MarkedInStore

LEMMA MarkIngestedGrowing ==
  ASSUME OneWorker, TypeInv, GrowInv, NEW w \in Workers, MarkIngested(w)
  PROVE  StoreInv' /\ \A v \in Workers : GrowingRun(v)'
<1>1. /\ Alone(w, "idle", NoRun) /\ UNCHANGED <<upstream, store>> /\ pc[w] = "mark"
      /\ cursor'.sha = run[w].head
  BY FinishAlone DEF MarkIngested
<1>2. pc'[w] = "idle" /\ \A v \in Workers : v = w
  BY <1>1, AloneWorker
<1>3. MarkedInStore(w)
  BY DEF GrowInv, GrowingRun
<1>4. StoreInv'
  BY <1>1, <1>3 DEF GrowInv, StoreInv, MarkedInStore, InStore, Followed, upstream, store
<1> QED
  BY <1>2, <1>4, IdleGrowing

(* A run that ends without the mark, by itself or not. *)
LEMMA EndGrowing ==
  ASSUME OneWorker, TypeInv, GrowInv, NEW w \in Workers, MarkError(w) \/ Abort(w)
  PROVE  StoreInv' /\ \A v \in Workers : GrowingRun(v)'
<1>1. /\ Alone(w, "idle", NoRun) /\ UNCHANGED <<upstream, store>>
      /\ cursor'.sha = cursor.sha
  BY FinishAlone DEF MarkError, Abort, TypeInv, TypeOK, state
<1>2. pc'[w] = "idle" /\ \A v \in Workers : v = w
  BY <1>1, AloneWorker
<1>3. StoreInv'
  BY <1>1, StoreInvSame DEF GrowInv, upstream, store
<1> QED
  BY <1>2, <1>3, IdleGrowing

LEMMA RestartGrowing ==
  GrowInv /\ Restart => StoreInv' /\ \A w \in Workers : GrowingRun(w)'
<1> SUFFICES ASSUME GrowInv, Restart PROVE StoreInv' /\ \A w \in Workers : GrowingRun(w)'
  OBVIOUS
<1>1. StoreInv'
  BY DEF Restart, GrowInv, StoreInv, InStore, Followed, upstream, state
<1>2. \A w \in Workers : pc'[w] = "idle"
  BY DEF Restart
<1> QED
  BY <1>1, <1>2, IdleGrowing

LEMMA GrowStep ==
  ASSUME Growing, TypeInv, TypeInv', AncestryOK, GrowingHistory, GrowingHistory', GrowInv,
         [Next]_vars
  PROVE  GrowInv'
<1> DEFINE Goal == StoreInv' /\ \A w \in Workers : GrowingRun(w)'
<1>0. OneWorker
  BY DEF Growing
<1>1. ASSUME NEW w \in Workers, Step(w) PROVE Goal
  BY <1>0, <1>1, ResolveHeadGrowing, FetchFailsGrowing, CollectGrowing, PollGrowing,
     IndexOneGrowing, RetireGrowing, MarkIngestedGrowing, EndGrowing DEF Step
<1>2. ASSUME NEW w \in Workers, NEW force \in BOOLEAN, Start(w, force) PROVE Goal
  BY <1>0, <1>2, StartGrowing
<1>3. ASSUME Restart PROVE Goal
  BY <1>3, RestartGrowing
<1>4. ASSUME OutsideAction PROVE Goal
  BY <1>4, OutsideStep, OutsideGrowing
<1> HIDE DEF Goal
<1>5. Goal
  BY <1>1, <1>2, <1>3, <1>4, GrowingSteps DEF Next, OutsideAction
<1> QED
  BY <1>5, BudgetGrowing DEF GrowInv, Goal

LEMMA GrowingInvariant ==
  ASSUME Growing
  PROVE  Spec => [](TypeInv /\ AncestryOK /\ GrowingHistory /\ GrowInv)
<1> DEFINE Inv == TypeInv /\ AncestryOK /\ GrowingHistory /\ GrowInv
<1>1. Init => Inv
  BY TypeInit, AncestryInit, GrowInit
<1>2. Inv /\ [Next]_vars => Inv'
  BY TypeInvStep, AncestryStep, GrowingHistoryStep, GrowStep
<1> QED
  BY <1>1, <1>2, PTL DEF Spec

(* With one worker, on a branch that is only added to and whose files only *)
(* get newer: wherever runs are aborted or the process is killed, and      *)
(* whenever GitHub fails, no file that no diff has named in vain is served *)
(* in an older revision than the one the cursor stands for.                *)
THEOREM CursorNeverAhead ==
  ASSUME Growing
  PROVE  Spec => []CursorNotAhead
<1>1. TypeInv /\ AncestryOK /\ GrowingHistory /\ GrowInv => CursorNotAhead
  BY DEF GrowInv, StoreInv, InStore, CursorNotAhead
<1> QED
  BY <1>1, GrowingInvariant, PTL

(* Under the same conditions: when the next run would look no further than *)
(* the cursor, every such file is served as HEAD has it.                   *)
THEOREM UnchangedIsCurrent ==
  ASSUME Growing
  PROVE  Spec => []UnchangedMeansCurrent
<1>1. ASSUME TypeInv, GrowInv, cursor = [sha |-> tip, failed |-> FALSE],
             NEW s \in Followed
      PROVE  index[s] = Indexed(s)
  <2>1. cursor.sha = tip /\ tip # 0
    BY <1>1, Numbers
  <2>2. index[s] >= history[tip][s] /\ index[s] <= history[tip][s]
    BY <1>1, <2>1 DEF GrowInv, StoreInv, InStore, Followed
  <2>3. index[s] \in Nat /\ history[tip][s] \in Nat
    BY <1>1, Numbers DEF Followed
  <2>4. Indexed(s) = history[tip][s]
    BY <2>1, IngestionAssumption DEF Indexed, Served, Normalized, Followed, Growing
  <2> QED
    BY <2>2, <2>3, <2>4
<1>2. TypeInv /\ GrowInv => UnchangedMeansCurrent
  BY <1>1 DEF UnchangedMeansCurrent
<1> QED
  BY <1>2, GrowingInvariant, PTL

-----------------------------------------------------------------------------
(* StaleIsPending, for one worker that is neither killed nor loses the     *)
(* index, whose runs are over before the overlap is, and no more pull      *)
(* requests or issues than one snapshot brings.  An item that is outside   *)
(* the window is served as it is; during a run one that was updated since  *)
(* the run fetched is young enough for the next window.                    *)
Prompt ==
  /\ OneWorker /\ MaxRestarts = 0 /\ MaxLosses = 0
  /\ RunLimit < Overlap
  /\ Cardinality(Pulls) <= MaxItems /\ Cardinality(Issues) <= MaxItems

KnownItem(i) ==
  /\ item[i] = 0 => index[i] = 0 /\ i \notin window
  /\ item[i] # 0 /\ age[i] < Overlap => i \in window
  /\ i \notin newer[i]
  /\ index[i] \notin Unsafe
  /\ cursor.sha # 0 /\ i \notin window => index[i] = Served(item[i])

(* Updated since the run fetched. *)
JustUpdated(r, i) == item[i] # 0 /\ age[i] <= r.elapsed

FollowsWindow(w) ==
  LET r == run[w]
  IN /\ pc[w] # "idle" => r.prev = cursor.sha
     /\ pc[w] \in {"head", "collect", "poll"} =>
          r.since = window /\ Untouched(r) /\ r.elapsed = 0
     /\ pc[w] \in {"collect", "poll"} /\ ~r.all => r.prev # 0
     /\ pc[w] = "poll" => ~r.all

ItemHandled(w, i) ==
  LET r == run[w]
  IN pc[w] = "index" =>
       /\ Awaited(r, i) => item[i] # 0
       /\ ~JustUpdated(r, i) =>
            /\ \A e \in r.todo : e.source = i => e.revision = item[i] /\ i \notin r.gone
            /\ ~Awaited(r, i) => Left(r, i) = Served(item[i])

ItemMarked(w, i) ==
  pc[w] = "mark" /\ ~JustUpdated(run[w], i) => index[i] = Served(item[i])

ItemRun(w) == FollowsWindow(w) /\ \A i \in Activity : ItemHandled(w, i) /\ ItemMarked(w, i)

ItemInv == /\ budget.restart = 0 /\ budget.loss = 0
           /\ \A i \in Activity : KnownItem(i)
           /\ \A w \in Workers : ItemRun(w)

LEMMA ItemNumbers ==
  ASSUME TypeInv, NEW i \in Activity
  PROVE  /\ item[i] \in Nat /\ index[i] \in Nat /\ age[i] \in Nat /\ 0 \notin Unsafe
         /\ \A w \in Workers : run[w].elapsed \in Nat /\ run[w].elapsed <= RunLimit
<1>1. item[i] \in Nat /\ age[i] \in Nat
  BY IngestionAssumption DEF TypeInv, TypeOK, Revision
<1>2. index[i] \in Nat /\ 0 \notin Unsafe
  BY IngestionAssumption DEF TypeInv, TypeOK, Stored, Source, Revision
<1>3. \A w \in Workers : run[w].elapsed \in Nat /\ run[w].elapsed <= RunLimit
  BY IngestionAssumption DEF TypeInv, RunOK, Run
<1> QED
  BY <1>1, <1>2, <1>3

LEMMA RetiresItem ==
  ASSUME NEW i \in Activity, NEW r
  PROVE  Retires(r, i) <=> i \in r.gone
BY IngestionAssumption DEF Retires

LEMMA ItemInit == Init /\ Prompt => ItemInv
<1> SUFFICES ASSUME Init, Prompt PROVE ItemInv
  OBVIOUS
<1>1. ASSUME NEW i \in Activity PROVE KnownItem(i)
  <2>1. i \in Source /\ item[i] = 0 /\ index[i] = 0 /\ newer[i] = {} /\ window = {}
    BY DEF Init, Empty, Source
  <2> QED
    BY <2>1, IngestionAssumption DEF KnownItem, Init
<1>2. ASSUME NEW w \in Workers PROVE ItemRun(w)
  BY DEF Init, ItemRun, FollowsWindow, ItemHandled, ItemMarked
<1> QED
  BY <1>1, <1>2 DEF ItemInv, Init, Prompt

(* A snapshot brings every item there is. *)
LEMMA SnapshotLists ==
  ASSUME TypeInv, Prompt, NEW kind, kind = Pulls \/ kind = Issues,
         NEW i \in kind, KnownItem(i), item[i] # 0, NEW r, r.all
  PROVE  i \in Listed(kind, r)
<1>1. IsFiniteSet(kind) /\ Cardinality(kind) <= MaxItems /\ i \in Activity
  <2>1. kind \subseteq Activity
    BY DEF Activity
  <2> QED
    BY <2>1, IngestionAssumption, FS_Subset DEF Prompt
<1> DEFINE others == newer[i] \cap kind
<1>2. others \subseteq kind /\ others # kind
  BY DEF KnownItem
<1>3. /\ Cardinality(others) <= Cardinality(kind)
      /\ Cardinality(others) # Cardinality(kind)
  BY <1>1, <1>2, FS_Subset
<1>4. Cardinality(kind) \in Nat /\ Cardinality(others) \in Nat /\ MaxItems \in Nat
  BY <1>1, <1>2, FS_Subset, FS_CardinalityType, IngestionAssumption
<1>5. Cardinality(others) < MaxItems
  BY <1>1, <1>3, <1>4
<1> QED
  BY <1>5 DEF Listed

(* What a collection or a poll leaves out. *)
LEMMA NotListed ==
  ASSUME TypeInv, Prompt, NEW i \in Activity, KnownItem(i), NEW r,
         \A e \in ActivityEntries(r) : e.source # i
  PROVE  IF r.all THEN item[i] = 0 ELSE i \notin r.since
<1> DEFINE e == [source |-> i, revision |-> item[i]]
<1>1. e \notin ActivityEntries(r)
  OBVIOUS
<1>2. i \notin Listed(Pulls, r) \cup Listed(Issues, r)
  BY <1>1 DEF ActivityEntries
<1>3. i \in Pulls \/ i \in Issues
  BY DEF Activity
<1>4. CASE r.all
  BY <1>2, <1>3, <1>4, SnapshotLists
<1>5. CASE ~r.all
  BY <1>2, <1>3, <1>5 DEF Listed
<1> QED
  BY <1>4, <1>5

LEMMA EntryOfItem ==
  ASSUME TypeInv, NEW i \in Activity, NEW r, r.since \subseteq window, KnownItem(i),
         NEW e \in ActivityEntries(r), e.source = i
  PROVE  e.revision = item[i] /\ item[i] # 0
<1>1. PICK j \in Listed(Pulls, r) \cup Listed(Issues, r) :
        e = [source |-> j, revision |-> item[j]]
  BY DEF ActivityEntries
<1>2. j = i
  BY <1>1
<1>3. item[i] # 0
  BY <1>1, <1>2 DEF Listed, KnownItem
<1> QED
  BY <1>1, <1>2, <1>3

ItemGoal == /\ \A i \in Activity : KnownItem(i)'
            /\ \A w \in Workers : ItemRun(w)'

(* What has nothing to do with activity. *)
LEMMA QuietItems ==
  ASSUME ItemInv, UNCHANGED <<item, newer, age, cursor, window, index, pc, run>>
  PROVE  ItemGoal
<1>1. \A i \in Activity : KnownItem(i)'
  BY DEF ItemInv, KnownItem
<1>2. ASSUME NEW w \in Workers PROVE ItemRun(w)'
  <2>1. ItemRun(w)
    BY DEF ItemInv
  <2> QED
    BY <2>1 DEF ItemRun, FollowsWindow, ItemHandled, ItemMarked, Untouched, JustUpdated,
                Awaited, Left, Retires
<1> QED
  BY <1>1, <1>2 DEF ItemGoal

(* An item is updated: it enters the window, and that of a run that has    *)
(* not fetched yet.                                                        *)
LEMMA EditItems ==
  ASSUME TypeInv, ItemInv, NEW j \in Activity, Edit(j)
  PROVE  ItemGoal
<1>1. /\ item' = [item EXCEPT ![j] = @ + 1] /\ age' = [age EXCEPT ![j] = 0]
      /\ newer' = [i \in Activity |-> IF i = j THEN {} ELSE newer[i] \cup {j}]
      /\ window' = window \cup {j}
      /\ UNCHANGED <<cursor, index, pc>>
  BY DEF Edit, store
<1>2. item'[j] # 0 /\ age'[j] = 0 /\ j \in window' /\ newer'[j] = {}
  BY <1>1, ItemNumbers DEF TypeInv, TypeOK
<1>3. \A i \in Activity \ {j} : /\ item'[i] = item[i] /\ age'[i] = age[i]
                                /\ newer'[i] = newer[i] \cup {j}
                                /\ i \in window' <=> i \in window
  BY <1>1 DEF TypeInv, TypeOK
<1>4. ASSUME NEW i \in Activity PROVE KnownItem(i)'
  <2>1. KnownItem(i)
    BY DEF ItemInv
  <2>2. CASE i = j
    BY <1>1, <1>2, <2>1, <2>2 DEF KnownItem
  <2>3. CASE i # j
    BY <1>1, <1>3, <2>1, <2>3 DEF KnownItem
  <2> QED
    BY <2>2, <2>3
<1>5. ASSUME NEW w \in Workers PROVE ItemRun(w)'
  <2> DEFINE r == run[w]
             q == run'[w]
  <2>1. /\ q.prev = r.prev /\ q.all = r.all /\ q.todo = r.todo /\ q.gone = r.gone
        /\ q.full = r.full /\ q.keep = r.keep /\ q.elapsed = r.elapsed
        /\ q.since = IF pc[w] \in {"head", "poll", "collect"} THEN r.since \cup {j} ELSE r.since
    BY DEF Edit, TypeInv, RunOK, Run
  <2>2. /\ FollowsWindow(w) /\ r.elapsed \in Nat
        /\ \A i \in Activity : ItemHandled(w, i) /\ ItemMarked(w, i)
    BY ItemNumbers DEF ItemInv, ItemRun
  <2>3. FollowsWindow(w)'
    BY <1>1, <2>1, <2>2 DEF FollowsWindow, Untouched
  <2>4. ASSUME NEW i \in Activity PROVE ItemHandled(w, i)' /\ ItemMarked(w, i)'
    <3>1. CASE i = j
      <4>1. JustUpdated(run[w], i)'
        BY <1>2, <2>1, <2>2, <3>1 DEF JustUpdated
      <4> QED
        BY <1>2, <3>1, <4>1 DEF ItemHandled, ItemMarked
    <3>2. CASE i # j
      BY <1>1, <1>3, <2>1, <2>2, <3>2
         DEF ItemHandled, ItemMarked, JustUpdated, Awaited, Left, Retires
    <3> QED
      BY <3>1, <3>2
  <2> QED
    BY <2>3, <2>4 DEF ItemRun
<1> QED
  BY <1>4, <1>5 DEF ItemGoal

(* Items and runs age together, as long as it matters. *)
LEMMA TickItems ==
  ASSUME TypeInv, Prompt, ItemInv, Tick
  PROVE  ItemGoal
<1>1. UNCHANGED <<item, newer, cursor, window, index, pc>>
  BY DEF Tick, store
<1>2. \A i \in Activity : age'[i] = Older(age[i], Overlap + 1)
  BY DEF Tick
<1>3. ASSUME NEW i \in Activity PROVE age'[i] \in Nat /\ age'[i] >= age[i]
  BY <1>2, ItemNumbers DEF Older
<1>4. ASSUME NEW i \in Activity PROVE KnownItem(i)'
  <2>1. KnownItem(i)
    BY DEF ItemInv
  <2>2. age'[i] < Overlap => age[i] < Overlap
    BY <1>3, ItemNumbers, IngestionAssumption
  <2> QED
    BY <1>1, <2>1, <2>2 DEF KnownItem
<1>5. ASSUME NEW w \in Workers PROVE ItemRun(w)'
  <2> DEFINE r == run[w]
             q == run'[w]
  <2>1. /\ q.prev = r.prev /\ q.all = r.all /\ q.todo = r.todo /\ q.gone = r.gone
        /\ q.full = r.full /\ q.keep = r.keep /\ q.since = r.since
        /\ q.elapsed = IF pc[w] \in {"index", "mark"} THEN r.elapsed + 1 ELSE r.elapsed
    BY DEF Tick, TypeInv, RunOK, Run
  <2>2. /\ FollowsWindow(w)
        /\ \A i \in Activity : ItemHandled(w, i) /\ ItemMarked(w, i)
    BY DEF ItemInv, ItemRun
  <2>3. FollowsWindow(w)'
    BY <1>1, <2>1, <2>2 DEF FollowsWindow, Untouched
  <2>4. ASSUME NEW i \in Activity PROVE ItemHandled(w, i)' /\ ItemMarked(w, i)'
    <3>1. pc[w] \in {"index", "mark"} /\ JustUpdated(r, i) => JustUpdated(run[w], i)'
      <4>1. /\ r.elapsed \in Nat /\ r.elapsed <= RunLimit /\ RunLimit < Overlap
            /\ age[i] \in Nat /\ Overlap \in Nat /\ RunLimit \in Nat
        BY ItemNumbers, IngestionAssumption DEF Prompt
      <4>2. age[i] <= r.elapsed => age'[i] = age[i] + 1
        BY <1>2, <4>1 DEF Older
      <4>3. pc[w] \in {"index", "mark"} /\ age[i] <= r.elapsed => age'[i] <= q.elapsed
        BY <2>1, <4>1, <4>2
      <4> QED
        BY <1>1, <4>3 DEF JustUpdated
    <3>2. pc[w] \in {"index", "mark"} /\ ~JustUpdated(run[w], i)' => ~JustUpdated(r, i)
      BY <3>1
    <3> HIDE DEF q, r
    <3>3. ItemHandled(w, i)'
      BY <1>1, <2>1, <2>2, <3>2 DEF ItemHandled, Awaited, Left, Retires, q, r
    <3>4. ItemMarked(w, i)'
      BY <1>1, <2>2, <3>2 DEF ItemMarked, q, r
    <3> QED
      BY <3>3, <3>4
  <2> QED
    BY <2>3, <2>4 DEF ItemRun
<1> QED
  BY <1>4, <1>5 DEF ItemGoal

(* A worker that changes neither what is known of the items nor the index. *)
LEMMA KnownKept ==
  ASSUME ItemInv, UNCHANGED <<item, newer, age, index, window>>, cursor'.sha = cursor.sha
  PROVE  \A i \in Activity : KnownItem(i)'
BY DEF ItemInv, KnownItem

LEMMA StartItems ==
  ASSUME OneWorker, TypeInv, ItemInv, NEW w \in Workers, NEW force \in BOOLEAN,
         Start(w, force)
  PROVE  ItemGoal
<1> DEFINE r == [NoRun EXCEPT !.prev = cursor.sha, !.force = force,
                              !.retry = cursor.failed /\ ~force,
                              !.stamp = stamp, !.since = window, !.missed = missed]
<1>1. Alone(w, "head", r) /\ UNCHANGED <<upstream, state, store>>
  BY DEF Start, Alone
<1>2. r.prev = cursor.sha /\ r.since = window /\ Untouched(r) /\ r.elapsed = 0
  BY DEF NoRun, Untouched
<1> HIDE DEF r
<1>3. pc'[w] = "head" /\ run'[w] = r /\ \A v \in Workers : v = w
  BY <1>1, AloneWorker
<1>4. \A i \in Activity : KnownItem(i)'
  BY <1>1, KnownKept DEF upstream, state, store
<1>5. ItemRun(w)'
  BY <1>1, <1>2, <1>3
     DEF ItemRun, FollowsWindow, ItemHandled, ItemMarked, state, Untouched
<1> QED
  BY <1>3, <1>4, <1>5 DEF ItemGoal

LEMMA ResolveHeadItems ==
  ASSUME OneWorker, TypeInv, ItemInv, NEW w \in Workers, ResolveHead(w)
  PROVE  ItemGoal
<1>1. PICK place \in {"idle", "collect", "poll"}, r \in Run \cup {NoRun} :
        Resolves(w, place, r)
  BY ResolveHeadCases
<1>2. pc'[w] = place /\ run'[w] = r /\ \A v \in Workers : v = w
  BY <1>1, AloneWorker DEF Resolves
<1>3. \A i \in Activity : KnownItem(i)'
  BY <1>1, KnownKept DEF Resolves, upstream, state, store
<1>4. /\ run[w].prev = cursor.sha /\ Untouched(run[w]) /\ run[w].since = window
      /\ run[w].elapsed = 0
  BY <1>1 DEF ItemInv, ItemRun, FollowsWindow, Resolves
<1>5. FollowsWindow(w)'
  BY <1>1, <1>2, <1>4 DEF FollowsWindow, Untouched, Resolves, state
<1>6. ItemRun(w)'
  BY <1>1, <1>2, <1>5 DEF ItemRun, ItemHandled, ItemMarked
<1> QED
  BY <1>2, <1>3, <1>6 DEF ItemGoal

LEMMA FetchFailsItems ==
  ASSUME OneWorker, TypeInv, ItemInv, NEW w \in Workers, FetchFails(w)
  PROVE  ItemGoal
<1>1. /\ Alone(w, "failed", run[w]) /\ pc[w] # "idle" /\ UNCHANGED <<upstream, state, store>>
  BY DEF FetchFails, Alone, TypeInv, TypeOK
<1>2. pc'[w] = "failed" /\ run'[w] = run[w] /\ \A v \in Workers : v = w
  BY <1>1, AloneWorker
<1>3. \A i \in Activity : KnownItem(i)'
  BY <1>1, KnownKept DEF upstream, state, store
<1>4. run[w].prev = cursor.sha
  BY <1>1 DEF ItemInv, ItemRun, FollowsWindow
<1>5. ItemRun(w)'
  BY <1>1, <1>2, <1>4 DEF ItemRun, FollowsWindow, ItemHandled, ItemMarked, state
<1> QED
  BY <1>2, <1>3, <1>5 DEF ItemGoal

(* After a collection or a poll an item waits to be indexed as it is, or   *)
(* is served as it is.                                                     *)
LEMMA FetchedItem ==
  ASSUME TypeInv, Prompt, NEW i \in Activity, KnownItem(i), NEW r, NEW q,
         r.since = window, ~r.all => cursor.sha # 0,
         i \notin q.gone,
         \A e \in q.todo : e.source = i => e \in ActivityEntries(r),
         \A e \in ActivityEntries(r) : e.source = i => e \in q.todo \/ index[i] = e.revision
  PROVE  /\ Awaited(q, i) => item[i] # 0
         /\ \A e \in q.todo : e.source = i => e.revision = item[i]
         /\ ~Awaited(q, i) => Left(q, i) = Served(item[i])
<1>1. \A e \in ActivityEntries(r) : e.source = i => e.revision = item[i] /\ item[i] # 0
  BY EntryOfItem
<1>2. ~Awaited(q, i) => index[i] = Served(item[i])
  <2> SUFFICES ASSUME ~Awaited(q, i) PROVE index[i] = Served(item[i])
    OBVIOUS
  <2>1. CASE \E e \in ActivityEntries(r) : e.source = i
    <3>1. index[i] = item[i]
      BY <1>1, <2>1 DEF Awaited
    <3> QED
      BY <3>1 DEF KnownItem, Served
  <2>2. CASE \A e \in ActivityEntries(r) : e.source # i
    <3>1. IF r.all THEN item[i] = 0 ELSE i \notin r.since
      BY <2>2, NotListed
    <3>2. CASE r.all
      BY <3>1, <3>2 DEF KnownItem, Served
    <3>3. CASE ~r.all
      BY <3>1, <3>3 DEF KnownItem
    <3> QED
      BY <3>2, <3>3
  <2> QED
    BY <2>1, <2>2
<1>3. Left(q, i) = index[i]
  BY RetiresItem DEF Left
<1> QED
  BY <1>1, <1>2, <1>3 DEF Awaited

LEMMA CollectItems ==
  ASSUME Prompt, TypeInv, ItemInv, NEW w \in Workers, Collect(w)
  PROVE  ItemGoal
<1> DEFINE r == run[w]
<1>1. PICK from, fetched : \E full \in BOOLEAN : Collects(w, from, full, fetched)
  BY CollectCases, Zenon
<1>2. PICK full \in BOOLEAN : Collects(w, from, full, fetched)
  BY <1>1
<1>3. /\ pc[w] = "collect" /\ Alone(w, "index", Collected(r, from, full, fetched))
      /\ UNCHANGED <<upstream, state, store>> /\ fetched \subseteq Documentation
  BY <1>2, FetchedFiles DEF Collects
<1> DEFINE q == Collected(r, from, full, fetched)
<1>4. pc'[w] = "index" /\ run'[w] = q /\ \A v \in Workers : v = w
  BY <1>3, AloneWorker DEF Prompt
<1>5. /\ r \in Run /\ r.prev = cursor.sha /\ r.since = window
      /\ ~r.all => cursor.sha # 0
  BY <1>3 DEF ItemInv, ItemRun, FollowsWindow, TypeInv, RunOK
<1>6. /\ q.prev = r.prev /\ q.todo = CollectedTodo(r, from, fetched)
      /\ q.gone \subseteq Documentation
  BY <1>5 DEF Collected, Run, Removed, Changed
<1> HIDE DEF q, r
<1>7. UNCHANGED <<item, newer, age, index, window, cursor>>
  BY <1>3 DEF upstream, state, store
<1>8. \A i \in Activity : KnownItem(i)'
  BY <1>7, KnownKept
<1>9. ASSUME NEW i \in Activity PROVE ItemHandled(w, i)'
  <2>1. KnownItem(i) /\ i \notin Documentation /\ i # History /\ i \notin q.gone
    BY <1>6, IngestionAssumption DEF ItemInv
  <2>2. \A e \in q.todo : e.source = i => e \in ActivityEntries(r)
    BY <1>3, <1>6, <2>1 DEF CollectedTodo
  <2>3. ActivityEntries(r) \subseteq q.todo
    BY <1>6 DEF CollectedTodo
  <2>4. /\ Awaited(q, i) => item[i] # 0
        /\ \A e \in q.todo : e.source = i => e.revision = item[i]
        /\ ~Awaited(q, i) => Left(q, i) = Served(item[i])
    BY <1>5, <2>1, <2>2, <2>3, FetchedItem
  <2> QED
    BY <1>4, <1>7, <2>1, <2>4 DEF ItemHandled, Left
<1>10. ItemRun(w)'
  BY <1>4, <1>5, <1>6, <1>7, <1>9 DEF ItemRun, FollowsWindow, ItemMarked
<1> QED
  BY <1>4, <1>8, <1>10 DEF ItemGoal

LEMMA PollItems ==
  ASSUME Prompt, TypeInv, ItemInv, NEW w \in Workers, Poll(w)
  PROVE  ItemGoal
<1> DEFINE r == run[w]
<1>1. PICK q \in Run : Polls(w, q)
  BY PollCases
<1>2. /\ Alone(w, "index", q) /\ pc[w] = "poll"
      /\ UNCHANGED <<upstream, state, store>>
      /\ q.prev = r.prev /\ q.gone = r.gone
      /\ q.todo = {e \in ActivityEntries(r) : index[e.source] # e.revision}
  BY <1>1 DEF Polls
<1>3. pc'[w] = "index" /\ run'[w] = q /\ \A v \in Workers : v = w
  BY <1>2, AloneWorker DEF Prompt
<1>4. /\ r.prev = cursor.sha /\ r.since = window /\ r.gone = {}
      /\ ~r.all => cursor.sha # 0
  BY <1>2 DEF ItemInv, ItemRun, FollowsWindow, Untouched
<1>5. UNCHANGED <<item, newer, age, index, window, cursor>>
  BY <1>2 DEF upstream, state, store
<1>6. \A i \in Activity : KnownItem(i)'
  BY <1>5, KnownKept
<1> HIDE DEF r
<1>7. ASSUME NEW i \in Activity PROVE ItemHandled(w, i)'
  <2>1. KnownItem(i) /\ i \notin q.gone
    BY <1>2, <1>4 DEF ItemInv
  <2>2. \A e \in q.todo : e.source = i => e \in ActivityEntries(r)
    BY <1>2
  <2>3. \A e \in ActivityEntries(r) : e.source = i => e \in q.todo \/ index[i] = e.revision
    BY <1>2
  <2>4. /\ Awaited(q, i) => item[i] # 0
        /\ \A e \in q.todo : e.source = i => e.revision = item[i]
        /\ ~Awaited(q, i) => Left(q, i) = Served(item[i])
    BY <1>4, <2>1, <2>2, <2>3, FetchedItem
  <2> QED
    BY <1>3, <1>5, <2>1, <2>4 DEF ItemHandled, Left
<1>8. ItemRun(w)'
  BY <1>2, <1>3, <1>4, <1>5, <1>7 DEF ItemRun, FollowsWindow, ItemMarked
<1> QED
  BY <1>3, <1>6, <1>8 DEF ItemGoal

(* An item outside the window was not updated since the run fetched. *)
LEMMA OutsideWindow ==
  ASSUME TypeInv, Prompt, NEW i \in Activity, KnownItem(i), i \notin window,
         NEW w \in Workers
  PROVE  ~JustUpdated(run[w], i)
BY ItemNumbers, IngestionAssumption DEF Prompt, KnownItem, JustUpdated

LEMMA IndexOneItems ==
  ASSUME Prompt, TypeInv, ItemInv, NEW w \in Workers, IndexOne(w)
  PROVE  ItemGoal
<1> DEFINE r == run[w]
           q == run'[w]
<1>1. PICK e \in r.todo : e \in Entry /\ IndexedFile(w, e)
  BY IndexOneFile DEF Prompt
<1>2. /\ q.prev = r.prev /\ q.todo = r.todo \ {e} /\ q.elapsed = r.elapsed
      /\ q.gone = r.gone \cup (IF e.revision \in Unsafe THEN {e.source} ELSE {})
      /\ pc[w] = "index" /\ pc'[w] = "index" /\ \A v \in Workers : v = w
      /\ UNCHANGED <<item, newer, age, cursor, window>>
  BY <1>1 DEF IndexedFile, upstream, state
<1>3. r.prev = cursor.sha /\ r \in Run
  BY <1>2 DEF ItemInv, ItemRun, FollowsWindow, TypeInv, RunOK
<1>4. ASSUME NEW i \in Activity, i # e.source
      PROVE  index'[i] = index[i] /\ (i \in q.gone <=> i \in r.gone)
  BY <1>1, <1>2, <1>4 DEF IndexedFile, Source
<1>5. index'[e.source] = IF e.revision \in Unsafe THEN index[e.source] ELSE e.revision
  BY <1>1 DEF IndexedFile, store
<1>6. ASSUME NEW i \in Activity PROVE KnownItem(i)' /\ ItemHandled(w, i)'
  <2>1. KnownItem(i) /\ ItemHandled(w, i)
    BY DEF ItemInv, ItemRun
  <2>2. CASE i # e.source
    <3>1. KnownItem(i)'
      BY <1>2, <1>4, <2>1, <2>2 DEF KnownItem
    <3>2. Awaited(q, i) <=> Awaited(r, i)
      BY <1>2, <2>2 DEF Awaited
    <3>3. \A f \in q.todo : f \in r.todo
      BY <1>2
    <3>4. (IF Retires(q, i) THEN 0 ELSE index'[i]) = Left(r, i)
      BY <1>4, <2>2, RetiresItem DEF Left
    <3>5. JustUpdated(run[w], i)' <=> JustUpdated(r, i)
      BY <1>2 DEF JustUpdated
    <3>6. ItemHandled(w, i)'
      BY <1>2, <1>4, <2>1, <2>2, <3>2, <3>3, <3>4, <3>5 DEF ItemHandled, Left, Awaited
    <3> QED
      BY <3>1, <3>6
  <2>3. CASE i = e.source
    <3>1. item[i] # 0
      BY <1>1, <1>2, <2>1, <2>3 DEF ItemHandled, Awaited
    <3>2. ~JustUpdated(r, i) => e.revision = item[i] /\ i \notin r.gone
      BY <1>1, <1>2, <2>1, <2>3 DEF ItemHandled
    <3>3. KnownItem(i)'
      <4>1. i \notin window => ~JustUpdated(r, i)
        BY <2>1, OutsideWindow
      <4>2. i \notin window /\ cursor.sha # 0 => index'[i] = Served(item[i])
        BY <1>5, <2>1, <2>3, <3>2, <4>1 DEF KnownItem, Served
      <4>3. index'[i] \notin Unsafe
        BY <1>5, <2>1, <2>3 DEF KnownItem
      <4> QED
        BY <1>2, <2>1, <3>1, <4>2, <4>3 DEF KnownItem
    <3>4. ItemHandled(w, i)'
      <4>1. JustUpdated(run[w], i)' <=> JustUpdated(r, i)
        BY <1>2 DEF JustUpdated
      <4> SUFFICES ASSUME ~JustUpdated(r, i)
                   PROVE  /\ ~Awaited(q, i)
                          /\ (IF Retires(q, i) THEN 0 ELSE index'[i]) = Served(item[i])
        BY <1>2, <3>1, <4>1 DEF ItemHandled, Left, Awaited
      <4>2. ASSUME NEW f \in q.todo, f.source = i PROVE FALSE
        <5>1. f \in r.todo /\ f # e /\ f \in Entry
          BY <1>2, <1>3, <4>2 DEF Run
        <5>2. f.revision = item[i]
          BY <1>2, <2>1, <4>2, <5>1 DEF ItemHandled
        <5> QED
          BY <1>1, <2>3, <3>2, <4>2, <5>1, <5>2 DEF Entry
      <4>3. Retires(q, i) <=> e.revision \in Unsafe
        BY <1>2, <2>3, <3>2, RetiresItem
      <4>4. (IF Retires(q, i) THEN 0 ELSE index'[i]) = Served(item[i])
        BY <1>5, <2>3, <3>2, <4>3 DEF Served
      <4> QED
        BY <4>2, <4>4 DEF Awaited
    <3> QED
      BY <3>3, <3>4
  <2> QED
    BY <2>2, <2>3
<1>7. ItemRun(w)'
  BY <1>2, <1>3, <1>6 DEF ItemRun, FollowsWindow, ItemMarked
<1> QED
  BY <1>2, <1>6, <1>7 DEF ItemGoal

LEMMA RetireItems ==
  ASSUME Prompt, TypeInv, ItemInv, NEW w \in Workers, Retire(w)
  PROVE  ItemGoal
<1> DEFINE r == run[w]
<1>1. /\ Alone(w, "mark", r) /\ UNCHANGED <<upstream, state>>
      /\ pc[w] = "index" /\ r.todo = {}
      /\ \A i \in Activity : index'[i] = Left(r, i)
  BY DEF Retire, Alone, TypeInv, TypeOK, Left, Retires, Source
<1>2. pc'[w] = "mark" /\ run'[w] = r /\ \A v \in Workers : v = w
  BY <1>1, AloneWorker DEF Prompt
<1>3. UNCHANGED <<item, newer, age, cursor, window>>
  BY <1>1 DEF upstream, state
<1>4. r.prev = cursor.sha
  BY <1>1 DEF ItemInv, ItemRun, FollowsWindow
<1>5. ASSUME NEW i \in Activity PROVE KnownItem(i)' /\ ItemMarked(w, i)'
  <2>1. KnownItem(i) /\ ItemHandled(w, i)
    BY DEF ItemInv, ItemRun
  <2>2. ~Awaited(r, i)
    BY <1>1 DEF Awaited
  <2>3. ~JustUpdated(r, i) => index'[i] = Served(item[i])
    BY <1>1, <2>1, <2>2 DEF ItemHandled
  <2>4. index'[i] = 0 \/ index'[i] = index[i]
    BY <1>1 DEF Left
  <2>5. KnownItem(i)'
    <3>1. i \notin window => ~JustUpdated(r, i)
      BY <2>1, OutsideWindow
    <3> QED
      BY <1>3, <2>1, <2>3, <2>4, <3>1, IngestionAssumption DEF KnownItem
  <2>6. ItemMarked(w, i)'
    BY <1>2, <1>3, <2>3 DEF ItemMarked, JustUpdated
  <2> QED
    BY <2>5, <2>6
<1>6. ItemRun(w)'
  BY <1>2, <1>3, <1>4, <1>5 DEF ItemRun, FollowsWindow, ItemHandled
<1> QED
  BY <1>2, <1>5, <1>6 DEF ItemGoal

LEMMA IdleItems ==
  ASSUME NEW w \in Workers, pc'[w] = "idle"
  PROVE  ItemRun(w)'
BY DEF ItemRun, FollowsWindow, ItemHandled, ItemMarked

LEMMA MarkIngestedItems ==
  ASSUME Prompt, TypeInv, ItemInv, NEW w \in Workers, MarkIngested(w)
  PROVE  ItemGoal
<1>1. /\ Alone(w, "idle", NoRun) /\ UNCHANGED <<upstream, store>> /\ pc[w] = "mark"
      /\ window' = {i \in Activity : item[i] # 0 /\ StaysInWindow(i)}
  BY FinishAlone DEF MarkIngested
<1>2. pc'[w] = "idle" /\ \A v \in Workers : v = w
  BY <1>1, AloneWorker DEF Prompt
<1>3. UNCHANGED <<item, newer, age, index>>
  BY <1>1 DEF upstream, store
<1>4. ASSUME NEW i \in Activity PROVE KnownItem(i)'
  <2>1. KnownItem(i) /\ ItemMarked(w, i)
    BY DEF ItemInv, ItemRun
  <2>2. age[i] < Overlap => StaysInWindow(i)
    BY ItemNumbers, IngestionAssumption DEF StaysInWindow
  <2>3. item[i] # 0 /\ ~StaysInWindow(i) => ~JustUpdated(run[w], i)
    BY <2>2, ItemNumbers, IngestionAssumption DEF JustUpdated, Prompt
  <2>4. item[i] # 0 /\ ~StaysInWindow(i) => index[i] = Served(item[i])
    BY <1>1, <2>1, <2>3 DEF ItemMarked
  <2>5. item[i] = 0 => index[i] = Served(item[i])
    BY <2>1 DEF KnownItem, Served
  <2> QED
    BY <1>1, <1>3, <2>1, <2>2, <2>4, <2>5 DEF KnownItem
<1> QED
  BY <1>2, <1>4, IdleItems DEF ItemGoal

(* A run that ends without the mark. *)
LEMMA EndItems ==
  ASSUME OneWorker, TypeInv, ItemInv, NEW w \in Workers, MarkError(w) \/ Abort(w)
  PROVE  ItemGoal
<1>1. /\ Alone(w, "idle", NoRun) /\ UNCHANGED <<upstream, store, window>>
      /\ cursor'.sha = cursor.sha
  BY FinishAlone DEF MarkError, Abort, TypeInv, TypeOK, state
<1>2. pc'[w] = "idle" /\ \A v \in Workers : v = w
  BY <1>1, AloneWorker
<1>3. \A i \in Activity : KnownItem(i)'
  BY <1>1, KnownKept DEF upstream, store
<1> QED
  BY <1>2, <1>3, IdleItems DEF ItemGoal

LEMMA PromptSteps ==
  ASSUME ItemInv
  PROVE  ~Restart /\ ~LoseIndex
BY DEF ItemInv, Restart, LoseIndex, Spend

LEMMA BudgetPrompt ==
  ASSUME ItemInv, [Next]_vars
  PROVE  budget'.restart = 0 /\ budget'.loss = 0
<1>1. ASSUME NEW kind \in {"error", "abort", "reset"}, Spend(kind)
      PROVE  budget'.restart = 0 /\ budget'.loss = 0
  BY <1>1 DEF Spend, ItemInv
<1>2. CASE UNCHANGED budget
  BY <1>2 DEF ItemInv
<1>3. UNCHANGED budget \/ Spend("error") \/ Spend("abort") \/ Spend("reset")
  BY PromptSteps
     DEF Next, Step, vars, Start, Push, Reset, Edit, Tick, ResolveHead, FetchFails,
         Collect, Poll, IndexOne, Retire, MarkIngested, MarkError, Abort
<1> QED
  BY <1>1, <1>2, <1>3

LEMMA ItemStep ==
  Prompt /\ TypeInv /\ ItemInv /\ [Next]_vars => ItemInv'
<1> SUFFICES ASSUME Prompt, TypeInv, ItemInv, [Next]_vars PROVE ItemInv'
  OBVIOUS
<1>0. OneWorker
  BY DEF Prompt
<1>1. ASSUME NEW w \in Workers, Step(w) PROVE ItemGoal
  BY <1>0, <1>1, ResolveHeadItems, FetchFailsItems, CollectItems, PollItems, IndexOneItems,
     RetireItems, MarkIngestedItems, EndItems DEF Step
<1>2. ASSUME NEW w \in Workers, NEW force \in BOOLEAN, Start(w, force) PROVE ItemGoal
  BY <1>0, <1>2, StartItems
<1>3. ASSUME NEW i \in Activity, Edit(i) PROVE ItemGoal
  BY <1>3, EditItems
<1>4. ASSUME Tick PROVE ItemGoal
  BY <1>4, TickItems
<1>5. ASSUME NEW tree \in Tree, Push(tree) PROVE ItemGoal
  BY <1>5, QuietItems DEF Push, state, store
<1>6. ASSUME NEW commit \in DOMAIN history \ {tip}, Reset(commit) PROVE ItemGoal
  BY <1>6, QuietItems DEF Reset, state, store
<1>7. ASSUME UNCHANGED vars PROVE ItemGoal
  BY <1>7, QuietItems DEF vars, upstream, state, store
<1>8. ItemGoal
  BY <1>1, <1>2, <1>3, <1>4, <1>5, <1>6, <1>7, PromptSteps DEF Next
<1> QED
  BY <1>8, BudgetPrompt DEF ItemInv, ItemGoal

(* With one worker whose process goes on, runs that are over before the    *)
(* overlap is, and no more items than a snapshot brings: whatever is       *)
(* edited while the activity is polled, whenever GitHub fails and wherever *)
(* a run is aborted, an item that is not served as it is on GitHub is      *)
(* still in the window of the next query.                                  *)
THEOREM StaleStaysPending ==
  ASSUME Prompt
  PROVE  Spec => []StaleIsPending
<1>1. Init => TypeInv /\ ItemInv
  BY TypeInit, ItemInit
<1>2. TypeInv /\ ItemInv /\ [Next]_vars => TypeInv' /\ ItemInv'
  BY TypeInvStep, ItemStep
<1>3. TypeInv /\ ItemInv => StaleIsPending
  BY DEF ItemInv, KnownItem, StaleIsPending, Indexed
<1> QED
  BY <1>1, <1>2, <1>3, PTL DEF Spec
=============================================================================
