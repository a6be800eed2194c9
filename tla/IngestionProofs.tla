-------------------------- MODULE IngestionProofs ---------------------------
(***************************************************************************)
(* Proofs about Ingestion, for any documentation, activity, history of     *)
(* commits and bounds.                                                     *)
(***************************************************************************)
EXTENDS Ingestion, FiniteSetTheorems, TLAPS

-----------------------------------------------------------------------------
(* Type correctness.  A commit a run works on exists, and so does the one  *)
(* it takes its diff from.                                                 *)
RunOK(w) ==
  /\ run[w] \in Run
  /\ run[w].prev <= Len(history)
  /\ pc[w] \in {"collect", "poll", "index", "mark"} => run[w].head \in DOMAIN history
  /\ pc[w] = "collect" /\ ~run[w].first => run[w].prev \in DOMAIN history

TypeInv ==
  /\ TypeOK
  /\ cursor.sha <= Len(history)
  /\ \A w \in Workers : RunOK(w)

LEMMA NoRunType == NoRun \in Run
BY IngestionAssumption DEF NoRun, Run

LEMMA TypeInit == Init => TypeInv
<1> SUFFICES ASSUME Init PROVE TypeInv
  OBVIOUS
<1> USE IngestionAssumption DEF Init
<1>1. TypeOK
  <2>1. PICK t \in Tree : history = <<t>>
    OBVIOUS
  <2>2. history \in Seq(Tree) /\ Len(history) = 1
    BY <2>1
  <2>3. ancestry \in Seq(SUBSET (1..MaxCommits)) /\ Len(ancestry) = 1
    OBVIOUS
  <2>4. index \in Stored /\ disk \in Stored
    BY DEF Empty, Stored, Revision
  <2>5. pc \in [Workers -> Location] /\ run \in [Workers -> Run]
    BY NoRunType DEF Location
  <2>6. \A k \in {"error", "abort", "restart", "loss", "reset"} : budget[k] \in Nat
    OBVIOUS
  <2>7. item \in [Activity -> Revision] /\ age \in [Activity -> 0..(Overlap + 1)]
    BY DEF Revision
  <2>8. newer \in [Activity -> SUBSET Activity] /\ window \subseteq Activity
    OBVIOUS
  <2>9. cursor \in [sha : 0..MaxCommits, failed : BOOLEAN] /\ stamp \in 0..PollInterval
    OBVIOUS
  <2> HIDE DEF Init
  <2>10. tip = 1 /\ strayed = FALSE /\ missed = {}
    BY DEF Init
  <2>11. tip \in DOMAIN history
    BY <2>2, <2>10
  <2>12. Len(history) \in 1..MaxCommits
    BY <2>2
  <2> QED
    BY <2>2, <2>3, <2>4, <2>5, <2>6, <2>7, <2>8, <2>9, <2>10, <2>11, <2>12 DEF TypeOK
<1>2. ASSUME NEW w \in Workers PROVE RunOK(w)
  BY NoRunType, <1>1 DEF RunOK, NoRun, TypeOK
<1>3. cursor.sha <= Len(history)
  BY <1>1 DEF TypeOK
<1> QED
  BY <1>1, <1>2, <1>3 DEF TypeInv

(* Whatever else an action of worker w does, nothing but its own part of   *)
(* pc and run changes.                                                     *)
Alone(w, place, r) ==
  /\ pc' = [pc EXCEPT ![w] = place]
  /\ run' = [run EXCEPT ![w] = r]

LEMMA FinishAlone ==
  ASSUME NEW w \in Workers, Finish(w)
  PROVE  Alone(w, "idle", NoRun)
BY DEF Finish, Alone

LEMMA AloneType ==
  ASSUME TypeInv, NEW w \in Workers, NEW place \in Location, NEW r \in Run,
         Alone(w, place, r), UNCHANGED upstream,
         r.prev <= Len(history),
         place \in {"collect", "poll", "index", "mark"} => r.head \in DOMAIN history,
         place = "collect" /\ ~r.first => r.prev \in DOMAIN history
  PROVE  /\ pc' \in [Workers -> Location] /\ run' \in [Workers -> Run]
         /\ \A v \in Workers : RunOK(v)'
BY DEF TypeInv, TypeOK, RunOK, Alone, upstream

LEMMA SpendType ==
  ASSUME TypeInv, NEW kind \in {"error", "abort", "restart", "loss", "reset"}, Spend(kind)
  PROVE  \A k \in {"error", "abort", "restart", "loss", "reset"} : budget'[k] \in Nat
BY DEF TypeInv, TypeOK, Spend

(* TypeOK by the variables that actions change together. *)
UpstreamOK ==
  /\ history \in Seq(Tree) /\ Len(history) \in 1..MaxCommits
  /\ ancestry \in Seq(SUBSET (1..MaxCommits)) /\ Len(ancestry) = Len(history)
  /\ tip \in DOMAIN history
  /\ item \in [Activity -> Revision]
  /\ newer \in [Activity -> SUBSET Activity]
  /\ age \in [Activity -> 0..(Overlap + 1)]
StateOK ==
  /\ cursor \in [sha : 0..MaxCommits, failed : BOOLEAN]
  /\ stamp \in 0..PollInterval /\ window \subseteq Activity
StoreOK == /\ index \in Stored /\ disk \in Stored /\ strayed \in BOOLEAN
           /\ missed \subseteq Documentation
WorkersOK == pc \in [Workers -> Location] /\ run \in [Workers -> Run]
BudgetOK == \A k \in {"error", "abort", "restart", "loss", "reset"} : budget[k] \in Nat

LEMMA TypeParts ==
  TypeOK <=> UpstreamOK /\ StateOK /\ StoreOK /\ WorkersOK /\ BudgetOK
BY DEF TypeOK, UpstreamOK, StateOK, StoreOK, WorkersOK, BudgetOK

LEMMA TypePartsNext ==
  TypeOK' <=> UpstreamOK' /\ StateOK' /\ StoreOK' /\ WorkersOK' /\ BudgetOK'
BY DEF TypeOK, UpstreamOK, StateOK, StoreOK, WorkersOK, BudgetOK

(* A step of worker w that leaves GitHub alone. *)
LEMMA StepType ==
  ASSUME TypeInv, NEW w \in Workers, NEW place \in Location, NEW r \in Run,
         Alone(w, place, r), UNCHANGED upstream,
         r.prev <= Len(history),
         place \in {"collect", "poll", "index", "mark"} => r.head \in DOMAIN history,
         place = "collect" /\ ~r.first => r.prev \in DOMAIN history,
         StateOK', StoreOK', BudgetOK', cursor'.sha <= Len(history)
  PROVE  TypeInv'
<1>1. WorkersOK' /\ \A v \in Workers : RunOK(v)'
  BY AloneType DEF WorkersOK
<1>2. UpstreamOK'
  BY TypeParts DEF TypeInv, UpstreamOK, upstream
<1>3. (cursor.sha <= Len(history))'
  BY DEF upstream
<1> QED
  BY <1>1, <1>2, <1>3, TypePartsNext DEF TypeInv

LEMMA StartType ==
  ASSUME TypeInv, NEW w \in Workers, NEW force \in BOOLEAN, Start(w, force)
  PROVE  TypeInv'
<1> DEFINE r == [NoRun EXCEPT !.prev = cursor.sha, !.force = force,
                              !.retry = cursor.failed /\ ~force,
                              !.stamp = stamp, !.since = window, !.missed = missed]
<1>1. r \in Run /\ r.prev = cursor.sha
  BY NoRunType DEF NoRun, Run, TypeInv, TypeOK
<1>2. Alone(w, "head", r) /\ UNCHANGED <<upstream, state, store, budget>>
  BY DEF Start, Alone
<1> HIDE DEF r
<1>3. StateOK' /\ StoreOK' /\ BudgetOK' /\ cursor'.sha <= Len(history)
  BY <1>2, TypeParts DEF TypeInv, StateOK, StoreOK, BudgetOK, state, store
<1> QED
  BY <1>1, <1>2, <1>3, StepType DEF Location, TypeInv

LEMMA ResolveHeadType ==
  ASSUME TypeInv, NEW w \in Workers, ResolveHead(w)
  PROVE  TypeInv'
<1> DEFINE rehydrate == run[w].prev # 0 /\ index = Empty /\ ~run[w].force
           first == run[w].prev = 0 \/ run[w].force \/ rehydrate \/ run[w].retry
           all == rehydrate \/ run[w].retry \/ run[w].prev = 0
           r == [run[w] EXCEPT !.head = tip, !.first = first, !.all = all]
<1>1. run[w] \in Run /\ run[w].prev <= Len(history) /\ run[w].prev \in 0..MaxCommits
  BY DEF TypeInv, RunOK, Run
<1>2. /\ tip \in 0..MaxCommits /\ tip \in DOMAIN history
      /\ DOMAIN history = 1..Len(history) /\ Len(history) \in Nat
  <2>1. history \in Seq(Tree) /\ Len(history) \in 1..MaxCommits /\ tip \in DOMAIN history
    BY DEF TypeInv, TypeOK
  <2>2. DOMAIN history = 1..Len(history) /\ Len(history) \in Nat
    BY <2>1
  <2> QED
    BY <2>1, <2>2, IngestionAssumption
<1> HIDE DEF rehydrate
<1>3. /\ r \in Run /\ r.prev = run[w].prev /\ r.head = tip
      /\ ~r.first => r.prev \in DOMAIN history
  <2>1. r \in Run /\ r.prev = run[w].prev /\ r.head = tip /\ r.first = first
    BY <1>1, <1>2 DEF Run
  <2>2. ~first => run[w].prev \in 1..Len(history)
    BY <1>1, <1>2
  <2> QED
    BY <1>2, <2>1, <2>2
<1>4. /\ UNCHANGED <<upstream, state, store, budget>>
      /\ \/ Alone(w, "idle", NoRun)
         \/ Alone(w, "poll", r)
         \/ Alone(w, "collect", r)
  BY DEF ResolveHead, Alone, rehydrate
<1>5. NoRun.prev = 0 /\ NoRun \in Run
  BY NoRunType DEF NoRun
<1> HIDE DEF r
<1>6. StateOK' /\ StoreOK' /\ BudgetOK' /\ cursor'.sha <= Len(history)
  BY <1>4, TypeParts DEF TypeInv, StateOK, StoreOK, BudgetOK, state, store
<1>7. CASE Alone(w, "idle", NoRun)
  BY <1>2, <1>4, <1>5, <1>6, <1>7, StepType DEF Location
<1>8. CASE Alone(w, "poll", r)
  BY <1>1, <1>2, <1>3, <1>4, <1>6, <1>8, StepType DEF Location
<1>9. CASE Alone(w, "collect", r)
  BY <1>1, <1>2, <1>3, <1>4, <1>6, <1>9, StepType DEF Location
<1> QED
  BY <1>4, <1>7, <1>8, <1>9

LEMMA FetchFailsType ==
  ASSUME TypeInv, NEW w \in Workers, FetchFails(w)
  PROVE  TypeInv'
<1>1. run[w] \in Run /\ run[w].prev <= Len(history)
  BY DEF TypeInv, RunOK
<1>2. Alone(w, "failed", run[w]) /\ UNCHANGED <<upstream, state, store>>
  BY DEF FetchFails, Alone, TypeInv, TypeOK
<1>3. BudgetOK'
  BY SpendType DEF FetchFails, BudgetOK
<1>4. StateOK' /\ StoreOK' /\ cursor'.sha <= Len(history)
  BY <1>2, TypeParts DEF TypeInv, StateOK, StoreOK, state, store
<1> QED
  BY <1>1, <1>2, <1>3, <1>4, StepType DEF Location

LEMMA ListedType == ASSUME NEW kind, NEW r PROVE Listed(kind, r) \subseteq kind
BY DEF Listed

LEMMA ActivityEntriesType ==
  ASSUME TypeInv, NEW r
  PROVE  ActivityEntries(r) \subseteq [source : Activity, revision : Revision]
<1>1. Listed(Pulls, r) \cup Listed(Issues, r) \subseteq Activity
  BY ListedType DEF Activity
<1> QED
  BY <1>1 DEF ActivityEntries, TypeInv, TypeOK

(* Every file that is fetched is a document of the tree. *)
LEMMA FetchedFiles ==
  ASSUME NEW changed, NEW full, NEW tree, NEW s \in Fetched(changed, full, tree)
  PROVE  s \in Documentation /\ tree[s] # 0 /\ tree[s] \notin Blank
BY DEF Fetched, Normalized, Documentation

(* What Collect makes of the locals, for the files it fetches and the      *)
(* commit its diff starts from.                                            *)
Before(r, from) == IF r.first THEN history[r.head] ELSE history[from]

Named(r, from) == Changed(Before(r, from), history[r.head])

CollectedTodo(r, from, fetched) ==
  {[source |-> s, revision |-> history[r.head][s]] : s \in fetched}
  \cup {[source |-> History, revision |-> 1] : c \in {r.head} \ {from}}
  \cup ActivityEntries(r)

Collected(r, from, full, fetched) ==
  LET gone == Removed(Before(r, from), history[r.head])
  IN [r EXCEPT !.todo = CollectedTodo(r, from, fetched),
               !.gone = gone,
               !.full = full,
               !.keep = IF full THEN fetched ELSE {},
               !.missed = IF full THEN {}
                          ELSE (r.missed \cup Named(r, from)) \ (fetched \cup gone)]

Collects(w, from, full, fetched) ==
  /\ pc[w] = "collect" /\ Alone(w, "index", Collected(run[w], from, full, fetched))
  /\ fetched = Fetched(Named(run[w], from), full, history[run[w].head])
  /\ run[w].first => full
  /\ ~run[w].first => from = MergeBase(run[w].prev, run[w].head)
  /\ UNCHANGED <<upstream, state, store, budget>>

LEMMA CollectCases ==
  ASSUME TypeInv, NEW w \in Workers, Collect(w)
  PROVE  \E from, fetched : \E full \in BOOLEAN : Collects(w, from, full, fetched)
<1> DEFINE r == run[w]
           tree == history[r.head]
           from == IF r.first THEN 0 ELSE MergeBase(r.prev, r.head)
           old == IF r.first THEN tree ELSE history[from]
           changed == Changed(old, tree)
<1>1. PICK truncated \in BOOLEAN :
        LET full == r.first \/ truncated
            fetched == Fetched(changed, full, tree)
            gone == Removed(old, tree)
        IN run' = [run EXCEPT ![w] = [r EXCEPT
                  !.todo = {[source |-> s, revision |-> tree[s]] : s \in fetched}
                           \cup {[source |-> History, revision |-> 1] : c \in {r.head} \ {from}}
                           \cup ActivityEntries(r),
                  !.gone = gone,
                  !.full = full,
                  !.keep = IF full THEN fetched ELSE {},
                  !.missed = IF full THEN {}
                             ELSE (r.missed \cup changed) \ (fetched \cup gone)]]
  BY DEF Collect
<1> DEFINE full == r.first \/ truncated
           fetched == Fetched(changed, full, tree)
<1>2. changed = Named(r, from) /\ old = Before(r, from)
  BY DEF Named, Before
<1>3. Alone(w, "index", Collected(r, from, full, fetched))
  BY <1>1 DEF Alone, Collected, CollectedTodo, Collect, Named, Before
<1>4. full \in BOOLEAN /\ (r.first => full)
  BY DEF TypeInv, RunOK, Run
<1>5. pc[w] = "collect" /\ UNCHANGED <<upstream, state, store, budget>>
  BY DEF Collect
<1>6. WITNESS from, fetched
<1>7. WITNESS full \in BOOLEAN
<1> QED
  BY <1>2, <1>3, <1>4, <1>5 DEF Collects

LEMMA CollectType ==
  ASSUME TypeInv, NEW w \in Workers, Collect(w)
  PROVE  TypeInv'
<1>1. PICK from, fetched : \E full \in BOOLEAN : Collects(w, from, full, fetched)
  BY CollectCases, Zenon
<1>2. PICK full \in BOOLEAN : Collects(w, from, full, fetched)
  BY <1>1
<1> DEFINE r == Collected(run[w], from, full, fetched)
<1>3. /\ run[w] \in Run /\ run[w].prev <= Len(history)
      /\ run[w].head \in DOMAIN history
  BY <1>2 DEF TypeInv, RunOK, Collects
<1>4. history[run[w].head] \in Tree
  BY <1>3 DEF TypeInv, TypeOK
<1>5. CollectedTodo(run[w], from, fetched) \in SUBSET Entry
  <2>1. ActivityEntries(run[w]) \subseteq Entry
    BY ActivityEntriesType DEF Entry, Source
  <2>2. [source |-> History, revision |-> 1] \in Entry
    BY IngestionAssumption DEF Entry, Source, Revision
  <2>3. ASSUME NEW s \in Documentation
        PROVE  [source |-> s, revision |-> history[run[w].head][s]] \in Entry
    BY <1>4 DEF Entry, Source, Tree
  <2> QED
    BY <1>2, <2>1, <2>2, <2>3, FetchedFiles DEF CollectedTodo, Collects
<1>6. ASSUME NEW old, NEW new PROVE Removed(old, new) \in SUBSET Source
  BY DEF Removed, Changed, Source
<1>7. fetched \in SUBSET Documentation
  BY <1>2, FetchedFiles DEF Collects
<1> DEFINE lost == IF full THEN {}
                   ELSE (run[w].missed \cup Named(run[w], from))
                        \ (fetched \cup Removed(Before(run[w], from), history[run[w].head]))
<1>11. lost \in SUBSET Documentation
  BY <1>3 DEF Run, Named, Changed
<1>12. r = [run[w] EXCEPT !.todo = CollectedTodo(run[w], from, fetched),
                          !.gone = Removed(Before(run[w], from), history[run[w].head]),
                          !.full = full,
                          !.keep = IF full THEN fetched ELSE {},
                          !.missed = lost]
  BY DEF Collected
<1> HIDE DEF r, lost
<1>8. r \in Run /\ r.prev = run[w].prev /\ r.head = run[w].head
  BY <1>3, <1>5, <1>6, <1>7, <1>11, <1>12 DEF Run
<1>9. StateOK' /\ StoreOK' /\ BudgetOK' /\ cursor'.sha <= Len(history)
  BY <1>2, TypeParts DEF TypeInv, StateOK, StoreOK, BudgetOK, state, store, Collects
<1>10. Alone(w, "index", r)
  BY <1>2 DEF r, Collects
<1> QED
  BY <1>2, <1>3, <1>8, <1>9, <1>10, StepType DEF Location, Collects

LEMMA PollType ==
  ASSUME TypeInv, NEW w \in Workers, Poll(w)
  PROVE  TypeInv'
<1> DEFINE todo == {e \in ActivityEntries(run[w]) : index[e.source] # e.revision}
           r == [run[w] EXCEPT !.todo = todo]
<1>1. /\ run[w] \in Run /\ run[w].prev <= Len(history)
      /\ run[w].head \in DOMAIN history
  BY DEF TypeInv, RunOK, Poll
<1>2. todo \in SUBSET Entry
  BY ActivityEntriesType DEF Entry, Source
<1>3. r \in Run /\ r.prev = run[w].prev /\ r.head = run[w].head
  BY <1>1, <1>2 DEF Run
<1>4. Alone(w, "index", r) /\ UNCHANGED <<upstream, state, store, budget>>
  BY DEF Poll, Alone
<1> HIDE DEF r
<1>5. StateOK' /\ StoreOK' /\ BudgetOK' /\ cursor'.sha <= Len(history)
  BY <1>4, TypeParts DEF TypeInv, StateOK, StoreOK, BudgetOK, state, store
<1> QED
  BY <1>1, <1>3, <1>4, <1>5, StepType DEF Location

(* What IndexOne does to entry e. *)
Indexes(w, e) ==
  /\ e.revision \notin Unsafe
  /\ Alone(w, "index", [run[w] EXCEPT !.todo = @ \ {e}])
  /\ index' = [index EXCEPT ![e.source] = e.revision]
  /\ disk' = [disk EXCEPT ![e.source] = e.revision]
  /\ UNCHANGED <<strayed, missed>>

Rejects(w, e) ==
  /\ e.revision \in Unsafe
  /\ Alone(w, "index", [run[w] EXCEPT !.todo = @ \ {e}, !.gone = @ \cup {e.source}])
  /\ UNCHANGED store

LEMMA IndexOneCases ==
  ASSUME TypeInv, NEW w \in Workers, IndexOne(w)
  PROVE  /\ pc[w] = "index" /\ UNCHANGED <<upstream, state, budget>>
         /\ \E e \in run[w].todo : Indexes(w, e) \/ Rejects(w, e)
<1>1. PICK e \in FirstOf(run[w].todo) :
        IF e.revision \in Unsafe
        THEN /\ run' = [run EXCEPT ![w].todo = @ \ {e}, ![w].gone = @ \cup {e.source}]
             /\ UNCHANGED store
        ELSE /\ run' = [run EXCEPT ![w].todo = @ \ {e}]
             /\ index' = [index EXCEPT ![e.source] = e.revision]
             /\ disk' = [disk EXCEPT ![e.source] = e.revision]
             /\ UNCHANGED <<strayed, missed>>
  BY DEF IndexOne
<1>2. e \in run[w].todo
  BY DEF FirstOf
<1>3. pc[w] = "index" /\ pc' = [pc EXCEPT ![w] = "index"]
  BY DEF IndexOne, TypeInv, TypeOK
<1>4. run[w] \in Run
  BY DEF TypeInv, RunOK
<1>5. Indexes(w, e) \/ Rejects(w, e)
  <2>1. CASE e.revision \in Unsafe
    BY <1>1, <1>3, <1>4, <2>1 DEF Rejects, Alone, Run, TypeInv, TypeOK
  <2>2. CASE e.revision \notin Unsafe
    BY <1>1, <1>3, <2>2 DEF Indexes, Alone
  <2> QED
    BY <2>1, <2>2
<1> QED
  BY <1>2, <1>3, <1>5 DEF IndexOne

LEMMA IndexOneType ==
  ASSUME TypeInv, NEW w \in Workers, IndexOne(w)
  PROVE  TypeInv'
<1>1. PICK e \in run[w].todo : Indexes(w, e) \/ Rejects(w, e)
  BY IndexOneCases
<1>2. pc[w] = "index" /\ UNCHANGED <<upstream, state, budget>>
  BY IndexOneCases
<1>3. /\ run[w] \in Run /\ run[w].prev <= Len(history)
      /\ run[w].head \in DOMAIN history
  BY <1>2 DEF TypeInv, RunOK
<1>4. e \in Entry /\ e.source \in Source /\ e.revision \in Revision
  BY <1>3 DEF Run, Entry
<1>5. StateOK' /\ BudgetOK' /\ cursor'.sha <= Len(history)
  BY <1>2, TypeParts DEF TypeInv, StateOK, BudgetOK, state
<1>6. CASE Indexes(w, e)
  <2> DEFINE r == [run[w] EXCEPT !.todo = @ \ {e}]
  <2>1. r \in Run /\ r.prev = run[w].prev /\ r.head = run[w].head
    BY <1>3 DEF Run
  <2>2. StoreOK'
    BY <1>4, <1>6, TypeParts DEF TypeInv, StoreOK, Indexes, Stored
  <2>3. Alone(w, "index", r)
    BY <1>6 DEF Indexes
  <2> HIDE DEF r
  <2> QED
    BY <1>2, <1>3, <1>5, <2>1, <2>2, <2>3, StepType DEF Location
<1>7. CASE Rejects(w, e)
  <2> DEFINE r == [run[w] EXCEPT !.todo = @ \ {e}, !.gone = @ \cup {e.source}]
  <2>1. r \in Run /\ r.prev = run[w].prev /\ r.head = run[w].head
    BY <1>3, <1>4 DEF Run
  <2>2. StoreOK'
    BY <1>7, TypeParts DEF TypeInv, StoreOK, Rejects, store
  <2>3. Alone(w, "index", r)
    BY <1>7 DEF Rejects
  <2> HIDE DEF r
  <2> QED
    BY <1>2, <1>3, <1>5, <2>1, <2>2, <2>3, StepType DEF Location
<1> QED
  BY <1>1, <1>6, <1>7

LEMMA RetireType ==
  ASSUME TypeInv, NEW w \in Workers, Retire(w)
  PROVE  TypeInv'
<1>1. /\ run[w] \in Run /\ run[w].prev <= Len(history)
      /\ run[w].head \in DOMAIN history
  BY DEF TypeInv, RunOK, Retire
<1>2. Alone(w, "mark", run[w]) /\ UNCHANGED <<upstream, state, disk, budget>>
  BY DEF Retire, Alone, TypeInv, TypeOK
<1>3. StateOK' /\ BudgetOK' /\ cursor'.sha <= Len(history)
  BY <1>2, TypeParts DEF TypeInv, StateOK, BudgetOK, state
<1>4. StoreOK'
  <2>1. StoreOK /\ 0 \in Revision
    BY TypeParts, IngestionAssumption DEF TypeInv, Revision
  <2>2. index' \in Stored
    BY <2>1 DEF Retire, StoreOK, Stored
  <2>3. strayed' \in BOOLEAN /\ missed' \subseteq Documentation
    BY <1>1, <2>1 DEF Retire, StoreOK, LeavesBranch, Run
  <2> QED
    BY <1>2, <2>1, <2>2, <2>3 DEF StoreOK
<1> QED
  BY <1>1, <1>2, <1>3, <1>4, StepType DEF Location

LEMMA MarkIngestedType ==
  ASSUME TypeInv, NEW w \in Workers, MarkIngested(w)
  PROVE  TypeInv'
<1>1. run[w].head \in 1..Len(history) /\ run[w].head \in 0..MaxCommits
  BY DEF TypeInv, RunOK, Run, TypeOK, MarkIngested
<1>2. Alone(w, "idle", NoRun) /\ UNCHANGED <<upstream, store, budget>>
  BY FinishAlone DEF MarkIngested
<1>3. StateOK' /\ cursor'.sha <= Len(history)
  BY <1>1, IngestionAssumption DEF MarkIngested, StateOK
<1>4. StoreOK' /\ BudgetOK'
  BY <1>2, TypeParts DEF TypeInv, StoreOK, BudgetOK, store
<1>5. NoRun.prev = 0 /\ NoRun \in Run /\ Len(history) \in Nat
  BY NoRunType DEF NoRun, TypeInv, TypeOK
<1> QED
  BY <1>2, <1>3, <1>4, <1>5, StepType DEF Location

LEMMA MarkErrorType ==
  ASSUME TypeInv, NEW w \in Workers, MarkError(w)
  PROVE  TypeInv'
<1>1. Alone(w, "idle", NoRun) /\ UNCHANGED <<upstream, stamp, window, store, budget>>
  BY FinishAlone DEF MarkError
<1>2. StateOK' /\ cursor'.sha <= Len(history)
  BY <1>1 DEF MarkError, StateOK, TypeInv, TypeOK
<1>3. StoreOK' /\ BudgetOK'
  BY <1>1, TypeParts DEF TypeInv, StoreOK, BudgetOK, store
<1>4. NoRun.prev = 0 /\ NoRun \in Run /\ Len(history) \in Nat
  BY NoRunType DEF NoRun, TypeInv, TypeOK
<1> QED
  BY <1>1, <1>2, <1>3, <1>4, StepType DEF Location

LEMMA AbortType ==
  ASSUME TypeInv, NEW w \in Workers, Abort(w)
  PROVE  TypeInv'
<1>1. Alone(w, "idle", NoRun) /\ UNCHANGED <<upstream, state, store>>
  BY FinishAlone DEF Abort
<1>2. StateOK' /\ StoreOK' /\ cursor'.sha <= Len(history)
  BY <1>1, TypeParts DEF TypeInv, StateOK, StoreOK, state, store
<1>3. BudgetOK'
  BY SpendType DEF Abort, BudgetOK
<1>4. NoRun.prev = 0 /\ NoRun \in Run /\ Len(history) \in Nat
  BY NoRunType DEF NoRun, TypeInv, TypeOK
<1> QED
  BY <1>1, <1>2, <1>3, <1>4, StepType DEF Location

LEMMA StepKeepsType ==
  ASSUME TypeInv, NEW w \in Workers, Step(w)
  PROVE  TypeInv'
BY ResolveHeadType, FetchFailsType, CollectType, PollType, IndexOneType, RetireType,
   MarkIngestedType, MarkErrorType, AbortType DEF Step

LEMMA IdleRunsType ==
  ASSUME TypeInv, pc' = [w \in Workers |-> "idle"], run' = [w \in Workers |-> NoRun],
         UNCHANGED upstream
  PROVE  WorkersOK' /\ \A w \in Workers : RunOK(w)'
<1>1. NoRun.prev = 0 /\ NoRun \in Run
  BY NoRunType DEF NoRun
<1>2. Len(history') \in Nat
  BY DEF TypeInv, TypeOK, upstream
<1> QED
  BY <1>1, <1>2 DEF WorkersOK, RunOK, Location

LEMMA RestartType == TypeInv /\ Restart => TypeInv'
<1> SUFFICES ASSUME TypeInv, Restart PROVE TypeInv'
  OBVIOUS
<1>1. WorkersOK' /\ \A w \in Workers : RunOK(w)'
  BY IdleRunsType DEF Restart
<1>2. UpstreamOK' /\ StateOK' /\ StoreOK' /\ (cursor.sha <= Len(history))'
  BY TypeParts
     DEF Restart, TypeInv, UpstreamOK, StateOK, StoreOK, upstream, state
<1>3. BudgetOK'
  BY SpendType DEF Restart, BudgetOK
<1> QED
  BY <1>1, <1>2, <1>3, TypePartsNext DEF TypeInv

LEMMA LoseIndexType == TypeInv /\ LoseIndex => TypeInv'
<1> SUFFICES ASSUME TypeInv, LoseIndex PROVE TypeInv'
  OBVIOUS
<1>1. WorkersOK' /\ \A w \in Workers : RunOK(w)'
  BY IdleRunsType DEF LoseIndex
<1>2. UpstreamOK' /\ StateOK' /\ (cursor.sha <= Len(history))'
  BY TypeParts DEF LoseIndex, TypeInv, UpstreamOK, StateOK, upstream, state
<1>3. Empty \in Stored
  BY IngestionAssumption DEF Empty, Stored, Revision
<1>4. StoreOK'
  BY <1>3, TypeParts DEF LoseIndex, TypeInv, StoreOK
<1>5. BudgetOK'
  BY SpendType DEF LoseIndex, BudgetOK
<1> QED
  BY <1>1, <1>2, <1>4, <1>5, TypePartsNext DEF TypeInv

(* The commits there are stay as they are. *)
LEMMA PushKeeps ==
  ASSUME TypeInv, NEW tree \in Tree, Push(tree)
  PROVE  /\ UpstreamOK' /\ Len(history') = Len(history) + 1
         /\ tip' = Len(history') /\ history'[tip'] = tree
         /\ \A c \in DOMAIN history : /\ history'[c] = history[c]
                                      /\ ancestry'[c] = ancestry[c]
         /\ ancestry'[tip'] = ancestry[tip] \cup {tip'}
<1>1. /\ history \in Seq(Tree) /\ Len(history) \in 1..MaxCommits
      /\ ancestry \in Seq(SUBSET (1..MaxCommits)) /\ Len(ancestry) = Len(history)
      /\ tip \in 1..Len(history)
  BY DEF TypeInv, TypeOK
<1>2. /\ history' = Append(history, tree) /\ tip' = Len(history) + 1
      /\ ancestry' = Append(ancestry, ancestry[tip] \cup {tip'})
      /\ Len(history) < MaxCommits
  BY DEF Push
<1>3. /\ history' \in Seq(Tree) /\ Len(history') = Len(history) + 1
      /\ history'[tip'] = tree
      /\ \A c \in 1..Len(history) : history'[c] = history[c]
  BY <1>1, <1>2
<1>4. ancestry[tip] \cup {tip'} \in SUBSET (1..MaxCommits)
  BY <1>1, <1>2, IngestionAssumption
<1>5. /\ ancestry' \in Seq(SUBSET (1..MaxCommits)) /\ Len(ancestry') = Len(history')
      /\ ancestry'[tip'] = ancestry[tip] \cup {tip'}
      /\ \A c \in 1..Len(history) : ancestry'[c] = ancestry[c]
  BY <1>1, <1>2, <1>3, <1>4
<1>6. Len(history') \in 1..MaxCommits /\ tip' \in DOMAIN history' /\ tip' = Len(history')
  BY <1>1, <1>2, <1>3, IngestionAssumption
<1>7. UNCHANGED <<item, newer, age>>
  BY DEF Push
<1> QED
  BY <1>1, <1>3, <1>5, <1>6, <1>7, TypeParts DEF UpstreamOK, TypeInv

LEMMA PushType ==
  ASSUME TypeInv, NEW tree \in Tree, Push(tree)
  PROVE  TypeInv'
<1>1. UpstreamOK' /\ Len(history') = Len(history) + 1
  BY PushKeeps
<1>2. UNCHANGED <<state, store, pc, run, budget>>
  BY DEF Push
<1>3. StateOK' /\ StoreOK' /\ WorkersOK' /\ BudgetOK'
  BY <1>2, TypeParts DEF TypeInv, StateOK, StoreOK, WorkersOK, BudgetOK, state, store
<1>4. Len(history) \in Nat /\ DOMAIN history \subseteq DOMAIN history'
  BY <1>1 DEF TypeInv, TypeOK, UpstreamOK
<1>5. (cursor.sha <= Len(history))'
  BY <1>1, <1>2, <1>4 DEF TypeInv, TypeOK, state
<1>6. ASSUME NEW w \in Workers PROVE RunOK(w)'
  <2>1. run[w].prev \in Nat
    BY DEF TypeInv, RunOK, Run
  <2> QED
    BY <1>1, <1>2, <1>4, <2>1 DEF TypeInv, RunOK
<1> QED
  BY <1>1, <1>3, <1>5, <1>6, TypePartsNext DEF TypeInv

LEMMA ResetType ==
  ASSUME TypeInv, NEW commit \in DOMAIN history \ {tip}, Reset(commit)
  PROVE  TypeInv'
<1>1. /\ tip' \in DOMAIN history
      /\ UNCHANGED <<history, ancestry, item, newer, age, state, store, pc, run>>
  BY DEF Reset
<1>2. BudgetOK'
  BY SpendType DEF Reset, BudgetOK
<1>3. UpstreamOK' /\ StateOK' /\ StoreOK' /\ WorkersOK'
  BY <1>1, TypeParts
     DEF TypeInv, UpstreamOK, StateOK, StoreOK, WorkersOK, state, store
<1>4. (cursor.sha <= Len(history))' /\ \A w \in Workers : RunOK(w)'
  BY <1>1 DEF TypeInv, RunOK, state
<1> QED
  BY <1>2, <1>3, <1>4, TypePartsNext DEF TypeInv

LEMMA EditType ==
  ASSUME TypeInv, NEW i \in Activity, Edit(i)
  PROVE  TypeInv'
<1>1. UNCHANGED <<history, ancestry, tip, cursor, stamp, store, pc, budget>>
  BY DEF Edit
<1>2. item' \in [Activity -> Revision]
  <2>1. item \in [Activity -> Revision]
    BY DEF TypeInv, TypeOK
  <2>2. item[i] + 1 \in Revision
    BY <2>1, IngestionAssumption DEF Edit, Revision
  <2> QED
    BY <2>1, <2>2 DEF Edit
<1>3. newer' \in [Activity -> SUBSET Activity]
  BY DEF Edit, TypeInv, TypeOK
<1>4. age' \in [Activity -> 0..(Overlap + 1)]
  <2>1. age \in [Activity -> 0..(Overlap + 1)] /\ 0 \in 0..(Overlap + 1)
    BY IngestionAssumption DEF TypeInv, TypeOK
  <2> QED
    BY <2>1 DEF Edit
<1>5. UpstreamOK'
  BY <1>1, <1>2, <1>3, <1>4, TypeParts DEF TypeInv, UpstreamOK
<1>6. StateOK' /\ StoreOK' /\ BudgetOK'
  BY <1>1, TypeParts DEF TypeInv, StateOK, StoreOK, BudgetOK, store, Edit
<1>7. ASSUME NEW w \in Workers
      PROVE  run'[w] \in Run /\ run'[w].prev = run[w].prev
             /\ run'[w].head = run[w].head /\ run'[w].first = run[w].first
  <2>1. run[w] \in Run /\ run[w].since \cup {i} \subseteq Activity
    BY DEF TypeInv, RunOK, Run
  <2>2. run'[w] = run[w] \/ run'[w] = [run[w] EXCEPT !.since = @ \cup {i}]
    BY DEF Edit
  <2> QED
    BY <2>1, <2>2 DEF Run
<1>8. WorkersOK'
  <2>1. run' \in [Workers -> Run]
    BY <1>7 DEF Edit
  <2> QED
    BY <1>1, <2>1, TypeParts DEF TypeInv, WorkersOK
<1>9. (cursor.sha <= Len(history))' /\ \A w \in Workers : RunOK(w)'
  BY <1>1, <1>7 DEF TypeInv, RunOK
<1> QED
  BY <1>5, <1>6, <1>8, <1>9, TypePartsNext DEF TypeInv

LEMMA OlderType ==
  ASSUME NEW limit \in Nat, NEW n \in 0..limit
  PROVE  Older(n, limit) \in 0..limit /\ Older(n, limit) >= n
BY DEF Older

LEMMA TickType == TypeInv /\ Tick => TypeInv'
<1> SUFFICES ASSUME TypeInv, Tick PROVE TypeInv'
  OBVIOUS
<1>1. UNCHANGED <<history, ancestry, tip, item, newer, cursor, window, store, pc, budget>>
  BY DEF Tick
<1>2. age' \in [Activity -> 0..(Overlap + 1)]
  <2>1. age \in [Activity -> 0..(Overlap + 1)] /\ Overlap + 1 \in Nat
    BY IngestionAssumption DEF TypeInv, TypeOK
  <2>2. \A i \in Activity : Older(age[i], Overlap + 1) \in 0..(Overlap + 1)
    BY <2>1, OlderType
  <2> QED
    BY <2>2 DEF Tick
<1>3. stamp' \in 0..PollInterval
  BY IngestionAssumption, OlderType DEF Tick, TypeInv, TypeOK
<1>4. UpstreamOK'
  BY <1>1, <1>2, TypeParts DEF TypeInv, UpstreamOK
<1>5. StateOK' /\ StoreOK' /\ BudgetOK'
  BY <1>1, <1>3, TypeParts DEF TypeInv, StateOK, StoreOK, BudgetOK, store
<1>6. ASSUME NEW w \in Workers
      PROVE  run'[w] \in Run /\ run'[w].prev = run[w].prev
             /\ run'[w].head = run[w].head /\ run'[w].first = run[w].first
  <2>1. run[w] \in Run
    BY DEF TypeInv, RunOK
  <2>2. CASE pc[w] = "head"
    <3>1. Older(run[w].stamp, PollInterval) \in 0..PollInterval
      BY <2>1, IngestionAssumption, OlderType DEF Run
    <3> QED
      BY <2>1, <2>2, <3>1 DEF Tick, Run
  <2>3. CASE pc[w] \in {"index", "mark"}
    <3>1. run[w].elapsed + 1 \in 0..RunLimit
      BY <2>1, <2>3, IngestionAssumption DEF Tick, Run
    <3> QED
      BY <2>1, <2>3, <3>1 DEF Tick, Run
  <2>4. CASE pc[w] \notin {"head", "index", "mark"}
    BY <2>1, <2>4 DEF Tick
  <2> QED
    BY <2>2, <2>3, <2>4
<1>7. WorkersOK'
  <2>1. run' \in [Workers -> Run]
    BY <1>6 DEF Tick
  <2> QED
    BY <1>1, <2>1, TypeParts DEF TypeInv, WorkersOK
<1>8. (cursor.sha <= Len(history))' /\ \A w \in Workers : RunOK(w)'
  BY <1>1, <1>6 DEF TypeInv, RunOK
<1> QED
  BY <1>4, <1>5, <1>7, <1>8, TypePartsNext DEF TypeInv

LEMMA StutterType == TypeInv /\ UNCHANGED vars => TypeInv'
BY TypePartsNext, TypeParts
   DEF TypeInv, UpstreamOK, StateOK, StoreOK, WorkersOK, BudgetOK, RunOK,
       vars, upstream, state, store

LEMMA TypeInvStep == TypeInv /\ [Next]_vars => TypeInv'
BY StepKeepsType, StartType, RestartType, LoseIndexType, PushType, ResetType,
   EditType, TickType, StutterType DEF Next

(* Whatever the workers, the history and the bounds, every variable keeps  *)
(* its type, and the cursor names a commit that exists.                    *)
THEOREM IngestionTypeCorrect == Spec => [](TypeOK /\ cursor.sha <= Len(history))
<1>1. Spec => []TypeInv
  BY TypeInit, TypeInvStep, PTL DEF Spec
<1>2. TypeInv => TypeOK /\ cursor.sha <= Len(history)
  BY DEF TypeInv
<1> QED
  BY <1>1, <1>2, PTL

-----------------------------------------------------------------------------
(* UsesItsFiles.  What a run has to index exists: a query returns items    *)
(* that were opened, and a tree is read where it has a file.               *)
Opened == {i \in Activity : item[i] # 0}

RealRun(w) ==
  /\ run[w].since \subseteq Opened
  /\ \A e \in run[w].todo : e.revision # 0

RealInv == window \subseteq Opened /\ \A w \in Workers : RealRun(w)

LEMMA RealInit == Init => RealInv
BY DEF Init, RealInv, RealRun, NoRun

LEMMA AloneReal ==
  ASSUME TypeInv, RealInv, NEW w \in Workers, NEW place, NEW r, Alone(w, place, r),
         Opened' = Opened, window' \subseteq Opened,
         r.since \subseteq Opened, \A e \in r.todo : e.revision # 0
  PROVE  RealInv'
BY DEF TypeInv, TypeOK, RealInv, RealRun, Alone

LEMMA ActivityEntriesReal ==
  ASSUME NEW r, r.since \subseteq Opened
  PROVE  \A e \in ActivityEntries(r) : e.revision # 0
<1>1. ASSUME NEW i \in Listed(Pulls, r) \cup Listed(Issues, r)
      PROVE  item[i] # 0
  <2>1. CASE r.all
    BY <2>1 DEF Listed
  <2>2. CASE ~r.all
    <3>1. i \in r.since
      BY <2>2 DEF Listed
    <3> QED
      BY <3>1 DEF Opened
  <2> QED
    BY <2>1, <2>2
<1> QED
  BY <1>1 DEF ActivityEntries

LEMMA StepReal ==
  ASSUME TypeInv, RealInv, NEW w \in Workers, Step(w)
  PROVE  RealInv'
<1>1. Opened' = Opened
  BY DEF Step, ResolveHead, FetchFails, Collect, Poll, IndexOne, Retire, MarkIngested,
         MarkError, Abort, Opened, upstream
<1>2. /\ run[w] \in Run /\ run[w].since \subseteq Opened
      /\ \A e \in run[w].todo : e.revision # 0
      /\ window \subseteq Opened
  BY DEF TypeInv, RunOK, RealInv, RealRun
<1>3. NoRun.since = {} /\ NoRun.todo = {}
  BY DEF NoRun
<1>4. CASE ResolveHead(w)
  <2>1. window' = window
    BY <1>4 DEF ResolveHead, state
  <2>2. \E place : \E r : Alone(w, place, r) /\ r.since \subseteq Opened
                                             /\ \A e \in r.todo : e.revision # 0
    <3> DEFINE q == run[w]
               rehydrate == q.prev # 0 /\ index = Empty /\ ~q.force
               path == IF tip = q.prev /\ ~q.force /\ ~rehydrate /\ ~q.retry
                       THEN IF q.stamp < PollInterval THEN "idle" ELSE "poll"
                       ELSE "collect"
               r == IF path = "idle" THEN NoRun
                    ELSE [q EXCEPT !.head = tip,
                                   !.first = q.prev = 0 \/ q.force \/ rehydrate \/ q.retry,
                                   !.all = rehydrate \/ q.retry \/ q.prev = 0]
    <3>1. Alone(w, path, r)
      BY <1>4 DEF ResolveHead, Alone
    <3>2. r.since \subseteq Opened /\ \A e \in r.todo : e.revision # 0
      BY <1>2, <1>3 DEF Run
    <3> HIDE DEF r, path
    <3> QED
      BY <3>1, <3>2
  <2> QED
    BY <1>1, <1>2, <2>1, <2>2, AloneReal
<1>5. CASE FetchFails(w)
  <2>1. Alone(w, "failed", run[w])
    BY <1>5 DEF FetchFails, Alone, TypeInv, TypeOK
  <2> QED
    BY <1>1, <1>2, <1>5, <2>1, AloneReal DEF FetchFails, state
<1>6. CASE Collect(w)
  <2>1. PICK from, fetched : \E full \in BOOLEAN : Collects(w, from, full, fetched)
    BY <1>6, CollectCases, Zenon
  <2>2. PICK full \in BOOLEAN : Collects(w, from, full, fetched)
    BY <2>1
  <2> DEFINE r == Collected(run[w], from, full, fetched)
  <2>3. r.since = run[w].since /\ r.todo = CollectedTodo(run[w], from, fetched)
    BY <1>2 DEF Collected, Run
  <2>4. \A e \in CollectedTodo(run[w], from, fetched) : e.revision # 0
    BY <1>2, <2>2, ActivityEntriesReal, FetchedFiles DEF CollectedTodo, Collects
  <2>5. Alone(w, "index", r) /\ window' = window
    BY <2>2 DEF Collects, state
  <2> HIDE DEF r
  <2> QED
    BY <1>1, <1>2, <2>3, <2>4, <2>5, AloneReal
<1>7. CASE Poll(w)
  <2> DEFINE todo == {e \in ActivityEntries(run[w]) : index[e.source] # e.revision}
             r == [run[w] EXCEPT !.todo = todo]
  <2>1. Alone(w, "index", r) /\ window' = window
    BY <1>7 DEF Poll, Alone, state
  <2>2. r.since = run[w].since /\ r.todo = todo
    BY <1>2 DEF Run
  <2>3. \A e \in todo : e.revision # 0
    BY <1>2, ActivityEntriesReal
  <2> HIDE DEF r, todo
  <2> QED
    BY <1>1, <1>2, <2>1, <2>2, <2>3, AloneReal
<1>8. CASE IndexOne(w)
  <2>1. PICK e \in run[w].todo : Indexes(w, e) \/ Rejects(w, e)
    BY <1>8, IndexOneCases
  <2>2. window' = window
    BY <1>8 DEF IndexOne, state
  <2>3. CASE Indexes(w, e)
    <3> DEFINE r == [run[w] EXCEPT !.todo = @ \ {e}]
    <3>1. Alone(w, "index", r)
      BY <2>3 DEF Indexes
    <3>2. r.since = run[w].since /\ r.todo = run[w].todo \ {e}
      BY <1>2 DEF Run
    <3> HIDE DEF r
    <3> QED
      BY <1>1, <1>2, <2>2, <3>1, <3>2, AloneReal
  <2>4. CASE Rejects(w, e)
    <3> DEFINE r == [run[w] EXCEPT !.todo = @ \ {e}, !.gone = @ \cup {e.source}]
    <3>1. Alone(w, "index", r)
      BY <2>4 DEF Rejects
    <3>2. r.since = run[w].since /\ r.todo = run[w].todo \ {e}
      BY <1>2 DEF Run
    <3> HIDE DEF r
    <3> QED
      BY <1>1, <1>2, <2>2, <3>1, <3>2, AloneReal
  <2> QED
    BY <2>1, <2>3, <2>4
<1>9. CASE Retire(w)
  <2>1. Alone(w, "mark", run[w]) /\ window' = window
    BY <1>9 DEF Retire, Alone, state, TypeInv, TypeOK
  <2> QED
    BY <1>1, <1>2, <2>1, AloneReal
<1>10. CASE MarkIngested(w) \/ MarkError(w) \/ Abort(w)
  <2>1. Alone(w, "idle", NoRun)
    BY <1>10, FinishAlone DEF MarkIngested, MarkError, Abort
  <2>2. window' \subseteq Opened
    BY <1>2, <1>10 DEF MarkIngested, MarkError, Abort, state, Opened
  <2> QED
    BY <1>1, <1>3, <2>1, <2>2, AloneReal
<1> QED
  BY <1>4, <1>5, <1>6, <1>7, <1>8, <1>9, <1>10 DEF Step

LEMMA StartReal ==
  ASSUME TypeInv, RealInv, NEW w \in Workers, NEW force \in BOOLEAN, Start(w, force)
  PROVE  RealInv'
<1> DEFINE r == [NoRun EXCEPT !.prev = cursor.sha, !.force = force,
                              !.retry = cursor.failed /\ ~force,
                              !.stamp = stamp, !.since = window, !.missed = missed]
<1>1. Alone(w, "head", r) /\ UNCHANGED <<item, window>>
  BY DEF Start, Alone, upstream, state
<1>2. r.since = window /\ r.todo = {}
  BY DEF NoRun
<1>3. Opened' = Opened
  BY <1>1 DEF Opened
<1> HIDE DEF r
<1> QED
  BY <1>1, <1>2, <1>3, AloneReal DEF RealInv

LEMMA EditReal ==
  ASSUME TypeInv, RealInv, NEW i \in Activity, Edit(i)
  PROVE  RealInv'
<1>1. /\ item \in [Activity -> Revision] /\ item' = [item EXCEPT ![i] = @ + 1]
      /\ window' = window \cup {i}
  BY DEF Edit, TypeInv, TypeOK
<1>2. Opened \cup {i} \subseteq Opened'
  BY <1>1, IngestionAssumption DEF Opened, Revision
<1>3. ASSUME NEW w \in Workers
      PROVE  run'[w].since \subseteq run[w].since \cup {i} /\ run'[w].todo = run[w].todo
  BY DEF Edit, TypeInv, RunOK, Run
<1> QED
  BY <1>1, <1>2, <1>3 DEF RealInv, RealRun

LEMMA RealStep == TypeInv /\ RealInv /\ [Next]_vars => RealInv'
<1> SUFFICES ASSUME TypeInv, RealInv, [Next]_vars PROVE RealInv'
  OBVIOUS
<1>1. CASE Restart \/ LoseIndex
  <2>1. UNCHANGED <<item, window>> /\ \A w \in Workers : run'[w] = NoRun
    BY <1>1 DEF Restart, LoseIndex, upstream, state
  <2> QED
    BY <2>1 DEF RealInv, RealRun, Opened, NoRun
<1>2. ASSUME NEW tree \in Tree, Push(tree) PROVE RealInv'
  BY <1>2 DEF Push, state, RealInv, RealRun, Opened
<1>3. ASSUME NEW commit, Reset(commit) PROVE RealInv'
  BY <1>3 DEF Reset, state, RealInv, RealRun, Opened
<1>4. CASE Tick
  <2>1. UNCHANGED <<item, window>>
    BY <1>4 DEF Tick
  <2>2. ASSUME NEW w \in Workers
        PROVE  run'[w].since = run[w].since /\ run'[w].todo = run[w].todo
    BY <1>4 DEF Tick, TypeInv, RunOK, Run
  <2> QED
    BY <2>1, <2>2 DEF RealInv, RealRun, Opened
<1>5. CASE UNCHANGED vars
  BY <1>5 DEF vars, upstream, state, RealInv, RealRun, Opened
<1> QED
  BY <1>1, <1>2, <1>3, <1>4, <1>5, StepReal, StartReal, EditReal DEF Next

(* Additions to the store replace what it holds of their source. *)
LEMMA HeldReplaced ==
  ASSUME NEW stored \in Stored, NEW e \in Entry, e.revision # 0
  PROVE  Held([stored EXCEPT ![e.source] = e.revision]) = Index!Replaced(Held(stored), e)
<1> DEFINE changed == [stored EXCEPT ![e.source] = e.revision]
<1>1. \A s \in Source : changed[s] = IF s = e.source THEN e.revision ELSE stored[s]
  BY DEF Stored
<1>2. \A f \in Entry : f.source \in Source
                         /\ (f.source = e.source /\ f.revision = e.revision => f = e)
  BY DEF Entry
<1> HIDE DEF changed
<1>3. \A f \in Entry : f \in Held(changed) <=> f \in Index!Replaced(Held(stored), e)
  BY <1>1, <1>2 DEF Held, Index!Replaced
<1>4. Index!Replaced(Held(stored), e) \subseteq Entry /\ Held(changed) \subseteq Entry
  BY DEF Held, Index!Replaced
<1> QED
  BY <1>3, <1>4 DEF changed

LEMMA StoreStep ==
  TypeInv /\ RealInv /\ [Next]_vars => [Index!Next]_<<Held(index), Held(disk)>>
<1> SUFFICES ASSUME TypeInv, RealInv, [Next]_vars
             PROVE  Index!Next \/ UNCHANGED <<Held(index), Held(disk)>>
  OBVIOUS
<1>0. index \in Stored /\ disk \in Stored
  BY DEF TypeInv, TypeOK
<1>1. CASE UNCHANGED store
  BY <1>1 DEF store, Held
<1>2. ASSUME NEW w \in Workers, IndexOne(w)
      PROVE  Index!Next \/ UNCHANGED <<Held(index), Held(disk)>>
  <2>1. PICK e \in run[w].todo : Indexes(w, e) \/ Rejects(w, e)
    BY <1>2, IndexOneCases
  <2>2. e \in Entry /\ e.revision # 0
    BY DEF TypeInv, RunOK, Run, RealInv, RealRun
  <2>3. CASE Rejects(w, e)
    BY <1>1, <2>3 DEF Rejects
  <2>4. CASE Indexes(w, e)
    <3>1. /\ index' = [index EXCEPT ![e.source] = e.revision]
          /\ disk' = [disk EXCEPT ![e.source] = e.revision]
      BY <2>4 DEF Indexes
    <3>2. /\ Held(index') = Index!Replaced(Held(index), e)
          /\ Held(disk') = Index!Replaced(Held(disk), e)
      BY <1>0, <2>2, <3>1, HeldReplaced
    <3>3. Held(index)' = Held(index') /\ Held(disk)' = Held(disk')
      BY DEF Held
    <3>4. Index!Add(e)
      BY <3>2, <3>3 DEF Index!Add, Index!Replaced
    <3> QED
      BY <2>2, <3>4 DEF Index!Next
  <2> QED
    BY <2>1, <2>3, <2>4
<1>3. ASSUME NEW w \in Workers, Retire(w) PROVE Index!Next
  <2>1. \A s \in Source : index'[s] \in {0, index[s]}
    BY <1>3 DEF Retire
  <2>2. Held(index)' \subseteq Held(index) /\ Held(disk)' = Held(disk)
    BY <1>3, <2>1 DEF Held, Entry, Retire
  <2> QED
    BY <2>2 DEF Index!Next, Index!Forget
<1>4. CASE Restart
  <2>1. Held(index)' = Held(disk) /\ Held(disk)' = Held(disk)
    BY <1>4 DEF Restart, Held
  <2> QED
    BY <2>1 DEF Index!Next, Index!Restart
<1>5. CASE LoseIndex
  <2>1. index' = Empty /\ (disk' = disk \/ disk' = Empty)
    BY <1>5 DEF LoseIndex
  <2>2. ASSUME NEW stored, stored = Empty PROVE Held(stored) = {}
    BY <2>2 DEF Held, Entry, Empty
  <2>3. Held(index)' = {} /\ (Held(disk)' = Held(disk) \/ Held(disk)' = {})
    BY <2>1, <2>2 DEF Held
  <2> QED
    BY <2>3 DEF Index!Next, Index!Forget, Index!Lose
<1>6. ASSUME NEW w \in Workers,
             \/ ResolveHead(w) \/ FetchFails(w) \/ Collect(w) \/ Poll(w)
             \/ MarkIngested(w) \/ MarkError(w) \/ Abort(w)
      PROVE  UNCHANGED store
  BY <1>6 DEF ResolveHead, FetchFails, Collect, Poll, MarkIngested, MarkError, Abort
<1>7. ASSUME \/ \E w \in Workers : \E force \in BOOLEAN : Start(w, force)
             \/ \E tree \in Tree : Push(tree)
             \/ \E commit \in DOMAIN history \ {tip} : Reset(commit)
             \/ \E i \in Activity : Edit(i)
             \/ Tick \/ UNCHANGED vars
      PROVE  UNCHANGED store
  BY <1>7 DEF Start, Push, Reset, Edit, Tick, vars
<1> QED
  BY <1>1, <1>2, <1>3, <1>4, <1>5, <1>6, <1>7 DEF Next, Step

(* The state file.  A run asks for its one update when it has nothing else *)
(* left to do, and never twice.                                            *)
Table == [r \in {History} |-> cursor]
Pending == [w \in Workers |-> Requested(w)]

Busy(w) == pc[w] \in {"mark", "failed"}

RequestsOK ==
  \A w \in Workers :
    /\ Busy(w) => Requested(w) \in File!Request /\ Requested(w) # NoRequest
    /\ ~Busy(w) => Requested(w) = NoRequest

LEMMA RequestedType == TypeInv => RequestsOK
<1> SUFFICES ASSUME TypeInv, NEW w \in Workers
             PROVE  /\ Busy(w) => Requested(w) \in File!Request /\ Requested(w) # NoRequest
                    /\ ~Busy(w) => Requested(w) = NoRequest
  BY DEF RequestsOK
<1>1. CASE pc[w] = "mark"
  <2>1. run[w].head \in 1..MaxCommits
    <3>1. run[w].head \in DOMAIN history
      BY <1>1 DEF TypeInv, RunOK
    <3>2. DOMAIN history = 1..Len(history) /\ Len(history) \in 1..MaxCommits
      BY DEF TypeInv, TypeOK
    <3> HIDE DEF TypeInv
    <3> QED
      BY <3>1, <3>2, IngestionAssumption
  <2>2. Requested(w) = [kind |-> "ingested", repo |-> History, sha |-> run[w].head]
    BY <1>1 DEF Requested
  <2> QED
    BY <1>1, <2>1, <2>2 DEF Busy, NoRequest, File!Request
<1>2. CASE pc[w] = "failed"
  <2>1. Requested(w) = [kind |-> "error", repo |-> History, sha |-> 1]
    BY <1>2 DEF Requested
  <2>2. 1 \in 1..MaxCommits
    BY IngestionAssumption
  <2> QED
    BY <1>2, <2>1, <2>2 DEF Busy, NoRequest, File!Request
<1>3. CASE ~Busy(w)
  BY <1>3 DEF Busy, Requested
<1> QED
  BY <1>1, <1>2, <1>3 DEF Busy

LEMMA RequestedTypeNext == TypeInv' => RequestsOK'
BY RequestedType, PTL

(* A step of one worker concerns no request but its own. *)
LEMMA AloneRequests ==
  ASSUME TypeInv, NEW w \in Workers, NEW place, NEW r, Alone(w, place, r)
  PROVE  /\ Pending' = [Pending EXCEPT ![w] = Requested(w)']
         /\ pc'[w] = place /\ run'[w] = r
<1>1. pc'[w] = place /\ run'[w] = r
  BY DEF Alone, TypeInv, TypeOK
<1>2. ASSUME NEW v \in Workers, v # w PROVE Requested(v)' = Requested(v)
  <2>1. pc'[v] = pc[v] /\ run'[v] = run[v]
    BY <1>2 DEF Alone, TypeInv, TypeOK
  <2> QED
    BY <2>1 DEF Requested, NoRequest
<1> QED
  BY <1>1, <1>2 DEF Pending

LEMMA QuietRequests ==
  ASSUME \A w \in Workers : Requested(w)' = Requested(w), cursor' = cursor
  PROVE  UNCHANGED <<Table, Pending>>
BY DEF Table, Pending

(* Before its request, and when it asks for nothing. *)
LEMMA IdleRequests ==
  ASSUME TypeInv, NEW w \in Workers, NEW place, NEW r, Alone(w, place, r),
         ~Busy(w), place \notin {"mark", "failed"}, cursor' = cursor
  PROVE  UNCHANGED <<Table, Pending>>
<1>1. Requested(w)' = NoRequest /\ Requested(w) = NoRequest
  BY AloneRequests, RequestedType DEF RequestsOK, Requested, NoRequest
<1>2. Pending' = [Pending EXCEPT ![w] = Requested(w)]
  BY <1>1, AloneRequests
<1>3. Pending' = Pending
  BY <1>2 DEF Pending
<1> QED
  BY <1>3 DEF Table

LEMMA AskStep ==
  ASSUME TypeInv, TypeInv', NEW w \in Workers, NEW place, NEW r, Alone(w, place, r),
         ~Busy(w), place \in {"mark", "failed"}, cursor' = cursor
  PROVE  File!Next
<1>1. Requested(w) = NoRequest
  BY RequestedType DEF RequestsOK
<1>2. Busy(w)'
  BY AloneRequests DEF Busy
<1>3. Requested(w)' \in File!Request
  BY <1>2, RequestedTypeNext DEF RequestsOK
<1>4. File!Ask(w, Requested(w)')
  BY <1>1, AloneRequests DEF File!Ask, Pending
<1> QED
  BY <1>3, <1>4 DEF File!Next

LEMMA AppliedTable ==
  ASSUME NEW rq, rq.repo = History
  PROVE  File!Apply(Table, rq) =
           [r \in {History} |-> IF rq.kind = "ingested" THEN [sha |-> rq.sha, failed |-> FALSE]
                                ELSE [sha |-> cursor.sha, failed |-> TRUE]]
<1>1. Table[History] = cursor /\ DOMAIN Table = {History}
  BY DEF Table
<1>2. File!Apply(Table, rq) =
        [Table EXCEPT ![rq.repo] =
           IF rq.kind = "ingested" THEN [sha |-> rq.sha, failed |-> FALSE]
                                   ELSE [sha |-> Table[rq.repo].sha, failed |-> TRUE]]
  BY DEF File!Apply
<1> QED
  BY <1>1, <1>2

(* The request is answered: what a run marks is what it asked for. *)
LEMMA TakeEffectStep ==
  ASSUME TypeInv, NEW w \in Workers, NEW r, Alone(w, "idle", r), Busy(w),
         cursor' = IF pc[w] = "mark" THEN [sha |-> run[w].head, failed |-> FALSE]
                                     ELSE [cursor EXCEPT !.failed = TRUE]
  PROVE  File!Next
<1>1. Requested(w) # NoRequest /\ Requested(w)' = NoRequest
  BY RequestedType, AloneRequests DEF RequestsOK, Requested, NoRequest
<1>2. Table' = File!Apply(Table, Requested(w))
  <2>1. CASE pc[w] = "mark"
    <3>1. /\ Requested(w).kind = "ingested" /\ Requested(w).repo = History
          /\ Requested(w).sha = run[w].head
      BY <2>1 DEF Requested
    <3>2. cursor' = [sha |-> Requested(w).sha, failed |-> FALSE]
      BY <2>1, <3>1
    <3>3. File!Apply(Table, Requested(w)) =
            [s \in {History} |-> [sha |-> Requested(w).sha, failed |-> FALSE]]
      BY <3>1, AppliedTable
    <3>4. Table' = [s \in {History} |-> cursor']
      BY DEF Table
    <3> QED
      BY <3>2, <3>3, <3>4
  <2>2. CASE pc[w] = "failed"
    <3>1. Requested(w).kind = "error" /\ Requested(w).repo = History
      BY <2>2 DEF Requested
    <3>2. cursor' = [sha |-> cursor.sha, failed |-> TRUE]
      <4>1. cursor = [sha |-> cursor.sha, failed |-> cursor.failed]
        BY DEF TypeInv, TypeOK
      <4>2. cursor' = [cursor EXCEPT !.failed = TRUE]
        BY <2>2
      <4> QED
        BY <4>1, <4>2
    <3> QED
      BY <3>1, <3>2, AppliedTable DEF Table
  <2> QED
    BY <2>1, <2>2 DEF Busy
<1>3. File!TakeEffect(w)
  BY <1>1, <1>2, AloneRequests DEF File!TakeEffect, Table, Pending
<1> QED
  BY <1>3 DEF File!Next

LEMMA RefuseStep ==
  ASSUME TypeInv, NEW w \in Workers, NEW r, Alone(w, "idle", r), Busy(w), cursor' = cursor
  PROVE  File!Next
<1>1. Requested(w) # NoRequest /\ Requested(w)' = NoRequest
  BY RequestedType, AloneRequests DEF RequestsOK, Requested, NoRequest
<1>2. File!Refuse(w)
  BY <1>1, AloneRequests DEF File!Refuse, Pending
<1> QED
  BY <1>2 DEF File!Next

LEMMA WorkerCursorStep ==
  ASSUME TypeInv, TypeInv', NEW w \in Workers, Step(w)
  PROVE  File!Next \/ UNCHANGED <<Table, Pending>>
<1>1. CASE ResolveHead(w)
  <2>1. ~Busy(w) /\ cursor' = cursor
    BY <1>1 DEF ResolveHead, Busy, state
  <2>2. \E place, r : place \notin {"mark", "failed"} /\ Alone(w, place, r)
    <3> DEFINE q == run[w]
               rehydrate == q.prev # 0 /\ index = Empty /\ ~q.force
               path == IF tip = q.prev /\ ~q.force /\ ~rehydrate /\ ~q.retry
                       THEN IF q.stamp < PollInterval THEN "idle" ELSE "poll"
                       ELSE "collect"
               r == IF path = "idle" THEN NoRun
                    ELSE [q EXCEPT !.head = tip,
                                   !.first = q.prev = 0 \/ q.force \/ rehydrate \/ q.retry,
                                   !.all = rehydrate \/ q.retry \/ q.prev = 0]
    <3>1. Alone(w, path, r)
      BY <1>1 DEF ResolveHead, Alone
    <3>2. path \notin {"mark", "failed"}
      OBVIOUS
    <3> HIDE DEF r, path
    <3> QED
      BY <3>1, <3>2
  <2> QED
    BY <2>1, <2>2, IdleRequests
<1>2. CASE FetchFails(w)
  <2>1. ~Busy(w) /\ cursor' = cursor /\ Alone(w, "failed", run[w])
    BY <1>2 DEF FetchFails, Busy, state, Alone, TypeInv, TypeOK
  <2> QED
    BY <2>1, AskStep
<1>3. CASE Collect(w)
  <2>1. PICK from, fetched : \E full \in BOOLEAN : Collects(w, from, full, fetched)
    BY <1>3, CollectCases, Zenon
  <2>2. PICK full \in BOOLEAN : Collects(w, from, full, fetched)
    BY <2>1
  <2>3. \E r : Alone(w, "index", r)
    BY <2>2 DEF Collects
  <2>4. ~Busy(w) /\ cursor' = cursor
    BY <1>3 DEF Collect, Busy, state
  <2> QED
    BY <2>3, <2>4, IdleRequests
<1>4. CASE Poll(w)
  <2>1. ~Busy(w) /\ cursor' = cursor /\ \E r : Alone(w, "index", r)
    BY <1>4 DEF Poll, Busy, state, Alone
  <2> QED
    BY <2>1, IdleRequests
<1>5. CASE IndexOne(w)
  <2>1. ~Busy(w) /\ cursor' = cursor
    BY <1>5 DEF IndexOne, Busy, state
  <2>2. PICK e \in run[w].todo : Indexes(w, e) \/ Rejects(w, e)
    BY <1>5, IndexOneCases
  <2>3. \E r : Alone(w, "index", r)
    BY <2>2 DEF Indexes, Rejects
  <2> QED
    BY <2>1, <2>3, IdleRequests
<1>6. CASE Retire(w)
  <2>1. ~Busy(w) /\ cursor' = cursor /\ Alone(w, "mark", run[w])
    BY <1>6 DEF Retire, Busy, state, Alone, TypeInv, TypeOK
  <2> QED
    BY <2>1, AskStep
<1>7. CASE MarkIngested(w) \/ MarkError(w)
  <2>1. Busy(w) /\ Alone(w, "idle", NoRun)
    BY <1>7, FinishAlone DEF MarkIngested, MarkError, Busy
  <2>2. cursor' = IF pc[w] = "mark" THEN [sha |-> run[w].head, failed |-> FALSE]
                                    ELSE [cursor EXCEPT !.failed = TRUE]
    BY <1>7 DEF MarkIngested, MarkError
  <2> QED
    BY <2>1, <2>2, TakeEffectStep
<1>8. CASE Abort(w)
  <2>1. cursor' = cursor /\ Alone(w, "idle", NoRun)
    BY <1>8, FinishAlone DEF Abort, state
  <2> QED
    BY <2>1, RefuseStep, IdleRequests
<1> QED
  BY <1>1, <1>2, <1>3, <1>4, <1>5, <1>6, <1>7, <1>8 DEF Step

LEMMA CursorStep ==
  TypeInv /\ TypeInv' /\ [Next]_vars => [File!Next]_<<Table, Pending>>
<1> SUFFICES ASSUME TypeInv, TypeInv', [Next]_vars
             PROVE  File!Next \/ UNCHANGED <<Table, Pending>>
  OBVIOUS
<1>1. ASSUME NEW w \in Workers, NEW force \in BOOLEAN, Start(w, force)
      PROVE  UNCHANGED <<Table, Pending>>
  <2>1. ~Busy(w) /\ cursor' = cursor /\ \E r : Alone(w, "head", r)
    BY <1>1 DEF Start, Busy, state, Alone
  <2> QED
    BY <2>1, IdleRequests
<1>2. CASE Restart \/ LoseIndex
  <2>1. cursor' = cursor /\ \A w \in Workers : pc'[w] = "idle"
    BY <1>2 DEF Restart, LoseIndex, state
  <2>2. \A w \in Workers : Requested(w)' = NoRequest
    BY <2>1 DEF Requested, NoRequest
  <2>3. File!Crash
    BY <2>1, <2>2 DEF File!Crash
  <2> QED
    BY <2>3 DEF File!Next
<1>3. ASSUME \/ \E tree \in Tree : Push(tree)
             \/ \E commit \in DOMAIN history \ {tip} : Reset(commit)
             \/ \E i \in Activity : Edit(i)
             \/ Tick \/ UNCHANGED vars
      PROVE  UNCHANGED <<Table, Pending>>
  <2>1. pc' = pc /\ cursor' = cursor
    BY <1>3 DEF Push, Reset, Edit, Tick, vars, state
  <2>2. ASSUME NEW w \in Workers PROVE run'[w].head = run[w].head
    <3>1. run[w] \in Run
      BY DEF TypeInv, RunOK
    <3> QED
      BY <1>3, <3>1 DEF Push, Reset, Edit, Tick, vars, Run
  <2>3. \A w \in Workers : Requested(w)' = Requested(w)
    BY <2>1, <2>2 DEF Requested, NoRequest
  <2> QED
    BY <2>1, <2>3, QuietRequests
<1> QED
  BY <1>1, <1>2, <1>3, WorkerCursorStep DEF Next

(* For any number of workers, runs aborted anywhere, restarts and lost     *)
(* files: what a run does to the store is an addition or a retirement, and *)
(* what is there after a start was added before; and the cursor only ever  *)
(* moves by a request that a run made when it was through.  StoreActsAsView *)
(* and StateStoreUpdatesAreAtomic show the other sides of this.            *)
THEOREM IngestionUsesItsFiles == Spec => UsesItsFiles
<1>1. Init => Index!Init
  <2>1. ASSUME NEW stored, stored = Empty PROVE Held(stored) = {}
    BY <2>1 DEF Held, Entry, Empty
  <2> QED
    BY <2>1 DEF Init, Index!Init
<1>2. Init => File!Init
  BY DEF Init, File!Init, File!FreshCursor, Requested, NoRequest
<1>3. Spec => Index!Spec
  BY <1>1, TypeInit, TypeInvStep, RealInit, RealStep, StoreStep, PTL
     DEF Spec, Index!Spec
<1>4. [File!Next]_<<Table, Pending>> => [File!Next]_File!vars
  BY DEF Table, Pending, File!vars
<1>5. Spec => File!Spec
  BY <1>2, <1>4, TypeInit, TypeInvStep, CursorStep, PTL DEF Spec, File!Spec
<1> QED
  BY <1>3, <1>5 DEF UsesItsFiles
=============================================================================
